----------------------------- MODULE BTreeProofs -----------------------------
(***************************************************************************)
(* Proofs about the B+tree of BTree.tla.                                   *)
(*                                                                         *)
(* A tree is proved about by saying what keys each of its pages is for: u. *)
(* The root is for all, the children of a page are for its slots between   *)
(* separators, and the leaves hold what the map has for their keys.  From  *)
(* there the module goes                                                   *)
(*   - to what is found in such a tree, and what its layers are;           *)
(*   - to what a put makes of it: the nodes up a path, the tree with them  *)
(*     grafted in, and for which keys each of its pages then is;           *)
(*   - to the inductive invariant TreeInv, a step at a time, and what      *)
(*     follows from it;                                                    *)
(*   - to the map that callers see.                                        *)
(***************************************************************************)
EXTENDS BTree, CowStoreProofs, NodeProofs

---------------------------------------------------------------------------
(* What a tree is: each of its pages for a set of keys, u. *)

\* The node on page p is sound.
IsSound(p, on) == p \in PageId /\ p \in DOMAIN on /\ SoundNode(on[p], PageSize)

\* A node on level l of a tree T, for the keys of U, has its own keys there,
\* and its children are on the level below and for the keys of its slots.
Placed(n, U, l, T, u) ==
    /\ KeysIn(n, U)
    /\ n.kind = IF l = 1 THEN "leaf" ELSE "internal"
    /\ l # 1 => /\ Covers(n, U, u)
                /\ \A c \in Kids(n) : c \in DOMAIN T /\ T[c].level = l - 1

HasParent(p, on, T) ==
    \E q \in DOMAIN T : T[q].level = T[p].level + 1 /\ p \in Kids(on[q])

\* A page fits into a tree; none but the root is empty or without a parent.
Fits(p, on, T, rt, u) ==
    /\ IsSound(p, on)
    /\ T[p].level \in 1 .. T[rt].level
    /\ u[p] \subseteq Key
    /\ Placed(on[p], u[p], T[p].level, T, u)
    /\ p # rt => Pieces(on[p]) >= 1 /\ HasParent(p, on, T)

\* Pages of one level are for different keys.
Apart(T, u) ==
    \A p, q \in DOMAIN T : p # q /\ T[p].level = T[q].level => u[p] \cap u[q] = {}

Shape(on, T, rt, u) ==
    /\ rt \in DOMAIN T /\ u[rt] = Key
    /\ T[rt].level \in 1 .. MaxHeight + 1
    /\ \A p \in DOMAIN T : Fits(p, on, T, rt, u)
    /\ Apart(T, u)

\* The leaves hold a map, each the part of it that it is for.
Holds(m, on, T, u) ==
    /\ m = [k \in DOMAIN m |-> m[k]] /\ DOMAIN m \subseteq Key
    /\ \A p \in DOMAIN T : T[p].level = 1 =>
          Holding(on[p]) = {[key |-> k, val |-> m[k]] : k \in DOMAIN m \cap u[p]}

HasTree(m, on, T, rt) ==
    \E u \in [DOMAIN T -> SUBSET Key] : Shape(on, T, rt, u) /\ Holds(m, on, T, u)

\* What a reader's walk needs of the pages it may come to.
Walkable(on, T) ==
    \A p \in DOMAIN T :
        /\ IsSound(p, on)
        /\ T[p].level \in 1 .. MaxHeight + 1
        /\ on[p].kind = IF T[p].level = 1 THEN "leaf" ELSE "internal"
        /\ T[p].level # 1 =>
              \A c \in Kids(on[p]) : c \in DOMAIN T /\ T[c].level = T[p].level - 1

\* A store's page size is one that nodes are proved about.
LEMMA PageSizeIs == PageSize \in Sizes
BY PageSizeAssumption, SizesAre

\* A sound node is a sound leaf or a sound internal node, and fits.
LEMMA SoundByKind ==
    ASSUME NEW n, NEW P, SoundNode(n, P)
    PROVE  /\ n.kind = "leaf" => SoundLeaf(n, P) /\ LeafBytes(n) <= P
           /\ n.kind = "internal" => SoundInternal(n, P) /\ InternalBytes(n) <= P
           /\ n.kind \in {"leaf", "internal"}
BY DEF SoundNode, SoundLeaf, SoundInternal, LeafType, InternalType

\* All of it concerns only the nodes on the tree's own pages.
LEMMA ShapeKept ==
    ASSUME NEW on, NEW new, NEW T, NEW rt, NEW u, NEW m,
           \A p \in DOMAIN T : p \in DOMAIN on => p \in DOMAIN new /\ new[p] = on[p],
           Shape(on, T, rt, u)
    PROVE  Shape(new, T, rt, u) /\ (Holds(m, on, T, u) => Holds(m, new, T, u))
<1>1. \A p \in DOMAIN T : p \in DOMAIN new /\ new[p] = on[p]
  BY DEF Shape, Fits, IsSound
<1>2. ASSUME NEW p \in DOMAIN T PROVE Fits(p, new, T, rt, u)
  <2>1. Fits(p, on, T, rt, u) /\ new[p] = on[p] /\ p \in DOMAIN new
    BY <1>1 DEF Shape
  <2>2. HasParent(p, on, T) => HasParent(p, new, T)
    BY <1>1 DEF HasParent
  <2> QED  BY <2>1, <2>2 DEF Fits, IsSound
<1>3. Shape(new, T, rt, u)
  BY <1>2 DEF Shape
<1>4. Holds(m, on, T, u) => Holds(m, new, T, u)
  BY <1>1 DEF Holds
<1> QED  BY <1>3, <1>4

\* So a tree whose pages are kept still holds what it held,
LEMMA TreeKept ==
    ASSUME NEW on, NEW new, NEW T, NEW rt, NEW m, HasTree(m, on, T, rt),
           \A p \in DOMAIN T : p \in DOMAIN on => p \in DOMAIN new /\ new[p] = on[p]
    PROVE  HasTree(m, new, T, rt)
BY ShapeKept DEF HasTree

\* and a walk over them still finds its way.
LEMMA WalkableKept ==
    ASSUME NEW on, NEW new, NEW T, Walkable(on, T),
           \A p \in DOMAIN T : p \in DOMAIN on => p \in DOMAIN new /\ new[p] = on[p]
    PROVE  Walkable(new, T)
BY DEF Walkable, IsSound

\* What has the shape of a tree can be walked.
LEMMA ShapeWalkable ==
    ASSUME NEW on, NEW T, NEW rt, NEW u, Shape(on, T, rt, u)
    PROVE  Walkable(on, T)
<1> SUFFICES ASSUME NEW p \in DOMAIN T
             PROVE  /\ IsSound(p, on)
                    /\ T[p].level \in 1 .. MaxHeight + 1
                    /\ on[p].kind = IF T[p].level = 1 THEN "leaf" ELSE "internal"
                    /\ T[p].level # 1 =>
                          \A c \in Kids(on[p]) : c \in DOMAIN T /\ T[c].level = T[p].level - 1
  BY DEF Walkable
<1>1. Fits(p, on, T, rt, u) /\ T[rt].level \in 1 .. MaxHeight + 1
  BY DEF Shape
<1>2. T[p].level \in 1 .. MaxHeight + 1
  BY <1>1, BoundAssumption DEF Fits
<1> QED  BY <1>1, <1>2 DEF Fits, Placed

\* The child that a key belongs under, by the node alone.
LEMMA ChildIs ==
    ASSUME NEW n, SoundNode(n, PageSize), n.kind = "internal", NEW key \in Key
    PROVE  /\ ChildFor(n, key) \in Kids(n)
           /\ ChildFor(n, key) \in PageId
           /\ \A U, u : Covers(n, U, u) /\ key \in U => key \in u[ChildFor(n, key)]
<1>1. SoundInternal(n, PageSize)
  BY SoundByKind
<1> DEFINE at == ChildIndex(n, key)
<1>2. at + 1 \in 1 .. Len(n.children) /\ InSlot(n, at + 1, key)
  BY <1>1, PageSizeIs, SlotOfKey
<1>3. ChildFor(n, key) = n.children[at + 1]
  BY DEF ChildFor
<1>4. n.children \in Seq(Ids)
  BY <1>1, PageSizeIs, InternalFacts
<1> HIDE DEF at
<1>5. ChildFor(n, key) \in Kids(n)
  BY <1>2, <1>3 DEF Kids
<1>6. ChildFor(n, key) \in PageId
  BY <1>2, <1>3, <1>4 DEF Ids, PageId
<1>7. ASSUME NEW U, NEW u, Covers(n, U, u), key \in U
      PROVE  key \in u[ChildFor(n, key)]
  BY <1>2, <1>3, <1>7 DEF Covers
<1> QED  BY <1>5, <1>6, <1>7

\* The child that a key belongs under, in a tree.
LEMMA ChildInTree ==
    ASSUME NEW on, NEW T, NEW rt, NEW u, Shape(on, T, rt, u),
           NEW p \in DOMAIN T, T[p].level # 1, NEW key \in u[p]
    PROVE  LET c == ChildFor(on[p], key)
           IN  /\ c \in Kids(on[p]) /\ c \in DOMAIN T
               /\ T[c].level = T[p].level - 1 /\ key \in u[c]
<1>1. Fits(p, on, T, rt, u)
  BY DEF Shape
<1>2. /\ SoundNode(on[p], PageSize) /\ on[p].kind = "internal" /\ key \in Key
      /\ Covers(on[p], u[p], u)
      /\ \A c \in Kids(on[p]) : c \in DOMAIN T /\ T[c].level = T[p].level - 1
  BY <1>1 DEF Fits, IsSound, Placed
<1> QED  BY <1>2, ChildIs

---------------------------------------------------------------------------
(* The recursive functions of BTree.tla are what their recursions say.     *)

\* One step of each recursion.
WayStep(on, key, d, below) ==
    [p \in PageId |->
        IF d = 0 \/ on[p].kind = "leaf" THEN <<p>>
        ELSE Append(below[ChildFor(on[p], key)], p)]

LayerStep(on, from, d, above) ==
    IF d = 0 THEN {from}
    ELSE UNION {Range(on[p].children) : p \in {q \in above : on[q].kind = "internal"}}

Rises(up, on, key, n) ==
    \A d \in 0 .. n : up[d] = WayStep(on, key, d, up[d - 1])

Sinks(layer, on, from, n) ==
    \A d \in 0 .. n : layer[d] = LayerStep(on, from, d, layer[d - 1])

\* There is a function that does each step of the recursion up a path,
LEMMA RisesExist ==
    ASSUME NEW on, NEW key, NEW n \in Nat
    PROVE  \E up : Rises(up, on, key, n)
<1> DEFINE Bad == {j \in Nat : ~ \E up : Rises(up, on, key, j)}
<1> SUFFICES ASSUME Bad # {}
             PROVE  FALSE
  OBVIOUS
<1>1. PICK j \in Bad : \A k \in Bad : j <= k
  <2>1. Bad \subseteq Nat
    OBVIOUS
  <2> HIDE DEF Bad
  <2> QED  BY <2>1, LeastExists
<1>2. j \in Nat /\ ~ \E up : Rises(up, on, key, j)
  BY <1>1
<1> DEFINE step(d, below) == WayStep(on, key, d, below)
<1>3. \A x, y : step(0, x) = step(0, y)
  BY DEF WayStep
<1> HIDE DEF step
<1>4. CASE j = 0
  <2> DEFINE up == [i \in 0 .. 0 |-> step(0, 0)]
  <2>1. \A i \in 0 .. 0 : up[i] = step(0, 0) /\ i = 0
    OBVIOUS
  <2> HIDE DEF up
  <2>2. \A i \in 0 .. 0 : up[i] = step(i, up[i - 1])
    BY <1>3, <2>1
  <2> QED  BY <1>2, <1>4, <2>2 DEF Rises, step
<1>5. CASE j # 0
  <2>1. j - 1 \in Nat /\ ~ (j <= j - 1)
    BY <1>2, <1>5
  <2>2. PICK v : Rises(v, on, key, j - 1)
    BY <1>1, <2>1
  <2> DEFINE last == step(j, v[j - 1])
             up == [i \in 0 .. j |-> IF i = j THEN last ELSE v[i]]
  <2> HIDE DEF last
  <2>3. up[j] = last /\ \A i \in 0 .. j - 1 : up[i] = v[i]
    BY <1>2, <1>5
  <2> HIDE DEF up
  <2>4. ASSUME NEW i \in 0 .. j PROVE up[i] = step(i, up[i - 1])
    <3>1. CASE i = j
      <4>1. up[j - 1] = v[j - 1]
        BY <2>1, <2>3
      <4> QED  BY <2>3, <3>1, <4>1 DEF last
    <3>2. CASE i # j
      <4>1. i \in 0 .. j - 1
        BY <1>2, <3>2
      <4>2. v[i] = step(i, v[i - 1])
        BY <2>2, <4>1 DEF Rises, step
      <4>3. i # 0 => i - 1 \in 0 .. j - 1
        BY <4>1
      <4>4. up[i] = v[i] /\ (i # 0 => up[i - 1] = v[i - 1])
        BY <2>3, <4>1, <4>3
      <4> QED  BY <1>3, <4>2, <4>4
    <3> QED  BY <3>1, <3>2
  <2> QED  BY <1>2, <2>4 DEF Rises, step
<1> QED  BY <1>4, <1>5

\* so Ways(), which the code's recursion is, does each.
LEMMA WaysRise ==
    ASSUME NEW on, NEW key
    PROVE  \A d \in 0 .. MaxHeight :
              Ways(on, key)[d] = WayStep(on, key, d, Ways(on, key)[d - 1])
<1>1. PICK w : Rises(w, on, key, MaxHeight)
  BY BoundAssumption, RisesExist
<1> DEFINE step(d, below) == WayStep(on, key, d, below)
           r == [d \in 0 .. MaxHeight |-> w[d]]
           Is(a) == a = [d \in 0 .. MaxHeight |-> step(d, a[d - 1])]
<1>2. \A x, y : step(0, x) = step(0, y)
  BY DEF WayStep
<1>3. Ways(on, key) = CHOOSE a : Is(a)
  BY DEF Ways, WayStep
<1> HIDE DEF step
<1>4. Is(r)
  <2>1. ASSUME NEW d \in 0 .. MaxHeight PROVE w[d] = step(d, r[d - 1])
    <3>1. w[d] = step(d, w[d - 1])
      BY <1>1 DEF Rises, step
    <3>2. d # 0 => d - 1 \in 0 .. MaxHeight
      BY BoundAssumption
    <3>3. d # 0 => r[d - 1] = w[d - 1]
      BY <3>2
    <3> QED  BY <1>2, <3>1, <3>3
  <2> QED  BY <2>1
<1> HIDE DEF Is
<1>5. Is(Ways(on, key))
  BY <1>3, <1>4
<1> DEFINE ways == Ways(on, key)
<1> HIDE DEF ways
<1>6. ways = [d \in 0 .. MaxHeight |-> step(d, ways[d - 1])]
  BY <1>5 DEF Is, ways
<1>7. \A d \in 0 .. MaxHeight : ways[d] = step(d, ways[d - 1])
  BY <1>6
<1> QED  BY <1>7 DEF step, ways

\* The same of the layers below a page:
LEMMA SinksExist ==
    ASSUME NEW on, NEW from, NEW n \in Nat
    PROVE  \E layer : Sinks(layer, on, from, n)
<1> DEFINE Bad == {j \in Nat : ~ \E layer : Sinks(layer, on, from, j)}
<1> SUFFICES ASSUME Bad # {}
             PROVE  FALSE
  OBVIOUS
<1>1. PICK j \in Bad : \A k \in Bad : j <= k
  <2>1. Bad \subseteq Nat
    OBVIOUS
  <2> HIDE DEF Bad
  <2> QED  BY <2>1, LeastExists
<1>2. j \in Nat /\ ~ \E layer : Sinks(layer, on, from, j)
  BY <1>1
<1> DEFINE step(d, below) == LayerStep(on, from, d, below)
<1>3. \A x, y : step(0, x) = step(0, y)
  BY DEF LayerStep
<1> HIDE DEF step
<1>4. CASE j = 0
  <2> DEFINE layer == [i \in 0 .. 0 |-> step(0, 0)]
  <2>1. \A i \in 0 .. 0 : layer[i] = step(0, 0) /\ i = 0
    OBVIOUS
  <2> HIDE DEF layer
  <2>2. \A i \in 0 .. 0 : layer[i] = step(i, layer[i - 1])
    BY <1>3, <2>1
  <2> QED  BY <1>2, <1>4, <2>2 DEF Sinks, step
<1>5. CASE j # 0
  <2>1. j - 1 \in Nat /\ ~ (j <= j - 1)
    BY <1>2, <1>5
  <2>2. PICK v : Sinks(v, on, from, j - 1)
    BY <1>1, <2>1
  <2> DEFINE last == step(j, v[j - 1])
             layer == [i \in 0 .. j |-> IF i = j THEN last ELSE v[i]]
  <2> HIDE DEF last
  <2>3. layer[j] = last /\ \A i \in 0 .. j - 1 : layer[i] = v[i]
    BY <1>2, <1>5
  <2> HIDE DEF layer
  <2>4. ASSUME NEW i \in 0 .. j PROVE layer[i] = step(i, layer[i - 1])
    <3>1. CASE i = j
      <4>1. layer[j - 1] = v[j - 1]
        BY <2>1, <2>3
      <4> QED  BY <2>3, <3>1, <4>1 DEF last
    <3>2. CASE i # j
      <4>1. i \in 0 .. j - 1
        BY <1>2, <3>2
      <4>2. v[i] = step(i, v[i - 1])
        BY <2>2, <4>1 DEF Sinks, step
      <4>3. i # 0 => i - 1 \in 0 .. j - 1
        BY <4>1
      <4>4. layer[i] = v[i] /\ (i # 0 => layer[i - 1] = v[i - 1])
        BY <2>3, <4>1, <4>3
      <4> QED  BY <1>3, <4>2, <4>4
    <3> QED  BY <3>1, <3>2
  <2> QED  BY <1>2, <2>4 DEF Sinks, step
<1> QED  BY <1>4, <1>5

\* each of Layers() is what LayerStep makes of the one above it.
LEMMA LayersSink ==
    ASSUME NEW on, NEW from
    PROVE  /\ DOMAIN Layers(on, from) = 0 .. MaxHeight
           /\ \A d \in 0 .. MaxHeight :
                 Layers(on, from)[d] = LayerStep(on, from, d, Layers(on, from)[d - 1])
<1>1. PICK w : Sinks(w, on, from, MaxHeight)
  BY BoundAssumption, SinksExist
<1> DEFINE step(d, below) == LayerStep(on, from, d, below)
           r == [d \in 0 .. MaxHeight |-> w[d]]
           Is(a) == a = [d \in 0 .. MaxHeight |-> step(d, a[d - 1])]
<1>2. \A x, y : step(0, x) = step(0, y)
  BY DEF LayerStep
<1>3. Layers(on, from) = CHOOSE a : Is(a)
  BY DEF Layers, LayerStep
<1> HIDE DEF step
<1>4. Is(r)
  <2>1. ASSUME NEW d \in 0 .. MaxHeight PROVE w[d] = step(d, r[d - 1])
    <3>1. w[d] = step(d, w[d - 1])
      BY <1>1 DEF Sinks, step
    <3>2. d # 0 => d - 1 \in 0 .. MaxHeight
      BY BoundAssumption
    <3>3. d # 0 => r[d - 1] = w[d - 1]
      BY <3>2
    <3> QED  BY <1>2, <3>1, <3>3
  <2> QED  BY <2>1
<1> HIDE DEF Is
<1>5. Is(Layers(on, from))
  BY <1>3, <1>4
<1> DEFINE layers == Layers(on, from)
<1> HIDE DEF layers
<1>6. layers = [d \in 0 .. MaxHeight |-> step(d, layers[d - 1])]
  BY <1>5 DEF Is, layers
<1>7. /\ DOMAIN layers = 0 .. MaxHeight
      /\ \A d \in 0 .. MaxHeight : layers[d] = step(d, layers[d - 1])
  BY <1>6
<1> QED  BY <1>7 DEF step, layers
---------------------------------------------------------------------------
(* The same of the nodes that a put builds.                                *)

\* What Inserted does on each page of a path.
RungStep(path, e, pages, l, below) ==
    LET above(node, under) ==
            LET idx == ChildIndex(node, e.key)
                n   == Len(under.built)
            IN  IF under.result.split
                THEN InsertInternal(node, idx, under.result.sep, pages[n - 1],
                                    pages[n], PageSize)
                ELSE Single(ReplaceChild(node, idx, pages[n]))
        result == IF l = 1 THEN InsertLeaf(nodes[path[1]], e, PageSize)
                  ELSE above(nodes[path[l]], below)
    IN  [result |-> result,
         built  |-> (IF l = 1 THEN <<>> ELSE below.built) \o NodesOf(result),
         splits |-> (IF l = 1 THEN 0 ELSE below.splits) + IF result.split THEN 1 ELSE 0]

Climbs(up, path, e, pages, n) ==
    \A l \in 1 .. n : up[l] = RungStep(path, e, pages, l, up[l - 1])

\* There is a function that does each step of a put up its path,
LEMMA ClimbsExist ==
    ASSUME NEW path, NEW e, NEW pages, NEW n \in Nat
    PROVE  \E up : Climbs(up, path, e, pages, n)
<1> DEFINE Bad == {j \in Nat : ~ \E up : Climbs(up, path, e, pages, j)}
<1> SUFFICES ASSUME Bad # {}
             PROVE  FALSE
  OBVIOUS
<1>1. PICK j \in Bad : \A k \in Bad : j <= k
  <2>1. Bad \subseteq Nat
    OBVIOUS
  <2> HIDE DEF Bad
  <2> QED  BY <2>1, LeastExists
<1>2. j \in Nat /\ ~ \E up : Climbs(up, path, e, pages, j)
  BY <1>1
<1> DEFINE step(d, below) == RungStep(path, e, pages, d, below)
<1>3. \A x, y : step(1, x) = step(1, y)
  BY DEF RungStep
<1> HIDE DEF step
<1>4. CASE j <= 1
  <2> DEFINE up == [i \in 1 .. 1 |-> step(1, 0)]
  <2>1. \A i \in 1 .. 1 : up[i] = step(1, 0) /\ i = 1
    OBVIOUS
  <2> HIDE DEF up
  <2>2. \A i \in 1 .. 1 : up[i] = step(i, up[i - 1])
    BY <1>3, <2>1
  <2>3. \A i \in 1 .. j : up[i] = step(i, up[i - 1])
    BY <1>2, <1>4, <2>2
  <2> QED  BY <1>2, <2>3 DEF Climbs, step
<1>5. CASE ~ (j <= 1)
  <2>1. j - 1 \in Nat /\ ~ (j <= j - 1)
    BY <1>2, <1>5
  <2>2. PICK v : Climbs(v, path, e, pages, j - 1)
    BY <1>1, <2>1
  <2> DEFINE last == step(j, v[j - 1])
             up == [i \in 1 .. j |-> IF i = j THEN last ELSE v[i]]
  <2> HIDE DEF last
  <2>3. up[j] = last /\ \A i \in 1 .. j - 1 : up[i] = v[i]
    BY <1>2, <1>5
  <2> HIDE DEF up
  <2>4. ASSUME NEW i \in 1 .. j PROVE up[i] = step(i, up[i - 1])
    <3>1. CASE i = j
      <4>1. up[j - 1] = v[j - 1]
        BY <1>5, <2>1, <2>3
      <4> QED  BY <2>3, <3>1, <4>1 DEF last
    <3>2. CASE i # j
      <4>1. i \in 1 .. j - 1
        BY <1>2, <3>2
      <4>2. v[i] = step(i, v[i - 1])
        BY <2>2, <4>1 DEF Climbs, step
      <4>3. i # 1 => i - 1 \in 1 .. j - 1
        BY <4>1
      <4>4. up[i] = v[i] /\ (i # 1 => up[i - 1] = v[i - 1])
        BY <2>3, <4>1, <4>3
      <4> QED  BY <1>3, <4>2, <4>4
    <3> QED  BY <3>1, <3>2
  <2> QED  BY <1>2, <2>4 DEF Climbs, step
<1> QED  BY <1>4, <1>5

\* and Inserted() is the last of those steps.
LEMMA InsertedClimbs ==
    ASSUME NEW path, NEW e, NEW pages, Len(path) \in Nat, Len(path) >= 1
    PROVE  \E up : /\ Climbs(up, path, e, pages, Len(path))
                   /\ Inserted(path, e, pages) = up[Len(path)]
<1> DEFINE N == Len(path)
           step(l, below) == RungStep(path, e, pages, l, below)
           Is(a) == a = [l \in 1 .. N |-> step(l, a[l - 1])]
           up == CHOOSE a : Is(a)
<1>1. PICK w : Climbs(w, path, e, pages, N)
  BY ClimbsExist
<1>2. \A x, y : step(1, x) = step(1, y)
  BY DEF RungStep
<1>3. Inserted(path, e, pages) = up[N]
  BY DEF Inserted, RungStep
<1> DEFINE r == [l \in 1 .. N |-> w[l]]
<1> HIDE DEF step
<1>4. Is(r)
  <2>1. ASSUME NEW l \in 1 .. N PROVE w[l] = step(l, r[l - 1])
    <3>1. w[l] = step(l, w[l - 1])
      BY <1>1 DEF Climbs, step
    <3>2. l # 1 => l - 1 \in 1 .. N
      OBVIOUS
    <3>3. l # 1 => r[l - 1] = w[l - 1]
      BY <3>2
    <3> QED  BY <1>2, <3>1, <3>3
  <2> QED  BY <2>1
<1> HIDE DEF Is
<1>5. Is(up)
  BY <1>4
<1> HIDE DEF up
<1>6. up = [l \in 1 .. N |-> step(l, up[l - 1])]
  BY <1>5 DEF Is
<1>7. \A l \in 1 .. N : up[l] = step(l, up[l - 1])
  BY <1>6
<1> QED  BY <1>3, <1>7 DEF step, Climbs

---------------------------------------------------------------------------
(* The way from a page down to a leaf.                                     *)

IsWay(w, on, T, p, key) ==
    /\ w \in Seq(DOMAIN T) /\ Len(w) = T[p].level /\ w[Len(w)] = p
    /\ \A l \in 1 .. Len(w) : T[w[l]].level = l
    /\ \A l \in 1 .. Len(w) - 1 : w[l] = ChildFor(on[w[l + 1]], key)

\* From each page of what can be walked, Ways() leads down to a leaf.
LEMMA WaysAre ==
    ASSUME NEW on, NEW T, Walkable(on, T), NEW key \in Key,
           NEW d \in 0 .. MaxHeight, NEW p \in DOMAIN T, T[p].level <= d + 1
    PROVE  IsWay(Ways(on, key)[d][p], on, T, p, key)
<1> DEFINE ways == Ways(on, key)
           Good(i) == \A q \in DOMAIN T : T[q].level <= i + 1 =>
                         IsWay(ways[i][q], on, T, q, key)
           Bad == {i \in 0 .. MaxHeight : ~Good(i)}
<1> HIDE DEF ways
<1> SUFFICES ASSUME Bad # {}
             PROVE  FALSE
  BY DEF ways
<1>1. PICK i \in Bad : \A k \in Bad : i <= k
  <2>1. Bad \subseteq Nat
    OBVIOUS
  <2> HIDE DEF Bad
  <2> QED  BY <2>1, LeastExists
<1>2. i \in 0 .. MaxHeight /\ ~Good(i)
  BY <1>1
<1>3. i # 0 => i - 1 \in 0 .. MaxHeight /\ Good(i - 1)
  <2> SUFFICES ASSUME i # 0 PROVE i - 1 \in 0 .. MaxHeight /\ Good(i - 1)
    OBVIOUS
  <2>1. i - 1 \in 0 .. MaxHeight /\ ~ (i <= i - 1)
    BY <1>2, BoundAssumption
  <2>2. i - 1 \notin Bad
    BY <1>1, <2>1
  <2> QED  BY <2>1, <2>2
<1> HIDE DEF Bad, Good
<1>4. ASSUME NEW q \in DOMAIN T, T[q].level <= i + 1
      PROVE  IsWay(ways[i][q], on, T, q, key)
  <2>1. /\ IsSound(q, on) /\ T[q].level \in 1 .. MaxHeight + 1
        /\ on[q].kind = IF T[q].level = 1 THEN "leaf" ELSE "internal"
        /\ T[q].level # 1 =>
              \A c \in Kids(on[q]) : c \in DOMAIN T /\ T[c].level = T[q].level - 1
    BY DEF Walkable
  <2>2. q \in PageId /\ SoundNode(on[q], PageSize)
    BY <2>1 DEF IsSound
  <2>3. ways[i] = WayStep(on, key, i, ways[i - 1])
    BY <1>2, WaysRise DEF ways
  <2>4. ways[i][q] = IF i = 0 \/ on[q].kind = "leaf" THEN <<q>>
                     ELSE Append(ways[i - 1][ChildFor(on[q], key)], q)
    BY <2>2, <2>3 DEF WayStep
  <2>5. CASE T[q].level = 1
    <3>1. ways[i][q] = <<q>>
      BY <2>1, <2>4, <2>5
    <3> QED  BY <2>5, <3>1 DEF IsWay
  <2>6. CASE T[q].level # 1
    <3> DEFINE c == ChildFor(on[q], key)
               w == ways[i - 1][c]
    <3>1. i # 0 /\ on[q].kind = "internal"
      BY <1>4, <2>1, <2>6
    <3>2. ways[i][q] = Append(w, q)
      BY <2>4, <3>1
    <3>3. c \in Kids(on[q])
      BY <2>2, <3>1, ChildIs
    <3> HIDE DEF c
    <3>4. c \in DOMAIN T /\ T[c].level = T[q].level - 1
      BY <2>1, <2>6, <3>3
    <3>5. T[c].level <= (i - 1) + 1
      BY <1>2, <1>4, <2>1, <3>4
    <3>6. IsWay(w, on, T, c, key)
      BY <1>3, <3>1, <3>4, <3>5 DEF Good
    <3> HIDE DEF w
    <3> DEFINE v == Append(w, q)
               n == Len(w)
    <3>7. /\ w \in Seq(DOMAIN T) /\ n = T[q].level - 1 /\ n \in Nat /\ w[n] = c
          /\ \A l \in 1 .. n : T[w[l]].level = l
          /\ \A l \in 1 .. n - 1 : w[l] = ChildFor(on[w[l + 1]], key)
      BY <2>1, <3>4, <3>6, LenProperties DEF IsWay
    <3>8. /\ v \in Seq(DOMAIN T) /\ Len(v) = n + 1 /\ v[n + 1] = q
          /\ \A l \in 1 .. n : v[l] = w[l]
      BY <3>7, AppendProperties
    <3> HIDE DEF v, n
    <3>9. n + 1 = T[q].level
      BY <2>1, <3>7
    <3>10. \A l \in 1 .. n + 1 : T[v[l]].level = l
      <4> SUFFICES ASSUME NEW l \in 1 .. n + 1 PROVE T[v[l]].level = l
        OBVIOUS
      <4>1. l = n + 1 \/ l \in 1 .. n
        BY <3>7
      <4> QED  BY <3>7, <3>8, <3>9, <4>1
    <3>11. \A l \in 1 .. n : v[l] = ChildFor(on[v[l + 1]], key)
      <4> SUFFICES ASSUME NEW l \in 1 .. n PROVE v[l] = ChildFor(on[v[l + 1]], key)
        OBVIOUS
      <4>1. CASE l = n
        BY <3>7, <3>8, <4>1 DEF c
      <4>2. CASE l # n
        <5>1. l \in 1 .. n - 1 /\ l + 1 \in 1 .. n
          BY <3>7, <4>2
        <5> QED  BY <3>7, <3>8, <5>1
      <4> QED  BY <4>1, <4>2
    <3>12. Len(v) - 1 = n
      BY <3>7, <3>8
    <3> QED  BY <3>2, <3>8, <3>9, <3>10, <3>11, <3>12 DEF IsWay, v
  <2> QED  BY <2>5, <2>6
<1> QED  BY <1>2, <1>4 DEF Good

\* Nodes alike make ways alike.
LEMMA WayIsOne ==
    ASSUME NEW on, NEW new, NEW T, NEW S, NEW p, NEW q, NEW key, NEW v, NEW w,
           IsWay(v, on, T, p, key), IsWay(w, new, S, q, key),
           p = q, T[p].level = S[p].level,
           \A x \in DOMAIN T : new[x] = on[x]
    PROVE  v = w
<1> DEFINE n == Len(v)
<1>1. /\ n \in Nat /\ Len(w) = n /\ v[n] = w[n]
      /\ v \in Seq(DOMAIN T) /\ w \in Seq(DOMAIN S)
      /\ \A l \in 1 .. n : v[l] \in DOMAIN T
      /\ \A l \in 1 .. n - 1 : /\ v[l] = ChildFor(on[v[l + 1]], key)
                              /\ w[l] = ChildFor(new[w[l + 1]], key)
  BY LenProperties, ElementOfSeq DEF IsWay
<1> DEFINE Bad == {i \in 0 .. n - 1 : v[n - i] # w[n - i]}
<1> HIDE DEF n
<1>2. ASSUME Bad # {} PROVE FALSE
  <2>1. PICK i \in Bad : \A k \in Bad : i <= k
    <3>1. Bad \subseteq Nat
      BY <1>1
    <3> HIDE DEF Bad
    <3> QED  BY <1>2, <3>1, LeastExists
  <2>2. i \in 0 .. n - 1 /\ v[n - i] # w[n - i]
    BY <2>1
  <2>3. i # 0
    BY <1>1, <2>2
  <2>4. i - 1 \in 0 .. n - 1 /\ ~ (i <= i - 1)
    BY <1>1, <2>2, <2>3
  <2>5. v[n - (i - 1)] = w[n - (i - 1)]
    BY <2>1, <2>4
  <2>6. n - i \in 1 .. n - 1 /\ n - (i - 1) = (n - i) + 1 /\ n - (i - 1) \in 1 .. n
    BY <1>1, <2>2, <2>3
  <2> DEFINE l == n - i
  <2>7. l \in 1 .. n - 1 /\ v[l + 1] = w[l + 1] /\ v[l + 1] \in DOMAIN T
    BY <1>1, <2>5, <2>6
  <2> HIDE DEF l
  <2>8. v[l] = w[l]
    BY <1>1, <2>7
  <2> QED  BY <2>2, <2>8 DEF l
<1>3. \A l \in 1 .. n : v[l] = w[l]
  <2> SUFFICES ASSUME NEW l \in 1 .. n PROVE v[l] = w[l]
    OBVIOUS
  <2>1. n - l \in 0 .. n - 1 /\ n - (n - l) = l
    BY <1>1
  <2> QED  BY <1>2, <2>1
<1>4. v = [l \in 1 .. n |-> v[l]] /\ w = [l \in 1 .. n |-> w[l]]
  BY <1>1 DEF n
<1> QED  BY <1>3, <1>4

---------------------------------------------------------------------------
(* What is found in a tree.                                                *)

\* The way from the root is the pages that are for the key.
LEMMA PathInTree ==
    ASSUME NEW on, NEW T, NEW rt, NEW u, Shape(on, T, rt, u), NEW key \in Key
    PROVE  LET path == PathUp(on, rt, key)
           IN  /\ IsWay(path, on, T, rt, key)
               /\ \A l \in 1 .. Len(path) : key \in u[path[l]]
               /\ \A p \in DOMAIN T : key \in u[p] =>
                     T[p].level \in 1 .. Len(path) /\ path[T[p].level] = p
<1> DEFINE path == PathUp(on, rt, key)
           n == Len(path)
<1>1. /\ rt \in DOMAIN T /\ u[rt] = Key /\ T[rt].level \in 1 .. MaxHeight + 1
      /\ \A p \in DOMAIN T : Fits(p, on, T, rt, u)
      /\ Apart(T, u)
  BY DEF Shape
<1>2. IsWay(path, on, T, rt, key)
  <2>1. MaxHeight \in 0 .. MaxHeight /\ T[rt].level <= MaxHeight + 1
    BY <1>1, BoundAssumption
  <2> QED  BY <1>1, <2>1, ShapeWalkable, WaysAre DEF PathUp
<1> HIDE DEF path
<1>3. /\ n \in Nat /\ n >= 1 /\ n = T[rt].level /\ path[n] = rt
      /\ \A l \in 1 .. n : path[l] \in DOMAIN T /\ T[path[l]].level = l
      /\ \A l \in 1 .. n - 1 : path[l] = ChildFor(on[path[l + 1]], key)
  BY <1>1, <1>2, LenProperties, ElementOfSeq DEF IsWay
<1> HIDE DEF n
<1> DEFINE Bad == {i \in 0 .. n - 1 : key \notin u[path[n - i]]}
<1>4. ASSUME Bad # {} PROVE FALSE
  <2>1. PICK i \in Bad : \A k \in Bad : i <= k
    <3>1. Bad \subseteq Nat
      BY <1>3
    <3> HIDE DEF Bad
    <3> QED  BY <1>4, <3>1, LeastExists
  <2>2. i \in 0 .. n - 1 /\ key \notin u[path[n - i]]
    BY <2>1
  <2>3. i # 0
    BY <1>1, <1>3, <2>2
  <2>4. i - 1 \in 0 .. n - 1 /\ ~ (i <= i - 1)
    BY <1>3, <2>2, <2>3
  <2>5. key \in u[path[n - (i - 1)]]
    BY <2>1, <2>4
  <2>6. n - i \in 1 .. n - 1 /\ n - (i - 1) = (n - i) + 1 /\ n - (i - 1) \in 1 .. n
    BY <1>3, <2>2, <2>3
  <2> DEFINE l == n - i
             q == path[l + 1]
  <2>7. l \in 1 .. n - 1 /\ key \in u[q] /\ q \in DOMAIN T /\ T[q].level = l + 1
    BY <1>3, <2>5, <2>6
  <2>8. path[l] = ChildFor(on[q], key) /\ T[q].level # 1
    BY <1>3, <2>7
  <2> HIDE DEF l, q
  <2>9. key \in u[path[l]]
    BY <2>7, <2>8, ChildInTree
  <2> QED  BY <2>2, <2>9 DEF l
<1>5. \A l \in 1 .. n : key \in u[path[l]]
  <2> SUFFICES ASSUME NEW l \in 1 .. n PROVE key \in u[path[l]]
    OBVIOUS
  <2>1. n - l \in 0 .. n - 1 /\ n - (n - l) = l
    BY <1>3
  <2> QED  BY <1>4, <2>1
<1>6. ASSUME NEW p \in DOMAIN T, key \in u[p]
      PROVE  T[p].level \in 1 .. n /\ path[T[p].level] = p
  <2>1. T[p].level \in 1 .. n
    BY <1>1, <1>3 DEF Fits
  <2>2. path[T[p].level] \in DOMAIN T /\ T[path[T[p].level]].level = T[p].level
        /\ key \in u[path[T[p].level]]
    BY <1>3, <1>5, <2>1
  <2> QED  BY <1>1, <1>6, <2>1, <2>2 DEF Apart
<1> QED  BY <1>2, <1>5, <1>6 DEF n, path

\* The answer of the leaf at the end of it is the map's.
LEMMA PathAnswers ==
    ASSUME NEW on, NEW T, NEW rt, NEW u, Shape(on, T, rt, u), NEW key \in Key,
           NEW m, Holds(m, on, T, u)
    PROVE  LeafAnswer(on[PathUp(on, rt, key)[1]], key)
              = IF key \in DOMAIN m THEN {m[key]} ELSE {}
<1> DEFINE path == PathUp(on, rt, key)
           p == path[1]
           leaf == on[p]
<1>1. T[rt].level \in 1 .. MaxHeight + 1 /\ \A q \in DOMAIN T : Fits(q, on, T, rt, u)
  BY DEF Shape
<1>2. IsWay(path, on, T, rt, key) /\ \A l \in 1 .. Len(path) : key \in u[path[l]]
  BY PathInTree
<1> HIDE DEF path
<1>3. 1 \in 1 .. Len(path)
  BY <1>1, <1>2, LenProperties DEF IsWay
<1>4. p \in DOMAIN T /\ T[p].level = 1 /\ key \in u[p]
  BY <1>2, <1>3, ElementOfSeq DEF IsWay
<1> HIDE DEF p
<1>5. SoundLeaf(leaf, PageSize)
  <2>1. Fits(p, on, T, rt, u)
    BY <1>1, <1>4
  <2> QED  BY <1>4, <2>1, SoundByKind DEF Fits, IsSound, Placed
<1>6. Holding(leaf) = {[key |-> k, val |-> m[k]] : k \in DOMAIN m \cap u[p]}
  BY <1>4 DEF Holds
<1> HIDE DEF leaf
<1> DEFINE s == LeafSearch(leaf, key)
           x == leaf.entries[s.at + 1]
<1>7. /\ s.found => s.at + 1 \in 1 .. Len(leaf.entries) /\ x.key = key
      /\ ~s.found => \A y \in Holding(leaf) : y.key # key
  BY <1>5, PageSizeIs, LeafFinds
<1>8. LeafAnswer(leaf, key) = IF s.found THEN {x.val} ELSE {}
  BY DEF LeafAnswer
<1>9. s.found => x \in Holding(leaf)
  <2> HIDE DEF s
  <2> QED  BY <1>7 DEF Holding
<1> HIDE DEF s, x
<1>10. CASE s.found
  <2>1. PICK k \in DOMAIN m \cap u[p] : x = [key |-> k, val |-> m[k]]
    BY <1>6, <1>9, <1>10
  <2>2. k = key /\ x.val = m[key] /\ key \in DOMAIN m
    BY <1>7, <1>10, <2>1
  <2> QED  BY <1>8, <1>10, <2>2 DEF leaf, p, path
<1>11. CASE ~s.found
  <2>1. key \notin DOMAIN m
    <3> SUFFICES ASSUME key \in DOMAIN m PROVE FALSE
      OBVIOUS
    <3>1. [key |-> key, val |-> m[key]] \in Holding(leaf)
      BY <1>4, <1>6
    <3> QED  BY <1>7, <1>11, <3>1
  <2> QED  BY <1>8, <1>11, <2>1 DEF leaf, p, path
<1> QED  BY <1>10, <1>11

\* The children of a node, as the range of their sequence.
LEMMA KidsAre ==
    ASSUME NEW n, SoundInternal(n, PageSize)
    PROVE  Range(n.children) = Kids(n) /\ n.children \in Seq(Ids)
<1>1. n.children \in Seq(Ids)
  BY PageSizeIs, InternalFacts
<1> QED  BY <1>1, RangeIs DEF Kids

\* A page below the root is for some key, and no other page of its level is.
LEMMA PageHasKeys ==
    ASSUME NEW on, NEW T, NEW rt, NEW u, Shape(on, T, rt, u),
           NEW p \in DOMAIN T, p # rt
    PROVE  \E k \in u[p] : k \in Key
<1>1. Fits(p, on, T, rt, u)
  BY DEF Shape
<1>2. /\ Pieces(on[p]) >= 1 /\ KeysIn(on[p], u[p]) /\ u[p] \subseteq Key
      /\ SoundNode(on[p], PageSize)
  BY <1>1 DEF Fits, Placed, IsSound
<1>3. Pieces(on[p]) \in Nat
  <2>1. CASE on[p].kind = "leaf"
    BY <1>2, <2>1, SoundByKind, PageSizeIs, LeafFacts DEF Pieces
  <2>2. CASE on[p].kind = "internal"
    BY <1>2, <2>2, SoundByKind, PageSizeIs, InternalFacts DEF Pieces
  <2> QED  BY <1>2, <2>1, <2>2, SoundByKind
<1>4. PieceKey(on[p], 1) \in u[p]
  BY <1>2, <1>3 DEF KeysIn
<1> QED  BY <1>2, <1>4

\* An internal page of a tree, and its children.
LEMMA KidsInTree ==
    ASSUME NEW on, NEW T, NEW rt, NEW u, Shape(on, T, rt, u),
           NEW p \in DOMAIN T, T[p].level # 1
    PROVE  /\ SoundInternal(on[p], PageSize) /\ on[p].kind = "internal"
           /\ Range(on[p].children) = Kids(on[p])
           /\ \A c \in Kids(on[p]) :
                 /\ c \in DOMAIN T /\ T[c].level = T[p].level - 1 /\ c # rt
                 /\ u[c] \subseteq u[p]
           /\ \A i, j \in 1 .. Len(on[p].children) :
                 on[p].children[i] = on[p].children[j] => i = j
<1> DEFINE n == on[p]
<1>1. Fits(p, on, T, rt, u) /\ T[rt].level \in 1 .. MaxHeight + 1
  BY DEF Shape
<1>2. /\ SoundNode(n, PageSize) /\ n.kind = "internal" /\ T[p].level \in 1 .. T[rt].level
      /\ Covers(n, u[p], u) /\ u[p] \subseteq Key
      /\ \A c \in Kids(n) : c \in DOMAIN T /\ T[c].level = T[p].level - 1
  BY <1>1 DEF Fits, IsSound, Placed
<1>3. SoundInternal(n, PageSize)
  BY <1>2, SoundByKind
<1>4. Range(n.children) = Kids(n)
  BY <1>3, KidsAre
<1> HIDE DEF n
<1>5. ASSUME NEW c \in Kids(n)
      PROVE  c \in DOMAIN T /\ T[c].level = T[p].level - 1 /\ c # rt /\ u[c] \subseteq u[p]
  <2>1. c \in DOMAIN T /\ T[c].level = T[p].level - 1
    BY <1>2
  <2>2. c # rt
    BY <1>1, <1>2, <2>1
  <2>3. PICK i \in 1 .. Len(n.children) : c = n.children[i]
    BY DEF Kids
  <2>4. u[c] = {k \in u[p] : InSlot(n, i, k)}
    BY <1>2, <2>3 DEF Covers
  <2> QED  BY <2>1, <2>2, <2>4
<1>6. ASSUME NEW i \in 1 .. Len(n.children), NEW j \in 1 .. Len(n.children),
             n.children[i] = n.children[j]
      PROVE  i = j
  <2> DEFINE c == n.children[i]
  <2>1. c \in Kids(n)
    BY DEF Kids
  <2>2. c \in DOMAIN T /\ c # rt /\ u[c] \subseteq u[p]
    BY <1>5, <2>1
  <2>3. PICK k \in u[c] : k \in Key
    BY <2>2, PageHasKeys
  <2>4. InSlot(n, i, k) /\ InSlot(n, j, k)
    BY <1>2, <1>6, <2>3 DEF Covers
  <2> QED  BY <1>3, <2>3, <2>4, PageSizeIs, SlotOfKey
<1> QED  BY <1>2, <1>3, <1>4, <1>5, <1>6 DEF n

\* No page is below two others.
LEMMA OneParent ==
    ASSUME NEW on, NEW T, NEW rt, NEW u, Shape(on, T, rt, u),
           NEW p \in DOMAIN T, T[p].level # 1, NEW q \in DOMAIN T, T[q].level # 1,
           NEW c, c \in Kids(on[p]), c \in Kids(on[q])
    PROVE  p = q
<1>1. /\ c \in DOMAIN T /\ c # rt
      /\ T[c].level = T[p].level - 1 /\ T[c].level = T[q].level - 1
      /\ u[c] \subseteq u[p] /\ u[c] \subseteq u[q]
  BY KidsInTree
<1>2. T[p].level \in Int /\ T[q].level \in Int
  BY DEF Shape, Fits
<1>3. T[p].level = T[q].level
  BY <1>1, <1>2
<1>4. PICK k \in u[c] : k \in Key
  BY <1>1, PageHasKeys
<1> QED  BY <1>1, <1>3, <1>4 DEF Shape, Apart

\* Each layer is one level of the tree, the root's the first.
OnLevels(layers, T, top) ==
    \A d \in 0 .. MaxHeight : \A p :
        p \in layers[d] <=> p \in DOMAIN T /\ T[p].level = top - d

\* The pages that debug::walk() comes to, by how deep they are.
LEMMA LayersAre ==
    ASSUME NEW on, NEW T, NEW rt, NEW u, Shape(on, T, rt, u)
    PROVE  /\ DOMAIN Layers(on, rt) = 0 .. MaxHeight
           /\ OnLevels(Layers(on, rt), T, T[rt].level)
           /\ UNION Range(Layers(on, rt)) = DOMAIN T
<1> DEFINE layers == Layers(on, rt)
           H == T[rt].level
           At(d) == {p \in DOMAIN T : T[p].level = H - d}
           Bad == {d \in 0 .. MaxHeight : layers[d] # At(d)}
<1>1. /\ DOMAIN layers = 0 .. MaxHeight
      /\ \A d \in 0 .. MaxHeight : layers[d] = LayerStep(on, rt, d, layers[d - 1])
  BY LayersSink
<1>2. /\ rt \in DOMAIN T /\ H \in 1 .. MaxHeight + 1
      /\ \A p \in DOMAIN T : Fits(p, on, T, rt, u)
  BY DEF Shape
<1>3. \A p \in DOMAIN T : /\ T[p].level \in 1 .. H
                          /\ on[p].kind = IF T[p].level = 1 THEN "leaf" ELSE "internal"
                          /\ p # rt => HasParent(p, on, T)
  BY <1>2 DEF Fits, Placed
<1> HIDE DEF layers
<1>4. \A p \in DOMAIN T : p # rt => T[p].level \in 1 .. H - 1
  <2> SUFFICES ASSUME NEW p \in DOMAIN T, p # rt PROVE T[p].level \in 1 .. H - 1
    OBVIOUS
  <2>1. PICK q \in DOMAIN T : T[q].level = T[p].level + 1
    BY <1>3 DEF HasParent
  <2>2. T[p].level \in 1 .. H /\ T[q].level \in 1 .. H
    BY <1>3
  <2> QED  BY <1>2, <2>1, <2>2
<1>5. \A d \in 0 .. MaxHeight : layers[d] = At(d)
  <2> SUFFICES ASSUME Bad # {} PROVE FALSE
    OBVIOUS
  <2>1. PICK d \in Bad : \A k \in Bad : d <= k
    <3>1. Bad \subseteq Nat
      OBVIOUS
    <3> HIDE DEF Bad
    <3> QED  BY <3>1, LeastExists
  <2>2. d \in 0 .. MaxHeight /\ layers[d] # At(d)
    BY <2>1
  <2>3. d # 0 => d - 1 \in 0 .. MaxHeight /\ layers[d - 1] = At(d - 1)
    <3> SUFFICES ASSUME d # 0 PROVE d - 1 \in 0 .. MaxHeight /\ layers[d - 1] = At(d - 1)
      OBVIOUS
    <3>1. d - 1 \in 0 .. MaxHeight /\ ~ (d <= d - 1)
      BY <2>2, BoundAssumption
    <3>2. d - 1 \notin Bad
      BY <2>1, <3>1
    <3> QED  BY <3>1, <3>2
  <2>4. layers[d] = LayerStep(on, rt, d, layers[d - 1])
    BY <1>1, <2>2
  <2> HIDE DEF Bad
  <2>5. CASE d = 0
    <3>1. layers[d] = {rt}
      BY <2>4, <2>5 DEF LayerStep
    <3>2. \A p : p \in At(d) <=> p = rt
      BY <1>2, <1>4, <2>5
    <3> QED  BY <2>2, <3>1, <3>2
  <2>6. CASE d # 0
    <3> DEFINE above == At(d - 1)
               In(c) == \E p \in above : on[p].kind = "internal" /\ c \in Range(on[p].children)
    <3>1. layers[d] = UNION {Range(on[p].children) : p \in {q \in above : on[q].kind = "internal"}}
      BY <2>3, <2>4, <2>6 DEF LayerStep
    <3>2. \A c : c \in layers[d] <=> In(c)
      BY <3>1
    <3>3. ASSUME NEW c, In(c) PROVE c \in At(d)
      <4>1. PICK p \in above : on[p].kind = "internal" /\ c \in Range(on[p].children)
        BY <3>3
      <4>2. p \in DOMAIN T /\ T[p].level = H - (d - 1) /\ T[p].level # 1
        BY <1>3, <4>1
      <4>3. c \in Kids(on[p])
        BY <4>1, <4>2, KidsInTree
      <4>4. c \in DOMAIN T /\ T[c].level = T[p].level - 1
        BY <4>2, <4>3, KidsInTree
      <4>5. (H - (d - 1)) - 1 = H - d
        BY <1>2, <2>2
      <4> QED  BY <4>2, <4>4, <4>5
    <3>4. ASSUME NEW c \in At(d) PROVE In(c)
      <4>1. c \in DOMAIN T /\ T[c].level = H - d
        OBVIOUS
      <4>2. c # rt
        BY <1>2, <2>2, <2>6, <4>1
      <4>3. PICK p \in DOMAIN T : T[p].level = T[c].level + 1 /\ c \in Kids(on[p])
        BY <1>3, <4>1, <4>2 DEF HasParent
      <4>4. T[c].level \in 1 .. H
        BY <1>3, <4>1
      <4>5. T[p].level = H - (d - 1) /\ T[p].level # 1
        BY <1>2, <2>2, <4>1, <4>3, <4>4
      <4>6. on[p].kind = "internal" /\ Range(on[p].children) = Kids(on[p])
        BY <4>5, KidsInTree
      <4> QED  BY <4>3, <4>5, <4>6
    <3> QED  BY <2>2, <3>2, <3>3, <3>4
  <2> QED  BY <2>5, <2>6
<1>6. UNION Range(layers) = DOMAIN T
  <2>1. Range(layers) = {At(d) : d \in 0 .. MaxHeight}
    BY <1>1, <1>5 DEF Range, layers
  <2>2. ASSUME NEW p \in DOMAIN T PROVE \E d \in 0 .. MaxHeight : p \in At(d)
    <3>1. T[p].level \in 1 .. H
      BY <1>3
    <3>2. H - T[p].level \in 0 .. MaxHeight /\ H - (H - T[p].level) = T[p].level
      BY <1>2, <3>1, BoundAssumption
    <3> QED  BY <3>2
  <2>3. \A d : At(d) \subseteq DOMAIN T
    OBVIOUS
  <2> HIDE DEF At
  <2>4. \A p : p \in UNION Range(layers) <=> \E d \in 0 .. MaxHeight : p \in At(d)
    BY <2>1
  <2> QED  BY <2>2, <2>3, <2>4
<1>7. \A d \in 0 .. MaxHeight : \A p :
         p \in layers[d] <=> p \in DOMAIN T /\ T[p].level = T[rt].level - d
  BY <1>5
<1> QED  BY <1>1, <1>6, <1>7 DEF layers, OnLevels

\* What a tree holds is all that it holds.
LEMMA ContentsAre ==
    ASSUME NEW on, NEW T, NEW rt, NEW u, Shape(on, T, rt, u), NEW m, Holds(m, on, T, u)
    PROVE  Contents(on, rt) = m
<1> DEFINE pages == UNION Range(Layers(on, rt))
           entries == UNION {Range(on[p].entries) : p \in {q \in pages : on[q].kind = "leaf"}}
           Is(k) == [key |-> k, val |-> m[k]]
<1>1. pages = DOMAIN T
  BY LayersAre
<1>2. Contents(on, rt) = [key \in {e.key : e \in entries} |->
                             (CHOOSE e \in entries : e.key = key).val]
  BY DEF Contents
<1>3. ASSUME NEW p \in DOMAIN T
      PROVE  /\ on[p].kind = "leaf" <=> T[p].level = 1
             /\ T[p].level = 1 => Range(on[p].entries) = {Is(k) : k \in DOMAIN m \cap u[p]}
  <2>1. Fits(p, on, T, rt, u)
    BY DEF Shape
  <2>2. on[p].kind = "leaf" <=> T[p].level = 1
    BY <2>1 DEF Fits, Placed
  <2>3. ASSUME T[p].level = 1
        PROVE  Range(on[p].entries) = {Is(k) : k \in DOMAIN m \cap u[p]}
    <3>1. SoundLeaf(on[p], PageSize)
      BY <2>1, <2>2, <2>3, SoundByKind DEF Fits, IsSound
    <3>2. on[p].entries \in Seq(Entry)
      BY <3>1, PageSizeIs, LeafFacts
    <3>3. Range(on[p].entries) = Holding(on[p])
      BY <3>2, RangeIs DEF Holding
    <3> QED  BY <2>3, <3>3 DEF Holds
  <2> QED  BY <2>2, <2>3
<1>4. \A k \in Key : \E p \in DOMAIN T : T[p].level = 1 /\ k \in u[p]
  <2> SUFFICES ASSUME NEW k \in Key PROVE \E p \in DOMAIN T : T[p].level = 1 /\ k \in u[p]
    OBVIOUS
  <2> DEFINE path == PathUp(on, rt, k)
  <2>1. IsWay(path, on, T, rt, k) /\ \A l \in 1 .. Len(path) : k \in u[path[l]]
    BY PathInTree
  <2> HIDE DEF path
  <2>2. 1 \in 1 .. Len(path)
    BY <2>1, LenProperties DEF IsWay, Shape
  <2> QED  BY <2>1, <2>2, ElementOfSeq DEF IsWay
<1> DEFINE leaves == {q \in pages : on[q].kind = "leaf"}
<1>5. \A x : x \in entries <=> \E k \in DOMAIN m : x = Is(k)
  <2>1. \A x : x \in entries <=> \E p \in leaves : x \in Range(on[p].entries)
    OBVIOUS
  <2>2. \A p : p \in leaves <=> p \in DOMAIN T /\ T[p].level = 1
    BY <1>1, <1>3
  <2>3. \A p \in leaves : Range(on[p].entries) = {Is(k) : k \in DOMAIN m \cap u[p]}
    BY <1>3, <2>2
  <2>4. \A k \in DOMAIN m : \E p \in leaves : k \in u[p]
    BY <1>4, <2>2 DEF Holds
  <2> HIDE DEF entries, leaves, Is
  <2>5. ASSUME NEW x \in entries PROVE \E k \in DOMAIN m : x = Is(k)
    <3>1. PICK p \in leaves : x \in Range(on[p].entries)
      BY <2>1
    <3>2. x \in {Is(k) : k \in DOMAIN m \cap u[p]}
      BY <2>3, <3>1
    <3> QED  BY <3>2
  <2>6. ASSUME NEW k \in DOMAIN m PROVE Is(k) \in entries
    <3>1. PICK p \in leaves : k \in u[p]
      BY <2>4
    <3>2. Is(k) \in Range(on[p].entries)
      BY <2>3, <3>1
    <3> QED  BY <2>1, <3>2
  <2> QED  BY <2>5, <2>6
<1> HIDE DEF entries
<1>6. \A k : k \in DOMAIN m <=> \E x \in entries : x.key = k
  <2>1. \A k : Is(k).key = k
    OBVIOUS
  <2> HIDE DEF Is
  <2> QED  BY <1>5, <2>1
<1>7. \A k \in DOMAIN m : (CHOOSE x \in entries : x.key = k).val = m[k]
  <2> SUFFICES ASSUME NEW k \in DOMAIN m
               PROVE  (CHOOSE x \in entries : x.key = k).val = m[k]
    OBVIOUS
  <2> DEFINE x == CHOOSE x \in entries : x.key = k
  <2>1. x \in entries /\ x.key = k
    BY <1>6
  <2> HIDE DEF x
  <2>2. x.val = m[k]
    BY <1>5, <2>1
  <2> QED  BY <2>2 DEF x
<1>8. {x.key : x \in entries} = DOMAIN m
  BY <1>6
<1>9. m = [k \in DOMAIN m |-> m[k]]
  BY DEF Holds
<1> QED  BY <1>2, <1>7, <1>8, <1>9

\* A page of the tree lies on the way of each of its keys.
LEMMA WayComes ==
    ASSUME NEW on, NEW T, NEW rt, NEW u, Shape(on, T, rt, u), NEW p \in DOMAIN T
    PROVE  /\ InOrder(on[p])
           /\ \A i \in 1 .. Pieces(on[p]) : p \in Range(PathUp(on, rt, PieceKey(on[p], i)))
<1>1. Fits(p, on, T, rt, u)
  BY DEF Shape
<1>2. SoundNode(on[p], PageSize) /\ KeysIn(on[p], u[p]) /\ u[p] \subseteq Key
  BY <1>1 DEF Fits, IsSound, Placed
<1>3. InOrder(on[p])
  BY <1>2 DEF SoundNode, SoundLeaf, SoundInternal
<1>4. ASSUME NEW i \in 1 .. Pieces(on[p])
      PROVE  p \in Range(PathUp(on, rt, PieceKey(on[p], i)))
  <2> DEFINE k == PieceKey(on[p], i)
             path == PathUp(on, rt, k)
  <2>1. k \in u[p] /\ k \in Key
    BY <1>2 DEF KeysIn
  <2> HIDE DEF k
  <2>2. IsWay(path, on, T, rt, k) /\ T[p].level \in 1 .. Len(path) /\ path[T[p].level] = p
    BY <2>1, PathInTree
  <2> HIDE DEF path
  <2>3. path \in Seq(DOMAIN T)
    BY <2>2 DEF IsWay
  <2>4. p \in Range(path)
    BY <2>2, <2>3, RangeIs
  <2> QED  BY <2>4 DEF path, k
<1> QED  BY <1>3, <1>4

---------------------------------------------------------------------------
(* Where the nodes that a put builds go: K is how many nodes split.        *)

LeftAt(j, K) == IF j <= K THEN 2 * j - 1 ELSE j + K

\* What comes of each node of a path, when what is built for level j goes to
\* the pages left[j] and right[j].
Results(res, on, path, e, K, left, right) ==
    \A l \in 1 .. Len(path) :
        /\ res[l].split \in BOOLEAN /\ (res[l].split <=> l <= K)
        /\ l = 1 => res[l] = InsertLeaf(on[path[1]], e, PageSize)
        /\ l # 1 /\ l - 1 <= K =>
              res[l] = InsertInternal(on[path[l]], ChildIndex(on[path[l]], e.key),
                                      res[l - 1].sep, left[l - 1], right[l - 1], PageSize)
        /\ l # 1 /\ ~ (l - 1 <= K) =>
              res[l] = Single(ReplaceChild(on[path[l]], ChildIndex(on[path[l]], e.key),
                                           left[l - 1]))

\* The results are in their places among the nodes built up to level l.
InPlace(res, built, l, K) ==
    \A j \in 1 .. l : /\ built[LeftAt(j, K)] = res[j].left
                      /\ j <= K => built[2 * j] = res[j].right

\* Whatever is inserted, a node either splits or it does not.
LEMMA SplitOrNot ==
    \A l, e, n, idx, sep, lid, rid, c :
        /\ InsertLeaf(l, e, PageSize).split \in BOOLEAN
        /\ InsertInternal(n, idx, sep, lid, rid, PageSize).split \in BOOLEAN
        /\ Single(n).split = FALSE
BY DEF InsertLeaf, InsertInternal, Single, Split

\* One step up the path.
RungOf(path, e, pages, up, l) ==
    LET r == up[l].result
        b == up[l - 1]
        m == Len(b.built)
    IN  /\ r.split \in BOOLEAN
        /\ l = 1 => /\ r = InsertLeaf(nodes[path[1]], e, PageSize)
                    /\ up[l].built = <<>> \o NodesOf(r)
                    /\ up[l].splits = IF r.split THEN 1 ELSE 0
        /\ l # 1 =>
              /\ up[l].built = b.built \o NodesOf(r)
              /\ up[l].splits = b.splits + IF r.split THEN 1 ELSE 0
              /\ b.result.split =>
                    r = InsertInternal(nodes[path[l]], ChildIndex(nodes[path[l]], e.key),
                                       b.result.sep, pages[m - 1], pages[m], PageSize)
              /\ ~b.result.split =>
                    /\ ~r.split
                    /\ r = Single(ReplaceChild(nodes[path[l]],
                                      ChildIndex(nodes[path[l]], e.key), pages[m]))

\* Each step of a put up its path is one of the two above.
LEMMA RungIs ==
    ASSUME NEW path, NEW e, NEW pages, NEW n, NEW up, Climbs(up, path, e, pages, n),
           NEW l \in 1 .. n
    PROVE  RungOf(path, e, pages, up, l)
<1> DEFINE b == up[l - 1]
           m == Len(b.built)
           idx == ChildIndex(nodes[path[l]], e.key)
           result == IF l = 1 THEN InsertLeaf(nodes[path[1]], e, PageSize)
                     ELSE IF b.result.split
                          THEN InsertInternal(nodes[path[l]], idx, b.result.sep, pages[m - 1],
                                              pages[m], PageSize)
                          ELSE Single(ReplaceChild(nodes[path[l]], idx, pages[m]))
<1>1. up[l] = RungStep(path, e, pages, l, b)
  BY DEF Climbs
<1>2. RungStep(path, e, pages, l, b)
        = [result |-> result,
           built  |-> (IF l = 1 THEN <<>> ELSE b.built) \o NodesOf(result),
           splits |-> (IF l = 1 THEN 0 ELSE b.splits) + IF result.split THEN 1 ELSE 0]
  BY DEF RungStep
<1>3. result.split \in BOOLEAN /\ (l # 1 /\ ~b.result.split => ~result.split)
  <2>1. CASE l = 1
    BY <2>1, SplitOrNot
  <2>2. CASE l # 1 /\ b.result.split
    BY <2>2, SplitOrNot
  <2>3. CASE l # 1 /\ ~b.result.split
    BY <2>3, SplitOrNot
  <2> QED  BY <2>1, <2>2, <2>3
<1> DEFINE r == result
<1>4. /\ up[l].result = r
      /\ up[l].built = (IF l = 1 THEN <<>> ELSE b.built) \o NodesOf(r)
      /\ up[l].splits = (IF l = 1 THEN 0 ELSE b.splits) + IF r.split THEN 1 ELSE 0
  <2> HIDE DEF result, b
  <2> QED  BY <1>1, <1>2
<1> HIDE DEF b, m, idx
<1>5. l = 1 => r = InsertLeaf(nodes[path[1]], e, PageSize)
  OBVIOUS
<1>6. l # 1 /\ b.result.split =>
         r = InsertInternal(nodes[path[l]], idx, b.result.sep, pages[m - 1], pages[m], PageSize)
  OBVIOUS
<1>7. l # 1 /\ ~b.result.split => r = Single(ReplaceChild(nodes[path[l]], idx, pages[m]))
  OBVIOUS
<1> HIDE DEF r
<1>8. r.split \in BOOLEAN /\ (l # 1 /\ ~b.result.split => ~r.split)
  BY <1>3 DEF r
<1>9. l = 1 => up[l].built = <<>> \o NodesOf(r) /\ up[l].splits = IF r.split THEN 1 ELSE 0
  <2> SUFFICES ASSUME l = 1 PROVE up[l].splits = IF r.split THEN 1 ELSE 0
    BY <1>4
  <2>1. 0 + (IF r.split THEN 1 ELSE 0) = IF r.split THEN 1 ELSE 0
    BY <1>8
  <2> QED  BY <1>4, <2>1
<1>10. l # 1 => /\ up[l].built = b.built \o NodesOf(r)
                /\ up[l].splits = b.splits + IF r.split THEN 1 ELSE 0
  BY <1>4
<1> HIDE DEF result
<1> QED  BY <1>4, <1>5, <1>6, <1>7, <1>8, <1>9, <1>10 DEF RungOf, b, m, idx

\* The nodes built up to level l, when k of them split.
Rung(up, res, l, k) ==
    LET S == {res[i].left : i \in 1 .. l} \cup {res[i].right : i \in 1 .. l}
    IN  /\ k \in 0 .. l /\ up[l].splits = k
        /\ \A j \in 1 .. l : res[j].split <=> j <= k
        /\ up[l].built \in Seq(S) /\ Len(up[l].built) = l + k
        /\ InPlace(res, up[l].built, l, k)

\* The leaf is the first rung,
LEMMA FirstRung ==
    ASSUME NEW path, NEW e, NEW pages, NEW n \in Nat, NEW up, Climbs(up, path, e, pages, n),
           n >= 1, NEW res, \A l \in 1 .. n : res[l] = up[l].result
    PROVE  \E k \in 0 .. 1 : Rung(up, res, 1, k)
<1> DEFINE r == res[1]
           S == {res[i].left : i \in 1 .. 1} \cup {res[i].right : i \in 1 .. 1}
           built == up[1].built
<1>1. 1 \in 1 .. n /\ r = up[1].result
  OBVIOUS
<1>2. /\ r.split \in BOOLEAN
      /\ built = <<>> \o NodesOf(r)
      /\ up[1].splits = IF r.split THEN 1 ELSE 0
  <2>1. /\ up[1].result.split \in BOOLEAN
        /\ built = <<>> \o NodesOf(up[1].result)
        /\ up[1].splits = IF up[1].result.split THEN 1 ELSE 0
    <3>1. RungOf(path, e, pages, up, 1)
      BY <1>1, RungIs
    <3> QED  BY <3>1 DEF RungOf
  <2> QED  BY <1>1, <2>1
<1>3. r.left \in S /\ r.right \in S
  BY <1>1
<1> HIDE DEF S, built
<1>4. CASE r.split
  <2>1. NodesOf(r) = <<r.left, r.right>> /\ NodesOf(r) \in Seq(S)
    BY <1>3, <1>4 DEF NodesOf
  <2>2. built = <<r.left, r.right>>
    BY <1>2, <2>1, ConcatEmptySeq
  <2>3. built \in Seq(S) /\ Len(built) = 2 /\ built[1] = r.left /\ built[2] = r.right
    BY <2>1, <2>2
  <2>4. InPlace(res, built, 1, 1)
    <3> SUFFICES ASSUME NEW j \in 1 .. 1
                 PROVE  built[LeftAt(j, 1)] = res[j].left /\ built[2 * j] = res[j].right
      BY DEF InPlace
    <3>1. j = 1 /\ LeftAt(j, 1) = 1 /\ 2 * j = 2
      BY DEF LeftAt
    <3> QED  BY <2>3, <3>1
  <2>5. \A j \in 1 .. 1 : res[j].split <=> j <= 1
    BY <1>4
  <2>6. up[1].splits = 1
    BY <1>2, <1>4
  <2>7. Rung(up, res, 1, 1)
    BY <2>3, <2>4, <2>5, <2>6 DEF Rung, S, built
  <2> QED  BY <2>7
<1>5. CASE ~r.split
  <2>1. NodesOf(r) = <<r.left>> /\ NodesOf(r) \in Seq(S)
    BY <1>3, <1>5 DEF NodesOf
  <2>2. built = <<r.left>>
    BY <1>2, <2>1, ConcatEmptySeq
  <2>3. built \in Seq(S) /\ Len(built) = 1 /\ built[1] = r.left
    BY <2>1, <2>2
  <2>4. InPlace(res, built, 1, 0)
    <3> SUFFICES ASSUME NEW j \in 1 .. 1
                 PROVE  built[LeftAt(j, 0)] = res[j].left /\ ~ (j <= 0)
      BY DEF InPlace
    <3>1. j = 1 /\ LeftAt(j, 0) = 1
      BY DEF LeftAt
    <3> QED  BY <2>3, <3>1
  <2>5. \A j \in 1 .. 1 : res[j].split <=> j <= 0
    BY <1>2, <1>5
  <2>6. up[1].splits = 0
    BY <1>2, <1>5
  <2>7. Rung(up, res, 1, 0)
    BY <2>3, <2>4, <2>5, <2>6 DEF Rung, S, built
  <2> QED  BY <2>7
<1> QED  BY <1>2, <1>4, <1>5

\* above each there is a next: nodes split up to some level and no further,
LEMMA NextRung ==
    ASSUME NEW path, NEW e, NEW pages, NEW n \in Nat, NEW up, Climbs(up, path, e, pages, n),
           NEW res, \A l \in 1 .. n : res[l] = up[l].result,
           NEW l \in 1 .. n - 1, NEW k, Rung(up, res, l, k)
    PROVE  \E c \in 0 .. l + 1 : Rung(up, res, l + 1, c)
<1> DEFINE r == res[l + 1]
           T == {res[i].left : i \in 1 .. l} \cup {res[i].right : i \in 1 .. l}
           S == {res[i].left : i \in 1 .. l + 1} \cup {res[i].right : i \in 1 .. l + 1}
           old == up[l].built
           built == up[l + 1].built
<1>1. /\ l \in Nat /\ l + 1 \in 1 .. n /\ l \in 1 .. n /\ (l + 1) - 1 = l /\ l + 1 # 1
      /\ r = up[l + 1].result /\ res[l] = up[l].result
  OBVIOUS
<1>2. /\ r.split \in BOOLEAN
      /\ built = old \o NodesOf(r)
      /\ up[l + 1].splits = up[l].splits + IF r.split THEN 1 ELSE 0
      /\ ~res[l].split => ~r.split
  <2>1. RungOf(path, e, pages, up, l + 1)
    BY <1>1, RungIs
  <2> DEFINE i == l + 1
  <2>2. i # 1 /\ i - 1 = l /\ RungOf(path, e, pages, up, i)
    BY <1>1, <2>1
  <2> HIDE DEF i
  <2>3. /\ up[i].result.split \in BOOLEAN
        /\ up[i].built = up[l].built \o NodesOf(up[i].result)
        /\ up[i].splits = up[l].splits + IF up[i].result.split THEN 1 ELSE 0
        /\ ~up[l].result.split => ~up[i].result.split
    BY <2>2 DEF RungOf
  <2> QED  BY <1>1, <2>3 DEF i
<1>3. /\ k \in 0 .. l /\ up[l].splits = k
      /\ \A j \in 1 .. l : res[j].split <=> j <= k
      /\ old \in Seq(T) /\ Len(old) = l + k
      /\ InPlace(res, old, l, k)
  BY DEF Rung
<1>4. r.left \in S /\ r.right \in S
  BY <1>1
<1>5. old \in Seq(S)
  <2>1. T \subseteq S
    <3>1. \A i \in 1 .. l : i \in 1 .. l + 1
      BY <1>1
    <3> QED  BY <3>1
  <2> HIDE DEF S, T
  <2> QED  BY <1>3, <2>1, SeqMonotonic
<1> HIDE DEF S, T, built, old
<1>6. ASSUME NEW c \in 0 .. l + 1, k <= c, c = k \/ k = l,
             \A i \in 1 .. l + k : built[i] = old[i],
             built[LeftAt(l + 1, c)] = r.left,
             l + 1 <= c => built[2 * (l + 1)] = r.right
      PROVE  InPlace(res, built, l + 1, c)
  <2> SUFFICES ASSUME NEW j \in 1 .. l + 1
               PROVE  /\ built[LeftAt(j, c)] = res[j].left
                      /\ j <= c => built[2 * j] = res[j].right
    BY DEF InPlace
  <2>1. CASE j = l + 1
    BY <1>6, <2>1
  <2>2. CASE j # l + 1
    <3>1. j \in 1 .. l /\ (j <= c <=> j <= k)
      BY <1>1, <1>3, <1>6, <2>2
    <3>2. LeftAt(j, c) = LeftAt(j, k) /\ LeftAt(j, k) \in 1 .. l + k
      BY <1>1, <1>3, <1>6, <3>1 DEF LeftAt
    <3>3. j <= k => 2 * j \in 1 .. l + k
      BY <1>1, <1>3, <3>1
    <3>4. old[LeftAt(j, k)] = res[j].left /\ (j <= k => old[2 * j] = res[j].right)
      BY <1>3, <3>1 DEF InPlace
    <3> QED  BY <1>6, <3>1, <3>2, <3>3, <3>4
  <2> QED  BY <2>1, <2>2
<1>7. CASE r.split
  <2>1. res[l].split /\ k = l
    <3>1. res[l].split
      BY <1>2, <1>7
    <3>2. l \in 1 .. l
      BY <1>1
    <3> QED  BY <1>1, <1>3, <3>1, <3>2
  <2>2. NodesOf(r) = <<r.left, r.right>> /\ NodesOf(r) \in Seq(S)
    BY <1>4, <1>7 DEF NodesOf
  <2>3. Len(NodesOf(r)) = 2 /\ NodesOf(r)[1] = r.left /\ NodesOf(r)[2] = r.right
    BY <2>2
  <2> DEFINE more == NodesOf(r)
  <2> HIDE DEF more
  <2>4. /\ built \in Seq(S) /\ Len(built) = (l + k) + 2
        /\ \A i \in 1 .. (l + k) + 2 : built[i] = IF i <= l + k THEN old[i] ELSE more[i - (l + k)]
    <3>1. built = old \o more /\ more \in Seq(S) /\ Len(more) = 2
      BY <1>2, <2>2, <2>3 DEF more
    <3>2. /\ old \o more \in Seq(S) /\ Len(old \o more) = Len(old) + Len(more)
          /\ \A i \in 1 .. Len(old) + Len(more) :
                (old \o more)[i] = IF i <= Len(old) THEN old[i] ELSE more[i - Len(old)]
      BY <1>5, <3>1, ConcatProperties
    <3> QED  BY <1>3, <3>1, <3>2
  <2>5. /\ \A i \in 1 .. l + k : built[i] = old[i]
        /\ built[(l + k) + 1] = r.left /\ built[(l + k) + 2] = r.right
    <3>1. l + k \in Nat
      BY <1>1, <1>3
    <3> DEFINE m == l + k
    <3> HIDE DEF m
    <3>2. /\ m \in Nat /\ more[1] = r.left /\ more[2] = r.right
          /\ \A i \in 1 .. m + 2 : built[i] = IF i <= m THEN old[i] ELSE more[i - m]
      BY <2>3, <2>4, <3>1 DEF m, more
    <3>3. /\ m + 1 \in 1 .. m + 2 /\ m + 2 \in 1 .. m + 2 /\ ~ (m + 1 <= m) /\ ~ (m + 2 <= m)
          /\ (m + 1) - m = 1 /\ (m + 2) - m = 2 /\ \A i \in 1 .. m : i \in 1 .. m + 2 /\ i <= m
      BY <3>2
    <3>4. \A i \in 1 .. m : built[i] = old[i]
      BY <3>2, <3>3
    <3>5. built[m + 1] = r.left /\ built[m + 2] = r.right
      BY <3>2, <3>3
    <3> QED  BY <3>4, <3>5 DEF m
  <2>6. /\ LeftAt(l + 1, l + 1) = (l + k) + 1 /\ 2 * (l + 1) = (l + k) + 2
        /\ (l + k) + 2 = (l + 1) + (l + 1)
    BY <1>1, <2>1 DEF LeftAt
  <2>7. InPlace(res, built, l + 1, l + 1)
    <3>1. l + 1 \in 0 .. l + 1 /\ k <= l + 1
      BY <1>1, <2>1
    <3> QED  BY <1>6, <2>1, <2>5, <2>6, <3>1
  <2>8. \A j \in 1 .. l + 1 : res[j].split <=> j <= l + 1
    <3> SUFFICES ASSUME NEW j \in 1 .. l + 1 PROVE res[j].split <=> j <= l + 1
      OBVIOUS
    <3>1. j = l + 1 \/ j \in 1 .. l
      BY <1>1
    <3> QED  BY <1>1, <1>3, <1>7, <2>1, <3>1
  <2>9. up[l + 1].splits = l + 1
    BY <1>2, <1>3, <1>7, <2>1
  <2>10. Rung(up, res, l + 1, l + 1)
    <3>1. l + 1 \in 0 .. l + 1 /\ Len(built) = (l + 1) + (l + 1)
      BY <1>1, <2>4, <2>6
    <3> QED  BY <2>4, <2>7, <2>8, <2>9, <3>1 DEF Rung, S, built
  <2>11. l + 1 \in 0 .. l + 1
    BY <1>1
  <2> QED  BY <2>10, <2>11
<1>8. CASE ~r.split
  <2>2. NodesOf(r) = <<r.left>> /\ NodesOf(r) \in Seq(S)
    BY <1>4, <1>8 DEF NodesOf
  <2>3. Len(NodesOf(r)) = 1 /\ NodesOf(r)[1] = r.left
    BY <2>2
  <2> DEFINE more == NodesOf(r)
  <2> HIDE DEF more
  <2>4. /\ built \in Seq(S) /\ Len(built) = (l + k) + 1
        /\ \A i \in 1 .. (l + k) + 1 : built[i] = IF i <= l + k THEN old[i] ELSE more[i - (l + k)]
    <3>1. built = old \o more /\ more \in Seq(S) /\ Len(more) = 1
      BY <1>2, <2>2, <2>3 DEF more
    <3>2. /\ old \o more \in Seq(S) /\ Len(old \o more) = Len(old) + Len(more)
          /\ \A i \in 1 .. Len(old) + Len(more) :
                (old \o more)[i] = IF i <= Len(old) THEN old[i] ELSE more[i - Len(old)]
      BY <1>5, <3>1, ConcatProperties
    <3> QED  BY <1>3, <3>1, <3>2
  <2>5. (\A i \in 1 .. l + k : built[i] = old[i]) /\ built[(l + k) + 1] = r.left
    <3>1. l + k \in Nat
      BY <1>1, <1>3
    <3> DEFINE m == l + k
    <3> HIDE DEF m
    <3>2. /\ m \in Nat /\ more[1] = r.left
          /\ \A i \in 1 .. m + 1 : built[i] = IF i <= m THEN old[i] ELSE more[i - m]
      BY <2>3, <2>4, <3>1 DEF m, more
    <3>3. /\ m + 1 \in 1 .. m + 1 /\ ~ (m + 1 <= m)
          /\ (m + 1) - m = 1 /\ \A i \in 1 .. m : i \in 1 .. m + 1 /\ i <= m
      BY <3>2
    <3>4. \A i \in 1 .. m : built[i] = old[i]
      BY <3>2, <3>3
    <3>5. built[m + 1] = r.left
      BY <3>2, <3>3
    <3> QED  BY <3>4, <3>5 DEF m
  <2>6. LeftAt(l + 1, k) = (l + k) + 1 /\ (l + k) + 1 = (l + 1) + k /\ ~ (l + 1 <= k)
    BY <1>1, <1>3 DEF LeftAt
  <2>7. InPlace(res, built, l + 1, k)
    <3>1. k \in 0 .. l + 1 /\ k <= k
      BY <1>1, <1>3
    <3> QED  BY <1>6, <2>5, <2>6, <3>1
  <2>8. \A j \in 1 .. l + 1 : res[j].split <=> j <= k
    <3> SUFFICES ASSUME NEW j \in 1 .. l + 1 PROVE res[j].split <=> j <= k
      OBVIOUS
    <3>1. j = l + 1 \/ j \in 1 .. l
      BY <1>1
    <3> QED  BY <1>3, <1>8, <2>6, <3>1
  <2>9. up[l + 1].splits = k
    BY <1>2, <1>3, <1>8
  <2>10. k \in 0 .. l + 1
    BY <1>1, <1>3
  <2>11. Rung(up, res, l + 1, k)
    <3>1. Len(built) = (l + 1) + k
      BY <2>4, <2>6
    <3> QED  BY <2>4, <2>7, <2>8, <2>9, <2>10, <3>1 DEF Rung, S, built
  <2> QED  BY <2>10, <2>11
<1> QED  BY <1>2, <1>7, <1>8

\* so there is one for each level of the path.
LEMMA AllRungs ==
    ASSUME NEW path, NEW e, NEW pages, NEW n \in Nat, NEW up, Climbs(up, path, e, pages, n),
           NEW res, \A l \in 1 .. n : res[l] = up[l].result,
           NEW l \in 1 .. n
    PROVE  \E k \in 0 .. l : Rung(up, res, l, k)
<1> DEFINE Good(i) == \E k \in 0 .. i : Rung(up, res, i, k)
           Bad == {i \in 1 .. n : ~Good(i)}
<1> SUFFICES ASSUME Bad # {} PROVE FALSE
  OBVIOUS
<1>1. PICK i \in Bad : \A j \in Bad : i <= j
  <2>1. Bad \subseteq Nat
    OBVIOUS
  <2> HIDE DEF Bad
  <2> QED  BY <2>1, LeastExists
<1>2. i \in 1 .. n /\ ~Good(i)
  BY <1>1
<1>3. CASE i = 1
  BY <1>2, <1>3, FirstRung
<1>4. CASE i # 1
  <2> DEFINE j == i - 1
  <2>1. j \in 1 .. n - 1 /\ j \in 1 .. n /\ ~ (i <= j) /\ i = j + 1
    BY <1>2, <1>4
  <2>2. Good(j)
    BY <1>1, <2>1
  <2> HIDE DEF j, Bad
  <2>3. PICK k : Rung(up, res, j, k)
    BY <2>2
  <2>4. \E c \in 0 .. j + 1 : Rung(up, res, j + 1, c)
    BY <2>1, <2>3, NextRung
  <2> QED  BY <1>2, <2>1, <2>4
<1> QED  BY <1>3, <1>4

\* Each rung agrees with the last on which nodes split.
LEMMA RungsAgree ==
    ASSUME NEW up, NEW res, NEW n \in Nat, NEW K, NEW l \in 1 .. n, NEW k,
           Rung(up, res, n, K), Rung(up, res, l, k)
    PROVE  /\ l <= K => k = l
           /\ ~ (l <= K) => k = K
<1>1. /\ K \in Nat /\ k \in 0 .. l
      /\ \A j \in 1 .. n : res[j].split <=> j <= K
      /\ \A j \in 1 .. l : res[j].split <=> j <= k
  BY DEF Rung
<1>2. \A j \in 1 .. l : j \in 1 .. n
  OBVIOUS
<1>3. \A j \in 1 .. l : j <= K <=> j <= k
  BY <1>1, <1>2
<1>4. CASE l <= K
  <2>1. l \in 1 .. l
    OBVIOUS
  <2> QED  BY <1>1, <1>3, <1>4, <2>1
<1>5. CASE ~ (l <= K)
  <2>1. ~ (k < K)
    <3> SUFFICES ASSUME k < K PROVE FALSE
      OBVIOUS
    <3>1. k + 1 \in 1 .. l /\ k + 1 <= K /\ ~ (k + 1 <= k)
      BY <1>1, <1>5
    <3> QED  BY <1>3, <3>1
  <2>2. ~ (K < k)
    <3> SUFFICES ASSUME K < k PROVE FALSE
      OBVIOUS
    <3>1. K + 1 \in 1 .. l /\ K + 1 <= k /\ ~ (K + 1 <= K)
      BY <1>1, <1>5
    <3> QED  BY <1>3, <3>1
  <2> QED  BY <1>1, <1>5, <2>1, <2>2
<1> QED  BY <1>4, <1>5

\* All that a put builds, and where it goes.
LEMMA BuiltIs ==
    ASSUME NEW path, NEW e, NEW pages, Len(path) \in Nat, Len(path) >= 1
    PROVE  LET n     == Len(path)
               top   == Inserted(path, e, pages)
               built == ToWrite(top, pages)
           IN  \E K \in 0 .. n : \E res :
                  /\ top.splits = K
                  /\ Results(res, nodes, path, e, K, [j \in 1 .. n |-> pages[LeftAt(j, K)]],
                             [j \in 1 .. n |-> pages[2 * j]])
                  /\ Len(built) = n + K + IF K = n THEN 1 ELSE 0
                  /\ InPlace(res, built, n, K)
                  /\ K = n => built[2 * n + 1] = NewRoot(res[n].sep, pages[2 * n - 1],
                                                         pages[2 * n])
<1> DEFINE n == Len(path)
           top == Inserted(path, e, pages)
           built == ToWrite(top, pages)
<1>1. PICK up : Climbs(up, path, e, pages, n) /\ top = up[n]
  BY InsertedClimbs
<1> DEFINE res == [l \in 1 .. n |-> up[l].result]
<1>2. n \in Nat /\ n \in 1 .. n /\ \A l \in 1 .. n : res[l] = up[l].result
  OBVIOUS
<1> HIDE DEF n, top, res
<1>3. PICK K \in 0 .. n : Rung(up, res, n, K)
  BY <1>1, <1>2, AllRungs
<1> DEFINE S == {res[i].left : i \in 1 .. n} \cup {res[i].right : i \in 1 .. n}
<1>4. /\ up[n].splits = K
      /\ \A j \in 1 .. n : res[j].split <=> j <= K
      /\ up[n].built \in Seq(S) /\ Len(up[n].built) = n + K
      /\ InPlace(res, up[n].built, n, K)
  BY <1>3 DEF Rung
<1> DEFINE left == [j \in 1 .. n |-> pages[LeftAt(j, K)]]
           right == [j \in 1 .. n |-> pages[2 * j]]
<1>5. Results(res, nodes, path, e, K, left, right)
  <2> SUFFICES ASSUME NEW l \in 1 .. n
               PROVE  /\ res[l].split \in BOOLEAN /\ (res[l].split <=> l <= K)
                      /\ l = 1 => res[l] = InsertLeaf(nodes[path[1]], e, PageSize)
                      /\ l # 1 /\ l - 1 <= K =>
                            res[l] = InsertInternal(nodes[path[l]],
                                        ChildIndex(nodes[path[l]], e.key), res[l - 1].sep,
                                        left[l - 1], right[l - 1], PageSize)
                      /\ l # 1 /\ ~ (l - 1 <= K) =>
                            res[l] = Single(ReplaceChild(nodes[path[l]],
                                        ChildIndex(nodes[path[l]], e.key), left[l - 1]))
    BY DEF Results, n
  <2>1. RungOf(path, e, pages, up, l) /\ res[l] = up[l].result
    BY <1>1, <1>2, RungIs
  <2>2. res[l].split \in BOOLEAN /\ (l = 1 => res[l] = InsertLeaf(nodes[path[1]], e, PageSize))
    BY <2>1 DEF RungOf
  <2>3. ASSUME l # 1
        PROVE  /\ l - 1 <= K =>
                     res[l] = InsertInternal(nodes[path[l]],
                                 ChildIndex(nodes[path[l]], e.key), res[l - 1].sep,
                                 left[l - 1], right[l - 1], PageSize)
               /\ ~ (l - 1 <= K) =>
                     res[l] = Single(ReplaceChild(nodes[path[l]],
                                 ChildIndex(nodes[path[l]], e.key), left[l - 1]))
    <3> DEFINE b == l - 1
               m == Len(up[b].built)
    <3>1. b \in 1 .. n
      BY <1>2, <2>3
    <3> HIDE DEF b
    <3>2. PICK k \in 0 .. b : Rung(up, res, b, k)
      BY <1>1, <1>2, <3>1, AllRungs
    <3>3. m = b + k /\ (b <= K => k = b) /\ (~ (b <= K) => k = K)
      <4>1. (b <= K => k = b) /\ (~ (b <= K) => k = K)
        BY <1>2, <1>3, <3>1, <3>2, RungsAgree
      <4>2. m = b + k
        BY <3>2 DEF Rung
      <4> QED  BY <4>1, <4>2
    <3>4. /\ up[b].result.split =>
                up[l].result = InsertInternal(nodes[path[l]], ChildIndex(nodes[path[l]], e.key),
                                              up[b].result.sep, pages[m - 1], pages[m], PageSize)
          /\ ~up[b].result.split =>
                up[l].result = Single(ReplaceChild(nodes[path[l]],
                                         ChildIndex(nodes[path[l]], e.key), pages[m]))
      BY <2>1, <2>3 DEF RungOf, b
    <3>5. up[b].result = res[b] /\ (res[b].split <=> b <= K)
      BY <1>2, <1>4, <3>1
    <3>6. left[b] = pages[LeftAt(b, K)] /\ right[b] = pages[2 * b]
      BY <3>1
    <3>7. /\ b <= K => m - 1 = LeftAt(b, K) /\ m = 2 * b
          /\ ~ (b <= K) => m = LeftAt(b, K)
      BY <1>2, <3>1, <3>2, <3>3 DEF LeftAt
    <3> HIDE DEF m, left, right
    <3> QED  BY <2>1, <3>4, <3>5, <3>6, <3>7 DEF b
  <2> QED  BY <1>4, <2>2, <2>3
<1>6. top.result = res[n] /\ top.built = up[n].built /\ top.splits = K
  BY <1>1, <1>2, <1>4
<1> HIDE DEF S
<1>7. /\ Len(built) = n + K + IF K = n THEN 1 ELSE 0
      /\ InPlace(res, built, n, K)
      /\ K = n => built[2 * n + 1] = NewRoot(res[n].sep, pages[2 * n - 1], pages[2 * n])
  <2>1. CASE K # n
    <3>1. ~res[n].split
      BY <1>2, <1>3, <1>4, <2>1
    <3>2. built = up[n].built
      BY <1>6, <3>1 DEF ToWrite
    <3> QED  BY <1>2, <1>4, <2>1, <3>2
  <2>2. CASE K = n
    <3> DEFINE new == NewRoot(res[n].sep, pages[2 * n - 1], pages[2 * n])
               old == up[n].built
               m == 2 * n
    <3>1. res[n].split
      BY <1>2, <1>4, <2>2
    <3>2. Len(old) = m /\ m \in Nat /\ n + K + 1 = m + 1
      BY <1>2, <1>4, <2>2
    <3>3. built = Append(old, new)
      BY <1>6, <3>1, <3>2 DEF ToWrite
    <3> HIDE DEF new, built, m, old
    <3>4. old \in Seq(S \cup {new}) /\ new \in S \cup {new}
      <4>1. old \in Seq(S) /\ S \subseteq S \cup {new}
        BY <1>4 DEF old
      <4> QED  BY <4>1, SeqMonotonic
    <3>5. /\ Len(built) = m + 1 /\ built[m + 1] = new
          /\ \A i \in 1 .. m : built[i] = old[i]
      BY <3>2, <3>3, <3>4, AppendProperties
    <3>6. InPlace(res, built, n, K)
      <4> SUFFICES ASSUME NEW j \in 1 .. n
                   PROVE  /\ built[LeftAt(j, K)] = res[j].left
                          /\ j <= K => built[2 * j] = res[j].right
        BY DEF InPlace
      <4>1. LeftAt(j, K) \in 1 .. m /\ 2 * j \in 1 .. m
        BY <1>2, <2>2 DEF LeftAt, m
      <4>2. old[LeftAt(j, K)] = res[j].left /\ (j <= K => old[2 * j] = res[j].right)
        BY <1>4 DEF InPlace, old
      <4> QED  BY <3>5, <4>1, <4>2
    <3> QED  BY <2>2, <3>2, <3>5, <3>6 DEF m, new
  <2> QED  BY <2>1, <2>2
<1> QED  BY <1>5, <1>6, <1>7 DEF n, top

---------------------------------------------------------------------------
(* What a put makes of each node of a path.                                *)

\* A put of e in a tree, along the path for its key.
PutsIn(on, T, rt, u, path, e) ==
    /\ Shape(on, T, rt, u)
    /\ IsWay(path, on, T, rt, e.key)
    /\ \A l \in 1 .. Len(path) : e.key \in u[path[l]]
    /\ e \in Entry /\ CheckLimits(PageSize, e.key, e.val)

\* w is for what keys each page will be: a page that stays, for the same; the
\* pages left[j] and right[j] share the keys of the page on level j.
Shares(w, T, u, path, K, res, left, right) ==
    /\ \A p \in DOMAIN T \ Range(path) : w[p] = u[p]
    /\ \A j \in 1 .. Len(path) :
          /\ left[j] \in Ids
          /\ j <= K => /\ right[j] \in Ids
                       /\ w[left[j]] = Below(u[path[j]], res[j].sep)
                       /\ w[right[j]] = From(u[path[j]], res[j].sep)
          /\ ~ (j <= K) => w[left[j]] = u[path[j]]

\* A page of the path above the leaf, at = the place of the next one down.
Junction(n, U, at, p, u, T, path) ==
    /\ SoundInternal(n, PageSize) /\ InternalBytes(n) <= PageSize
    /\ U \in SUBSET Key /\ Covers(n, U, u) /\ KeysIn(n, U)
    /\ at \in 0 .. Len(n.keys) /\ at + 1 \in 1 .. Len(n.children)
    /\ n.children[at + 1] = p
    /\ \A i \in 1 .. Len(n.children) :
          i # at + 1 => n.children[i] \in DOMAIN T \ Range(path)
    /\ Others(n, at) = Kids(n) \ {p}
    /\ u[p] = {k \in U : InSlot(n, at + 1, k)}

\* Each page of a put's path but the leaf is one.
LEMMA JunctionIs ==
    ASSUME NEW on, NEW T, NEW rt, NEW u, NEW path, NEW e, PutsIn(on, T, rt, u, path, e),
           NEW l \in 1 .. Len(path), l # 1
    PROVE  Junction(on[path[l]], u[path[l]], ChildIndex(on[path[l]], e.key), path[l - 1],
                    u, T, path)
<1> DEFINE q == path[l]
           p == path[l - 1]
           n == on[q]
           U == u[q]
           at == ChildIndex(n, e.key)
<1>1. /\ Shape(on, T, rt, u) /\ path \in Seq(DOMAIN T) /\ Len(path) \in Nat
      /\ \A i \in 1 .. Len(path) : /\ path[i] \in DOMAIN T /\ T[path[i]].level = i
                                  /\ e.key \in u[path[i]]
      /\ \A i \in 1 .. Len(path) - 1 : path[i] = ChildFor(on[path[i + 1]], e.key)
      /\ e.key \in Key
  BY LenProperties, ElementOfSeq DEF PutsIn, IsWay, Entry
<1>2. l - 1 \in 1 .. Len(path) - 1 /\ (l - 1) + 1 = l /\ l - 1 \in 1 .. Len(path)
  BY <1>1
<1>3. /\ q \in DOMAIN T /\ T[q].level = l /\ T[q].level # 1 /\ e.key \in U
      /\ p = ChildFor(n, e.key) /\ T[p].level = l - 1
  BY <1>1, <1>2
<1> HIDE DEF q
<1>4. /\ SoundInternal(n, PageSize) /\ n.kind = "internal" /\ Range(n.children) = Kids(n)
      /\ \A c \in Kids(n) : c \in DOMAIN T /\ T[c].level = T[q].level - 1
      /\ \A i, j \in 1 .. Len(n.children) : n.children[i] = n.children[j] => i = j
  BY <1>1, <1>3, KidsInTree
<1>5. SoundNode(n, PageSize) /\ U \in SUBSET Key /\ KeysIn(n, U) /\ Covers(n, U, u)
  <2>1. Fits(q, on, T, rt, u)
    BY <1>1, <1>3 DEF Shape
  <2> QED  BY <1>3, <2>1 DEF Fits, IsSound, Placed
<1>6. InternalBytes(n) <= PageSize
  BY <1>4, <1>5, SoundByKind
<1>7. at \in 0 .. Len(n.keys) /\ at + 1 \in 1 .. Len(n.children)
  BY <1>1, <1>4, PageSizeIs, SlotOfKey
<1>8. n.children[at + 1] = p
  BY <1>3 DEF ChildFor
<1> HIDE DEF at, n, U
<1>9. ASSUME NEW i \in 1 .. Len(n.children), i # at + 1
      PROVE  n.children[i] \in DOMAIN T \ Range(path) /\ n.children[i] # p
  <2> DEFINE c == n.children[i]
  <2>1. c # p
    BY <1>4, <1>7, <1>8, <1>9
  <2>2. c \in Kids(n)
    BY DEF Kids
  <2> HIDE DEF c
  <2>3. c \in DOMAIN T /\ T[c].level = l - 1
    BY <1>3, <1>4, <2>2
  <2>4. c \notin Range(path)
    <3> SUFFICES ASSUME c \in Range(path) PROVE FALSE
      OBVIOUS
    <3>1. PICK j \in 1 .. Len(path) : path[j] = c
      BY <1>1, RangeIs
    <3>2. j = l - 1
      BY <1>1, <2>3, <3>1
    <3> QED  BY <2>1, <3>1, <3>2
  <2> QED  BY <2>1, <2>3, <2>4 DEF c
<1>10. Others(n, at) = Kids(n) \ {p}
  BY <1>7, <1>8, <1>9 DEF Kids, Others
<1>11. u[p] = {k \in U : InSlot(n, at + 1, k)}
  BY <1>5, <1>7, <1>8 DEF Covers
<1> HIDE DEF p
<1> QED  BY <1>4, <1>5, <1>6, <1>7, <1>8, <1>9, <1>10, <1>11 DEF Junction, n, U, at, q, p

\* A node for level l and the keys of U.
Whole(n, U, l, w) ==
    /\ SoundNode(n, PageSize) /\ n.kind = IF l = 1 THEN "leaf" ELSE "internal"
    /\ KeysIn(n, U)
    /\ l # 1 => Covers(n, U, w)

NonEmpty(n) == Pieces(n) >= 1

\* What a put has made on level l.
Made(l, on, T, u, path, e, K, res, left, right, w) ==
    LET n    == on[path[l]]
        U    == u[path[l]]
        r    == res[l]
        held == With(Holding(n), e)
        kids == (Kids(n) \ {path[l - 1]}) \cup {left[l - 1]}
                   \cup IF l - 1 <= K THEN {right[l - 1]} ELSE {}
    IN  /\ l <= K =>
              /\ r.sep \in U /\ SepBytes(r.sep) <= MaxKvSize(PageSize) + 2
              /\ Whole(r.left, Below(U, r.sep), l, w) /\ NonEmpty(r.left)
              /\ Whole(r.right, From(U, r.sep), l, w) /\ NonEmpty(r.right)
              /\ l # 1 => Kids(r.left) \cup Kids(r.right) = kids
              /\ l = 1 => /\ Holding(r.left) = {x \in held : x.key < r.sep}
                          /\ Holding(r.right) = {x \in held : r.sep <= x.key}
        /\ ~ (l <= K) =>
              /\ Whole(r.left, U, l, w)
              /\ l # Len(path) => NonEmpty(r.left)
              /\ l # 1 => Kids(r.left) = kids
              /\ l = 1 => Holding(r.left) = held

\* The leaf, and where it split both halves, hold the entry and all it held.
LEMMA MadeLeaf ==
    ASSUME NEW on, NEW T, NEW rt, NEW u, NEW path, NEW e, PutsIn(on, T, rt, u, path, e),
           NEW K, NEW res, NEW left, NEW right, Results(res, on, path, e, K, left, right),
           NEW w, Len(path) \in Nat, Len(path) >= 1
    PROVE  Made(1, on, T, u, path, e, K, res, left, right, w)
<1> DEFINE p == path[1]
           n == on[p]
           U == u[p]
           r == res[1]
           held == With(Holding(n), e)
<1>1. 1 \in 1 .. Len(path)
  OBVIOUS
<1>2. /\ Shape(on, T, rt, u) /\ p \in DOMAIN T /\ T[p].level = 1 /\ e.key \in U
      /\ e \in Entry /\ CheckLimits(PageSize, e.key, e.val)
  BY <1>1, ElementOfSeq DEF PutsIn, IsWay
<1>3. r = InsertLeaf(n, e, PageSize) /\ r.split \in BOOLEAN /\ (r.split <=> 1 <= K)
  <2>1. /\ res[1].split \in BOOLEAN /\ (res[1].split <=> 1 <= K)
        /\ res[1] = InsertLeaf(on[path[1]], e, PageSize)
    <3> DEFINE l == 1
    <3>1. l \in 1 .. Len(path) /\ l = 1
      BY <1>1
    <3> HIDE DEF l
    <3>2. /\ res[l].split \in BOOLEAN /\ (res[l].split <=> l <= K)
          /\ l = 1 => res[l] = InsertLeaf(on[path[1]], e, PageSize)
      BY <3>1 DEF Results
    <3> QED  BY <3>1, <3>2
  <2> QED  BY <2>1
<1>4. SoundLeaf(n, PageSize) /\ LeafBytes(n) <= PageSize /\ U \in SUBSET Key /\ KeysIn(n, U)
  <2>1. Fits(p, on, T, rt, u)
    BY <1>2 DEF Shape
  <2> QED  BY <1>2, <2>1, SoundByKind DEF Fits, IsSound, Placed
<1> HIDE DEF p, n, U, r
<1>5. /\ SoundLeaf(r.left, PageSize) /\ LeafBytes(r.left) <= PageSize
      /\ r.left.kind = "leaf" /\ Len(r.left.entries) >= 1
      /\ r.split => /\ SoundLeaf(r.right, PageSize) /\ LeafBytes(r.right) <= PageSize
                    /\ r.right.kind = "leaf" /\ Len(r.right.entries) >= 1
                    /\ SepBytes(r.sep) <= MaxKvSize(PageSize) + 2
  BY <1>2, <1>3, <1>4, PageSizeIs, InsertLeafSound
<1>6. /\ ~r.split => Holding(r.left) = held /\ KeysIn(r.left, U)
      /\ r.split => /\ r.sep \in U
                    /\ Holding(r.left) = {x \in held : x.key < r.sep}
                    /\ Holding(r.right) = {x \in held : r.sep <= x.key}
                    /\ KeysIn(r.left, Below(U, r.sep))
                    /\ KeysIn(r.right, From(U, r.sep))
  BY <1>2, <1>3, <1>4, PageSizeIs, InsertLeafHolds
<1>7. NonEmpty(r.left) /\ (r.split => NonEmpty(r.right))
  BY <1>5 DEF NonEmpty, Pieces
<1>8. SoundNode(r.left, PageSize) /\ (r.split => SoundNode(r.right, PageSize))
  BY <1>5 DEF SoundNode
<1> HIDE DEF held
<1>9. CASE 1 <= K
  BY <1>3, <1>5, <1>6, <1>7, <1>8, <1>9 DEF Made, Whole, p, n, U, r, held
<1>10. CASE ~ (1 <= K)
  BY <1>3, <1>5, <1>6, <1>7, <1>8, <1>10 DEF Made, Whole, p, n, U, r, held
<1> QED  BY <1>9, <1>10

\* Above what did not split.
LEMMA MadeOne ==
    ASSUME NEW on, NEW T, NEW rt, NEW u, NEW path, NEW e, PutsIn(on, T, rt, u, path, e),
           NEW K \in 0 .. Len(path), NEW res, NEW left, NEW right,
           Results(res, on, path, e, K, left, right),
           NEW w, Shares(w, T, u, path, K, res, left, right),
           NEW l \in 1 .. Len(path), l # 1, ~ (l - 1 <= K), Len(path) \in Nat
    PROVE  Made(l, on, T, u, path, e, K, res, left, right, w)
<1> DEFINE q == path[l]
           p == path[l - 1]
           n == on[q]
           U == u[q]
           at == ChildIndex(n, e.key)
           c == left[l - 1]
           r == res[l]
           other == Others(n, at)
           new == ReplaceChild(n, at, c)
<1>1. Junction(n, U, at, p, u, T, path)
  BY JunctionIs
<1>2. l - 1 \in 1 .. Len(path) /\ ~ (l <= K) /\ l \in Nat
  OBVIOUS
<1>3. /\ r = Single(new)
      /\ c \in Ids /\ w[c] = u[p]
      /\ \A x \in DOMAIN T \ Range(path) : w[x] = u[x]
  BY <1>2 DEF Results, Shares
<1>4. l # Len(path) => Pieces(n) >= 1
  <2> SUFFICES ASSUME l # Len(path) PROVE Pieces(n) >= 1
    OBVIOUS
  <2>1. q \in DOMAIN T /\ T[q].level = l /\ Len(path) = T[rt].level /\ Shape(on, T, rt, u)
    BY ElementOfSeq DEF PutsIn, IsWay
  <2>2. Fits(q, on, T, rt, u) /\ q # rt
    BY <2>1 DEF Shape
  <2> QED  BY <2>2 DEF Fits
<1>5. /\ SoundInternal(n, PageSize) /\ InternalBytes(n) <= PageSize
      /\ U \in SUBSET Key /\ Covers(n, U, u) /\ KeysIn(n, U)
      /\ at \in 0 .. Len(n.keys) /\ at + 1 \in 1 .. Len(n.children)
      /\ n.children[at + 1] = p
      /\ \A i \in 1 .. Len(n.children) :
            i # at + 1 => n.children[i] \in DOMAIN T \ Range(path)
      /\ other = Kids(n) \ {p}
  BY <1>1 DEF Junction
<1> HIDE DEF q, p, n, U, at, c, r
<1>6. \A i \in 1 .. Len(n.children) : i # at + 1 => w[n.children[i]] = u[n.children[i]]
  BY <1>3, <1>5
<1>7. Covers(new, U, w) /\ KeysIn(new, U)
  <2>1. w[c] = u[n.children[at + 1]]
    BY <1>3, <1>5
  <2> QED  BY <1>3, <1>5, <1>6, <2>1, PageSizeIs, ReplacedCovers
<1>8. /\ SoundInternal(new, PageSize) /\ new.kind = "internal" /\ new.keys = n.keys
      /\ InternalBytes(new) = InternalBytes(n)
      /\ Len(new.children) = Len(n.children)
      /\ \A i \in 1 .. Len(n.children) :
            new.children[i] = IF i = at + 1 THEN c ELSE n.children[i]
  BY <1>3, <1>5, PageSizeIs, ReplaceChildSound
<1> HIDE DEF new
<1>9. Kids(new) = other \cup {c}
  <2>1. ASSUME NEW x \in Kids(new) PROVE x \in other \cup {c}
    <3>1. PICK i \in 1 .. Len(n.children) : x = new.children[i]
      BY <1>8 DEF Kids
    <3> QED  BY <1>8, <3>1 DEF Others
  <2>2. ASSUME NEW x \in other PROVE x \in Kids(new)
    <3>1. PICK i \in (1 .. Len(n.children)) \ {at + 1} : x = n.children[i]
      BY DEF Others
    <3>2. x = new.children[i]
      BY <1>8, <3>1
    <3> QED  BY <1>8, <3>2 DEF Kids
  <2>3. c \in Kids(new)
    BY <1>5, <1>8 DEF Kids
  <2> HIDE DEF other
  <2> QED  BY <2>1, <2>2, <2>3
<1>10. SoundNode(new, PageSize)
  BY <1>5, <1>8 DEF SoundNode
<1>11. n.kind = "internal"
  BY <1>5, PageSizeIs, InternalFacts
<1>12. l # Len(path) => NonEmpty(new)
  BY <1>4, <1>8, <1>11 DEF NonEmpty, Pieces
<1>13. r.left = new
  BY <1>3 DEF Single
<1> HIDE DEF other
<1>14. Whole(r.left, U, l, w)
  BY <1>7, <1>8, <1>10, <1>13 DEF Whole
<1>15. Kids(r.left) = (Kids(n) \ {p}) \cup {c}
  BY <1>5, <1>9, <1>13
<1> QED  BY <1>2, <1>12, <1>13, <1>14, <1>15 DEF Made, q, p, n, U, c, r

\* Above what did.
LEMMA MadeTwo ==
    ASSUME NEW on, NEW T, NEW rt, NEW u, NEW path, NEW e, PutsIn(on, T, rt, u, path, e),
           NEW K \in 0 .. Len(path), NEW res, NEW left, NEW right,
           Results(res, on, path, e, K, left, right),
           NEW w, Shares(w, T, u, path, K, res, left, right),
           NEW l \in 1 .. Len(path), l # 1, l - 1 <= K, Len(path) \in Nat,
           Made(l - 1, on, T, u, path, e, K, res, left, right, w)
    PROVE  Made(l, on, T, u, path, e, K, res, left, right, w)
<1> DEFINE q == path[l]
           p == path[l - 1]
           n == on[q]
           U == u[q]
           at == ChildIndex(n, e.key)
           lid == left[l - 1]
           rid == right[l - 1]
           b == res[l - 1]
           sep == b.sep
           r == res[l]
           other == Others(n, at)
<1>1. Junction(n, U, at, p, u, T, path)
  BY JunctionIs
<1>2. l - 1 \in 1 .. Len(path) /\ l \in Nat
  OBVIOUS
<1>3. /\ r = InsertInternal(n, at, sep, lid, rid, PageSize)
      /\ r.split \in BOOLEAN /\ (r.split <=> l <= K)
      /\ lid \in Ids /\ rid \in Ids
      /\ w[lid] = Below(u[p], sep) /\ w[rid] = From(u[p], sep)
      /\ \A x \in DOMAIN T \ Range(path) : w[x] = u[x]
  BY <1>2 DEF Results, Shares
<1>4. /\ sep \in u[p] /\ SepBytes(sep) <= MaxKvSize(PageSize) + 2
      /\ KeysIn(b.left, Below(u[p], sep)) /\ NonEmpty(b.left) /\ SoundNode(b.left, PageSize)
  BY DEF Made, Whole
<1>5. /\ SoundInternal(n, PageSize) /\ InternalBytes(n) <= PageSize
      /\ U \in SUBSET Key /\ Covers(n, U, u) /\ KeysIn(n, U)
      /\ at \in 0 .. Len(n.keys) /\ at + 1 \in 1 .. Len(n.children)
      /\ n.children[at + 1] = p
      /\ \A i \in 1 .. Len(n.children) :
            i # at + 1 => n.children[i] \in DOMAIN T \ Range(path)
      /\ other = Kids(n) \ {p}
      /\ u[p] = {k \in U : InSlot(n, at + 1, k)}
  BY <1>1 DEF Junction
<1> HIDE DEF q, p, n, U, at, lid, rid, b, sep, r
<1>6. \A i \in 1 .. Len(n.children) : i # at + 1 => w[n.children[i]] = u[n.children[i]]
  BY <1>3, <1>5
<1>7. sep \in U /\ sep \in Key /\ InSlot(n, at + 1, sep)
  BY <1>4, <1>5
<1>8. at = ChildIndex(n, sep)
  <2> DEFINE there == ChildIndex(n, sep)
  <2>1. /\ there \in 0 .. Len(n.keys)
        /\ \A i \in 1 .. Len(n.children) : InSlot(n, i, sep) => i = there + 1
    BY <1>5, <1>7, PageSizeIs, SlotOfKey
  <2> HIDE DEF there
  <2>2. at + 1 = there + 1
    BY <1>5, <1>7, <2>1
  <2>3. at \in Int /\ there \in Int
    BY <1>5, <2>1
  <2> QED  BY <2>2, <2>3 DEF there
<1>9. \A i \in 1 .. Len(n.keys) : n.keys[i] # sep
  <2> DEFINE low == PieceKey(b.left, 1)
  <2>1. Pieces(b.left) \in Nat
    <3>1. CASE b.left.kind = "leaf"
      BY <1>4, <3>1, SoundByKind, PageSizeIs, LeafFacts DEF Pieces
    <3>2. CASE b.left.kind = "internal"
      BY <1>4, <3>2, SoundByKind, PageSizeIs, InternalFacts DEF Pieces
    <3> QED  BY <1>4, <3>1, <3>2, SoundByKind
  <2>2. low \in Below(u[p], sep)
    BY <1>4, <2>1 DEF NonEmpty, KeysIn
  <2> HIDE DEF low
  <2>3. low \in U /\ low < sep /\ InSlot(n, at + 1, low)
    BY <1>5, <2>2 DEF Below
  <2>4. low \in Nat /\ sep \in Nat
    BY <1>5, <1>7, <2>3, KeyAssumption
  <2>5. /\ Len(n.keys) \in Nat /\ Len(n.children) = Len(n.keys) + 1
        /\ \A i \in 1 .. Len(n.keys) : n.keys[i] \in Nat
        /\ \A i, j \in 1 .. Len(n.keys) : i < j => n.keys[i] < n.keys[j]
    BY <1>5, PageSizeIs, InternalFacts, KeyAssumption
  <2> SUFFICES ASSUME NEW i \in 1 .. Len(n.keys), n.keys[i] = sep PROVE FALSE
    OBVIOUS
  <2>6. (at + 1) - 1 = at
    BY <1>5
  <2>7. CASE i <= at
    <3>1. at \in 1 .. Len(n.keys) /\ at + 1 > 1
      BY <1>5, <2>5, <2>7
    <3>2. n.keys[at] <= low
      BY <2>3, <2>6, <3>1 DEF InSlot
    <3>3. i = at \/ n.keys[i] < n.keys[at]
      BY <2>5, <2>7, <3>1
    <3>4. n.keys[at] \in Nat /\ n.keys[i] \in Nat
      BY <2>5, <3>1
    <3> QED  BY <2>3, <2>4, <3>2, <3>3, <3>4
  <2>8. CASE ~ (i <= at)
    <3>1. at + 1 \in 1 .. Len(n.keys)
      BY <1>5, <2>5, <2>8
    <3>2. sep < n.keys[at + 1]
      BY <1>7, <3>1 DEF InSlot
    <3>3. i = at + 1 \/ n.keys[at + 1] < n.keys[i]
      BY <1>5, <2>5, <2>8, <3>1
    <3>4. n.keys[at + 1] \in Nat /\ n.keys[i] \in Nat
      BY <2>5, <3>1
    <3> QED  BY <2>4, <3>2, <3>3, <3>4
  <2> QED  BY <2>7, <2>8
<1>10. /\ SoundInternal(r.left, PageSize) /\ InternalBytes(r.left) <= PageSize
       /\ r.left.kind = "internal" /\ Len(r.left.keys) >= 1
       /\ r.split => /\ SoundInternal(r.right, PageSize) /\ InternalBytes(r.right) <= PageSize
                     /\ r.right.kind = "internal" /\ Len(r.right.keys) >= 1
                     /\ r.sep \in Key /\ SepBytes(r.sep) <= MaxKvSize(PageSize) + 2
  BY <1>3, <1>4, <1>5, <1>7, <1>8, <1>9, PageSizeIs, InsertInternalSound
<1>11. /\ ~r.split => /\ Covers(r.left, U, w) /\ KeysIn(r.left, U)
                      /\ Kids(r.left) = other \cup {lid, rid}
       /\ r.split => /\ r.sep \in U
                     /\ Covers(r.left, Below(U, r.sep), w) /\ KeysIn(r.left, Below(U, r.sep))
                     /\ Covers(r.right, From(U, r.sep), w) /\ KeysIn(r.right, From(U, r.sep))
                     /\ Kids(r.left) \cup Kids(r.right) = other \cup {lid, rid}
  <2>1. w[lid] = Below(u[n.children[at + 1]], sep) /\ w[rid] = From(u[n.children[at + 1]], sep)
    BY <1>3, <1>5
  <2>2. lid \in Ids /\ rid \in Ids
    BY <1>3
  <2>3. SoundInternal(n, PageSize) /\ InternalBytes(n) <= PageSize
        /\ U \in SUBSET Key /\ Covers(n, U, u) /\ KeysIn(n, U)
    BY <1>5
  <2>4. sep \in U /\ sep \in Key /\ SepBytes(sep) <= MaxKvSize(PageSize) + 2
    BY <1>4, <1>7
  <2> DEFINE x == InsertInternal(n, at, sep, lid, rid, PageSize)
  <2>5. InsertedHolds(x, n, at, lid, rid, U, w)
    BY <1>6, <1>8, <1>9, <2>1, <2>2, <2>3, <2>4, PageSizeIs, InsertInternalHolds
  <2>6. r = x
    BY <1>3
  <2> HIDE DEF x
  <2> QED  BY <2>5, <2>6 DEF InsertedHolds
<1>12. NonEmpty(r.left) /\ (r.split => NonEmpty(r.right))
  BY <1>10 DEF NonEmpty, Pieces
<1>13. SoundNode(r.left, PageSize) /\ (r.split => SoundNode(r.right, PageSize))
  BY <1>10 DEF SoundNode
<1> HIDE DEF other
<1>14. other \cup {lid, rid} = (Kids(n) \ {p}) \cup {lid} \cup IF l - 1 <= K THEN {rid} ELSE {}
  BY <1>5
<1>15. CASE l <= K
  <2>1. Whole(r.left, Below(U, r.sep), l, w) /\ Whole(r.right, From(U, r.sep), l, w)
    BY <1>3, <1>10, <1>11, <1>13, <1>15 DEF Whole
  <2> QED  BY <1>3, <1>10, <1>11, <1>12, <1>14, <1>15, <2>1 DEF Made, q, p, n, U, lid, rid, r
<1>16. CASE ~ (l <= K)
  <2>1. Whole(r.left, U, l, w)
    BY <1>3, <1>10, <1>11, <1>13, <1>16 DEF Whole
  <2> QED  BY <1>3, <1>11, <1>12, <1>14, <1>16, <2>1 DEF Made, q, p, n, U, lid, rid, r
<1> QED  BY <1>15, <1>16

\* On every level of the path.
LEMMA AllMade ==
    ASSUME NEW on, NEW T, NEW rt, NEW u, NEW path, NEW e, PutsIn(on, T, rt, u, path, e),
           NEW K \in 0 .. Len(path), NEW res, NEW left, NEW right,
           Results(res, on, path, e, K, left, right),
           NEW w, Shares(w, T, u, path, K, res, left, right),
           Len(path) \in Nat, NEW l \in 1 .. Len(path)
    PROVE  Made(l, on, T, u, path, e, K, res, left, right, w)
<1> DEFINE Good(i) == Made(i, on, T, u, path, e, K, res, left, right, w)
           Bad == {i \in 1 .. Len(path) : ~Good(i)}
<1> SUFFICES ASSUME Bad # {} PROVE FALSE
  OBVIOUS
<1>1. PICK i \in Bad : \A j \in Bad : i <= j
  <2>1. Bad \subseteq Nat
    OBVIOUS
  <2> HIDE DEF Bad
  <2> QED  BY <2>1, LeastExists
<1>2. i \in 1 .. Len(path) /\ ~Good(i) /\ Len(path) >= 1
  BY <1>1
<1>3. CASE i = 1
  BY <1>2, <1>3, MadeLeaf
<1>4. CASE i # 1
  <2>1. i - 1 \in 1 .. Len(path) /\ ~ (i <= i - 1)
    BY <1>2, <1>4
  <2>2. Good(i - 1)
    BY <1>1, <2>1
  <2> HIDE DEF Bad
  <2>3. CASE i - 1 <= K
    BY <1>2, <1>4, <2>2, <2>3, MadeTwo
  <2>4. CASE ~ (i - 1 <= K)
    BY <1>2, <1>4, <2>4, MadeOne
  <2> QED  BY <2>3, <2>4
<1> QED  BY <1>3, <1>4

---------------------------------------------------------------------------
(* The tree with what a put has made grafted into it.                      *)

\* The nodes new and the tree S, from root2, are those of T with the pages
\* left[j] and right[j] in the place of the path's, and top above them.
Grafts(new, S, root2, on, T, path, K, res, left, right, top) ==
    LET n == Len(path)
    IN  /\ \A p \in DOMAIN T \ Range(path) :
              /\ p \in DOMAIN S /\ S[p].level = T[p].level
              /\ p \in DOMAIN on => p \in DOMAIN new /\ new[p] = on[p]
        /\ \A j \in 1 .. n :
              /\ left[j] \in DOMAIN S \ DOMAIN T /\ S[left[j]].level = j
              /\ left[j] \in Ids /\ left[j] \in DOMAIN new /\ new[left[j]] = res[j].left
        /\ \A j \in 1 .. n : j <= K =>
              /\ right[j] \in DOMAIN S \ DOMAIN T /\ S[right[j]].level = j
              /\ right[j] \in Ids /\ right[j] \in DOMAIN new /\ new[right[j]] = res[j].right
              /\ right[j] # left[j]
        /\ K = n =>
              /\ top \in DOMAIN S \ DOMAIN T /\ S[top].level = n + 1
              /\ top \in Ids /\ top \in DOMAIN new
              /\ new[top] = NewRoot(res[n].sep, left[n], right[n])
        /\ \A p \in DOMAIN S :
              \/ p \in DOMAIN T \ Range(path)
              \/ \E j \in 1 .. n : p = left[j] \/ (j <= K /\ p = right[j])
              \/ K = n /\ p = top
        /\ root2 = IF K = n THEN top ELSE left[n]
        /\ n <= MaxHeight + 1 /\ (K = n => n + 1 <= MaxHeight + 1)

\* There is a w that says what each of its pages is for.
LEMMA GraftShares ==
    ASSUME NEW on, NEW T, NEW rt, NEW u, NEW path, NEW e, PutsIn(on, T, rt, u, path, e),
           NEW K \in 0 .. Len(path), NEW res, NEW left, NEW right, NEW top,
           Len(path) \in Nat, Len(path) >= 1,
           NEW new, NEW S, NEW root2,
           Grafts(new, S, root2, on, T, path, K, res, left, right, top)
    PROVE  \E w \in [DOMAIN S -> SUBSET Key] :
              Shares(w, T, u, path, K, res, left, right) /\ (K = Len(path) => w[top] = Key)
<1> DEFINE n == Len(path)
           kept == DOMAIN T \ Range(path)
           Part(j, p) == IF j <= K
                         THEN IF p = left[j] THEN Below(u[path[j]], res[j].sep)
                              ELSE From(u[path[j]], res[j].sep)
                         ELSE u[path[j]]
           For(p) == IF p \in kept THEN u[p]
                     ELSE IF S[p].level = n + 1 THEN Key ELSE Part(S[p].level, p)
           w == [p \in DOMAIN S |-> For(p)]
<1>1. /\ Shape(on, T, rt, u) /\ path \in Seq(DOMAIN T)
      /\ \A j \in 1 .. n : path[j] \in DOMAIN T
  BY ElementOfSeq DEF PutsIn, IsWay
<1>2. \A p \in DOMAIN T : u[p] \subseteq Key
  BY <1>1 DEF Shape, Fits
<1>3. ASSUME NEW j \in 1 .. n, NEW p PROVE Part(j, p) \subseteq Key
  BY <1>1, <1>2 DEF Below, From
<1>4. ASSUME NEW p \in DOMAIN S PROVE For(p) \subseteq Key
  <2>1. CASE p \in kept
    BY <1>2, <2>1
  <2>2. CASE p \notin kept /\ S[p].level = n + 1
    BY <2>2
  <2>3. CASE p \notin kept /\ S[p].level # n + 1
    <3>1. S[p].level \in 1 .. n
      <4>1. PICK j \in 1 .. n : p = left[j] \/ (j <= K /\ p = right[j])
        BY <2>3 DEF Grafts
      <4> QED  BY <4>1 DEF Grafts
    <3> HIDE DEF Part
    <3> QED  BY <1>3, <2>3, <3>1
  <2> HIDE DEF For
  <2> QED  BY <2>1, <2>2, <2>3
<1> HIDE DEF For
<1>5. w \in [DOMAIN S -> SUBSET Key] /\ \A p \in DOMAIN S : w[p] = For(p)
  BY <1>4
<1> HIDE DEF w
<1>6. ASSUME NEW p \in kept PROVE w[p] = u[p]
  BY <1>5 DEF Grafts, For
<1>7. ASSUME NEW j \in 1 .. n
      PROVE  /\ left[j] \in Ids
             /\ j <= K => /\ right[j] \in Ids
                          /\ w[left[j]] = Below(u[path[j]], res[j].sep)
                          /\ w[right[j]] = From(u[path[j]], res[j].sep)
             /\ ~ (j <= K) => w[left[j]] = u[path[j]]
  <2>1. /\ left[j] \in DOMAIN S /\ left[j] \notin kept /\ S[left[j]].level = j
        /\ left[j] \in Ids /\ j # n + 1
        /\ j <= K => /\ right[j] \in DOMAIN S /\ right[j] \notin kept /\ S[right[j]].level = j
                     /\ right[j] \in Ids /\ right[j] # left[j]
    BY DEF Grafts
  <2>2. w[left[j]] = Part(j, left[j])
    BY <1>5, <2>1 DEF For
  <2>3. j <= K => w[right[j]] = Part(j, right[j])
    BY <1>5, <2>1 DEF For
  <2> HIDE DEF kept
  <2> QED  BY <2>1, <2>2, <2>3
<1>8. K = n => w[top] = Key
  <2> SUFFICES ASSUME K = n PROVE w[top] = Key
    OBVIOUS
  <2>1. top \in DOMAIN S /\ top \notin kept /\ S[top].level = n + 1
    BY DEF Grafts
  <2> QED  BY <1>5, <2>1 DEF For
<1>9. Shares(w, T, u, path, K, res, left, right)
  BY <1>6, <1>7 DEF Shares
<1> QED  BY <1>5, <1>8, <1>9

\* What a node covers, by what each of its children is for.
LEMMA CoversKept ==
    ASSUME NEW n, NEW U, NEW u, NEW w, Covers(n, U, u), \A c \in Kids(n) : w[c] = u[c]
    PROVE  Covers(n, U, w)
BY DEF Covers, Kids

\* A new root covers all keys, between its two children.
LEMMA NewRootHolds ==
    ASSUME NEW sep \in Key, SepBytes(sep) <= MaxKvSize(PageSize) + 2,
           NEW lid \in Ids, NEW rid \in Ids, NEW w,
           w[lid] = Below(Key, sep), w[rid] = From(Key, sep), NEW l \in Nat, l # 1
    PROVE  LET n == NewRoot(sep, lid, rid)
           IN  /\ Whole(n, Key, l, w) /\ NonEmpty(n) /\ Kids(n) = {lid, rid}
<1> DEFINE n == NewRoot(sep, lid, rid)
<1>1. /\ SoundInternal(n, PageSize) /\ n.kind = "internal"
      /\ Len(n.keys) >= 1 /\ InternalBytes(n) <= PageSize
  BY PageSizeIs, NewRootSound
<1>2. n.keys = <<sep>> /\ n.children = <<lid, rid>>
  BY DEF NewRoot, InternalOf
<1>3. /\ Len(n.keys) = 1 /\ n.keys[1] = sep
      /\ Len(n.children) = 2 /\ n.children[1] = lid /\ n.children[2] = rid
  BY <1>2
<1> HIDE DEF n
<1>4. Covers(n, Key, w)
  <2>1. \A k : InSlot(n, 1, k) <=> k < sep
    BY <1>3 DEF InSlot
  <2>2. \A k : InSlot(n, 2, k) <=> sep <= k
    BY <1>3 DEF InSlot
  <2>3. w[n.children[1]] = {k \in Key : InSlot(n, 1, k)}
    BY <1>3, <2>1 DEF Below
  <2>4. w[n.children[2]] = {k \in Key : InSlot(n, 2, k)}
    BY <1>3, <2>2 DEF From
  <2> QED  BY <1>3, <2>3, <2>4 DEF Covers
<1>5. KeysIn(n, Key)
  BY <1>1, <1>3 DEF KeysIn, Pieces, PieceKey
<1>6. Kids(n) = {lid, rid}
  <2>1. 1 .. Len(n.children) = {1, 2}
    BY <1>3
  <2> QED  BY <1>3, <2>1 DEF Kids
<1>7. NonEmpty(n)
  BY <1>1 DEF NonEmpty, Pieces
<1>8. SoundNode(n, PageSize)
  BY <1>1 DEF SoundNode
<1> QED  BY <1>1, <1>4, <1>5, <1>6, <1>7, <1>8 DEF Whole, n

\* All that a put's graft is made of.
PutGrafts(on, T, rt, u, path, e, K, res, left, right, top, new, S, root2, w) ==
    /\ PutsIn(on, T, rt, u, path, e)
    /\ Len(path) \in Nat /\ Len(path) >= 1 /\ K \in 0 .. Len(path)
    /\ Results(res, on, path, e, K, left, right)
    /\ Grafts(new, S, root2, on, T, path, K, res, left, right, top)
    /\ w \in [DOMAIN S -> SUBSET Key]
    /\ Shares(w, T, u, path, K, res, left, right)
    /\ K = Len(path) => w[top] = Key

\* The children of what replaces the page on level l.
KidsMade(l, on, path, K, left, right) ==
    (Kids(on[path[l]]) \ {path[l - 1]}) \cup {left[l - 1]}
        \cup IF l - 1 <= K THEN {right[l - 1]} ELSE {}

\* The path that is replaced, and the root.
LEMMA GraftFacts ==
    ASSUME NEW on, NEW T, NEW rt, NEW u, NEW path, NEW e, NEW K, NEW res, NEW left,
           NEW right, NEW top, NEW new, NEW S, NEW root2, NEW w,
           PutGrafts(on, T, rt, u, path, e, K, res, left, right, top, new, S, root2, w)
    PROVE  LET n == Len(path)
           IN  /\ Shape(on, T, rt, u) /\ n \in Nat /\ n >= 1 /\ e.key \in Key
               /\ path[n] = rt /\ T[rt].level = n
               /\ \A j \in 1 .. n : /\ path[j] \in DOMAIN T /\ T[path[j]].level = j
                                   /\ e.key \in u[path[j]]
               /\ \A j \in 1 .. n : Made(j, on, T, u, path, e, K, res, left, right, w)
               /\ root2 \in DOMAIN S /\ w[root2] = Key
               /\ S[root2].level = IF K = n THEN n + 1 ELSE n
               /\ S[root2].level \in 1 .. MaxHeight + 1 /\ n <= S[root2].level
               /\ MaxHeight \in Nat
<1> DEFINE n == Len(path)
<1>1. /\ Shape(on, T, rt, u) /\ n \in Nat /\ n >= 1 /\ e.key \in Key
      /\ path[n] = rt /\ T[rt].level = n
      /\ \A j \in 1 .. n : /\ path[j] \in DOMAIN T /\ T[path[j]].level = j
                          /\ e.key \in u[path[j]]
  BY ElementOfSeq DEF PutGrafts, PutsIn, IsWay, Entry
<1>2. \A j \in 1 .. n : Made(j, on, T, u, path, e, K, res, left, right, w)
  BY AllMade DEF PutGrafts
<1>3. MaxHeight \in Nat
  BY BoundAssumption
<1>4. CASE K = n
  <2>1. /\ root2 = top /\ top \in DOMAIN S /\ S[top].level = n + 1 /\ w[top] = Key
        /\ n + 1 <= MaxHeight + 1
    BY <1>4 DEF PutGrafts, Grafts
  <2> QED  BY <1>1, <1>2, <1>3, <1>4, <2>1
<1>5. CASE K # n
  <2>1. n \in 1 .. n /\ ~ (n <= K) /\ K \in 0 .. n
    BY <1>1, <1>5 DEF PutGrafts
  <2>2. /\ root2 = left[n] /\ left[n] \in DOMAIN S /\ S[left[n]].level = n
        /\ n <= MaxHeight + 1
    BY <1>5, <2>1 DEF PutGrafts, Grafts
  <2>3. w[left[n]] = u[path[n]]
    BY <2>1 DEF PutGrafts, Shares
  <2>4. u[rt] = Key
    BY <1>1 DEF Shape
  <2> QED  BY <1>1, <1>2, <1>3, <1>5, <2>2, <2>3, <2>4
<1> QED  BY <1>4, <1>5

\* A page of the tree that stays has no child on the path.
LEMMA KeptKids ==
    ASSUME NEW on, NEW T, NEW rt, NEW u, NEW path, NEW e, NEW K, NEW res, NEW left,
           NEW right, NEW top, NEW new, NEW S, NEW root2, NEW w,
           PutGrafts(on, T, rt, u, path, e, K, res, left, right, top, new, S, root2, w),
           NEW p \in DOMAIN T \ Range(path), T[p].level # 1, NEW c \in Kids(on[p])
    PROVE  c \in DOMAIN T \ Range(path) /\ T[c].level = T[p].level - 1
<1>1. /\ Shape(on, T, rt, u) /\ Len(path) \in Nat /\ T[rt].level = Len(path)
      /\ \A j \in 1 .. Len(path) : /\ path[j] \in DOMAIN T /\ T[path[j]].level = j
                                  /\ e.key \in u[path[j]]
  BY GraftFacts
<1>2. c \in DOMAIN T /\ T[c].level = T[p].level - 1 /\ u[c] \subseteq u[p]
  BY <1>1, KidsInTree
<1>3. T[p].level \in 1 .. Len(path)
  BY <1>1 DEF Shape, Fits
<1> SUFFICES ASSUME c \in Range(path) PROVE FALSE
  BY <1>2
<1>4. path \in Seq(DOMAIN T)
  BY DEF PutGrafts, PutsIn, IsWay
<1>5. PICK j \in 1 .. Len(path) : path[j] = c
  BY <1>4, RangeIs
<1>6. j = T[p].level - 1 /\ e.key \in u[p]
  BY <1>1, <1>2, <1>5
<1> DEFINE l == T[p].level
<1>7. l \in 1 .. Len(path)
  BY <1>3
<1>8. path[l] \in DOMAIN T /\ T[path[l]].level = l /\ e.key \in u[path[l]]
      /\ path[l] \in Range(path)
  BY <1>1, <1>4, <1>7, RangeIs
<1> HIDE DEF l
<1>9. path[l] # p
  BY <1>8
<1>10. u[path[l]] \cap u[p] = {}
  BY <1>1, <1>8, <1>9 DEF Shape, Apart, l
<1> QED  BY <1>6, <1>8, <1>10

\* The children of what replaces a page are on the level below it.
LEMMA KidsMadeIn ==
    ASSUME NEW on, NEW T, NEW rt, NEW u, NEW path, NEW e, NEW K, NEW res, NEW left,
           NEW right, NEW top, NEW new, NEW S, NEW root2, NEW w,
           PutGrafts(on, T, rt, u, path, e, K, res, left, right, top, new, S, root2, w),
           NEW l \in 1 .. Len(path), l # 1, NEW c \in KidsMade(l, on, path, K, left, right)
    PROVE  c \in DOMAIN S /\ S[c].level = l - 1
<1>1. /\ Shape(on, T, rt, u) /\ Len(path) \in Nat
      /\ \A j \in 1 .. Len(path) : path[j] \in DOMAIN T /\ T[path[j]].level = j
  BY GraftFacts
<1>2. l - 1 \in 1 .. Len(path) /\ l \in Nat
  BY <1>1
<1>3. Grafts(new, S, root2, on, T, path, K, res, left, right, top)
      /\ PutsIn(on, T, rt, u, path, e)
  BY DEF PutGrafts
<1>4. CASE c \in Kids(on[path[l]]) \ {path[l - 1]}
  <2> DEFINE n == on[path[l]]
             at == ChildIndex(n, e.key)
  <2>1. Junction(n, u[path[l]], at, path[l - 1], u, T, path)
    BY <1>3, JunctionIs
  <2> HIDE DEF at
  <2>2. c \in Others(n, at)
    BY <1>4, <2>1 DEF Junction
  <2>3. PICK i \in (1 .. Len(n.children)) \ {at + 1} : c = n.children[i]
    BY <2>2 DEF Others
  <2>4. c \in DOMAIN T \ Range(path)
    BY <2>1, <2>3 DEF Junction
  <2>5. T[c].level = l - 1
    <3>1. T[path[l]].level # 1 /\ path[l] \in DOMAIN T /\ T[path[l]].level = l
      BY <1>1
    <3>2. c \in Kids(on[path[l]])
      BY <1>4
    <3> QED  BY <1>1, <3>1, <3>2, KidsInTree
  <2> QED  BY <1>3, <2>4, <2>5 DEF Grafts
<1>5. CASE c = left[l - 1]
  BY <1>2, <1>3, <1>5 DEF Grafts
<1>6. CASE l - 1 <= K /\ c = right[l - 1]
  BY <1>2, <1>3, <1>6 DEF Grafts
<1> QED  BY <1>4, <1>5, <1>6 DEF KidsMade

\* Each of them is a child of what replaces it.
LEMMA KidsMadeOf ==
    ASSUME NEW on, NEW T, NEW rt, NEW u, NEW path, NEW e, NEW K, NEW res, NEW left,
           NEW right, NEW top, NEW new, NEW S, NEW root2, NEW w,
           PutGrafts(on, T, rt, u, path, e, K, res, left, right, top, new, S, root2, w),
           NEW l \in 1 .. Len(path), l # 1, NEW c \in KidsMade(l, on, path, K, left, right)
    PROVE  HasParent(c, new, S)
<1>1. Made(l, on, T, u, path, e, K, res, left, right, w) /\ l \in Nat
  BY GraftFacts
<1>2. Grafts(new, S, root2, on, T, path, K, res, left, right, top)
  BY DEF PutGrafts
<1>3. c \in DOMAIN S /\ S[c].level = l - 1
  BY KidsMadeIn
<1>4. S[c].level + 1 = l
  BY <1>1, <1>3
<1>5. left[l] \in DOMAIN S /\ S[left[l]].level = l /\ new[left[l]] = res[l].left
  BY <1>2 DEF Grafts
<1>6. CASE l <= K
  <2>1. right[l] \in DOMAIN S /\ S[right[l]].level = l /\ new[right[l]] = res[l].right
    BY <1>2, <1>6 DEF Grafts
  <2>2. Kids(res[l].left) \cup Kids(res[l].right) = KidsMade(l, on, path, K, left, right)
    BY <1>1, <1>6 DEF Made, KidsMade
  <2> QED  BY <1>4, <1>5, <2>1, <2>2 DEF HasParent
<1>7. CASE ~ (l <= K)
  <2>1. Kids(res[l].left) = KidsMade(l, on, path, K, left, right)
    BY <1>1, <1>7 DEF Made, KidsMade
  <2> QED  BY <1>4, <1>5, <2>1 DEF HasParent
<1> QED  BY <1>6, <1>7

\* A page that stays fits.
LEMMA KeptFits ==
    ASSUME NEW on, NEW T, NEW rt, NEW u, NEW path, NEW e, NEW K, NEW res, NEW left,
           NEW right, NEW top, NEW new, NEW S, NEW root2, NEW w,
           PutGrafts(on, T, rt, u, path, e, K, res, left, right, top, new, S, root2, w),
           NEW p \in DOMAIN T \ Range(path)
    PROVE  Fits(p, new, S, root2, w)
<1> DEFINE n == Len(path)
           l == T[p].level
<1>1. /\ Shape(on, T, rt, u) /\ n \in Nat /\ n >= 1
      /\ path[n] = rt /\ T[rt].level = n
      /\ \A j \in 1 .. n : path[j] \in DOMAIN T /\ T[path[j]].level = j
      /\ n <= S[root2].level /\ S[root2].level \in 1 .. MaxHeight + 1 /\ MaxHeight \in Nat
  BY GraftFacts
<1>2. /\ Grafts(new, S, root2, on, T, path, K, res, left, right, top)
      /\ Shares(w, T, u, path, K, res, left, right) /\ path \in Seq(DOMAIN T)
  BY DEF PutGrafts, PutsIn, IsWay
<1>3. Fits(p, on, T, rt, u)
  BY <1>1 DEF Shape
<1>4. /\ p \in DOMAIN S /\ S[p].level = l /\ w[p] = u[p]
      /\ p \in DOMAIN on /\ p \in DOMAIN new /\ new[p] = on[p]
  BY <1>2, <1>3 DEF Grafts, Shares, Fits, IsSound
<1>5. IsSound(p, new) /\ w[p] \subseteq Key
  BY <1>3, <1>4 DEF Fits, IsSound
<1>6. l \in 1 .. n /\ S[p].level \in 1 .. S[root2].level
  BY <1>1, <1>3, <1>4 DEF Fits
<1>7. Placed(on[p], u[p], l, T, u)
  BY <1>3 DEF Fits
<1>8. l # 1 => /\ Covers(on[p], u[p], w)
               /\ \A c \in Kids(on[p]) : c \in DOMAIN S /\ S[c].level = l - 1
  <2> SUFFICES ASSUME l # 1
               PROVE  /\ Covers(on[p], u[p], w)
                      /\ \A c \in Kids(on[p]) : c \in DOMAIN S /\ S[c].level = l - 1
    OBVIOUS
  <2>1. \A c \in Kids(on[p]) : c \in DOMAIN T \ Range(path) /\ T[c].level = l - 1
    BY KeptKids
  <2>2. \A c \in Kids(on[p]) : w[c] = u[c] /\ c \in DOMAIN S /\ S[c].level = l - 1
    BY <1>2, <2>1 DEF Grafts, Shares
  <2>3. Covers(on[p], u[p], u)
    BY <1>7 DEF Placed
  <2> QED  BY <2>2, <2>3, CoversKept
<1>9. Placed(new[p], w[p], S[p].level, S, w)
  BY <1>4, <1>7, <1>8 DEF Placed
<1>10. p # rt
  <2>1. rt \in Range(path)
    BY <1>1, <1>2, RangeIs
  <2> QED  BY <2>1
<1>11. Pieces(new[p]) >= 1
  BY <1>3, <1>4, <1>10 DEF Fits
<1>12. HasParent(p, new, S)
  <2>1. PICK q \in DOMAIN T : T[q].level = l + 1 /\ p \in Kids(on[q])
    BY <1>3, <1>10 DEF Fits, HasParent
  <2>2. CASE q \in Range(path)
    <3>1. PICK j \in 1 .. n : path[j] = q
      BY <1>2, <2>2, RangeIs
    <3>2. j = l + 1 /\ j # 1
      BY <1>1, <1>6, <2>1, <3>1
    <3>3. j - 1 \in 1 .. n
      BY <1>1, <3>2
    <3>4. path[j - 1] \in Range(path)
      BY <1>2, <3>3, RangeIs
    <3>5. p \in KidsMade(j, on, path, K, left, right)
      BY <2>1, <3>1, <3>4 DEF KidsMade
    <3> QED  BY <3>2, <3>5, KidsMadeOf
  <2>3. CASE q \notin Range(path)
    <3>1. q \in DOMAIN T /\ Fits(q, on, T, rt, u)
      BY <1>1 DEF Shape
    <3>2. q \in DOMAIN S /\ S[q].level = T[q].level /\ new[q] = on[q]
      BY <1>2, <2>3, <3>1 DEF Grafts, Fits, IsSound
    <3> QED  BY <1>4, <2>1, <3>2 DEF HasParent
  <2> QED  BY <2>2, <2>3
<1> QED  BY <1>5, <1>6, <1>9, <1>11, <1>12 DEF Fits

\* A page made for level j, in the place of the path's, fits.
LEMMA MadeFits ==
    ASSUME NEW on, NEW T, NEW rt, NEW u, NEW path, NEW e, NEW K, NEW res, NEW left,
           NEW right, NEW top, NEW new, NEW S, NEW root2, NEW w,
           PutGrafts(on, T, rt, u, path, e, K, res, left, right, top, new, S, root2, w),
           NEW j \in 1 .. Len(path), NEW p, p = left[j] \/ (j <= K /\ p = right[j])
    PROVE  Fits(p, new, S, root2, w)
<1> DEFINE n == Len(path)
           U == u[path[j]]
           r == res[j]
           node == new[p]
<1>1. /\ n \in Nat /\ n >= 1
      /\ path[n] = rt /\ T[rt].level = n
      /\ Made(j, on, T, u, path, e, K, res, left, right, w)
      /\ S[root2].level = (IF K = n THEN n + 1 ELSE n)
      /\ n <= S[root2].level /\ S[root2].level \in 1 .. MaxHeight + 1 /\ MaxHeight \in Nat
  BY GraftFacts
<1>2. /\ Grafts(new, S, root2, on, T, path, K, res, left, right, top) /\ K \in 0 .. n
      /\ Shares(w, T, u, path, K, res, left, right) /\ w \in [DOMAIN S -> SUBSET Key]
      /\ root2 = IF K = n THEN top ELSE left[n]
  BY DEF PutGrafts, Grafts
<1>3. /\ p \in DOMAIN S /\ S[p].level = j /\ p \in Ids /\ p \in DOMAIN new
      /\ p = left[j] => node = r.left
      /\ p = right[j] /\ p # left[j] => node = r.right
  BY <1>2 DEF Grafts
<1>4. w[p] \subseteq Key /\ p \in PageId
  BY <1>2, <1>3 DEF Ids, PageId
<1>5. Whole(node, w[p], j, w) /\ (p # root2 => NonEmpty(node))
  <2>1. CASE j <= K
    <3>1. /\ Whole(r.left, Below(U, r.sep), j, w) /\ NonEmpty(r.left)
          /\ Whole(r.right, From(U, r.sep), j, w) /\ NonEmpty(r.right)
      BY <1>1, <2>1 DEF Made
    <3>2. w[left[j]] = Below(U, r.sep) /\ w[right[j]] = From(U, r.sep)
      BY <1>2, <2>1 DEF Shares
    <3> QED  BY <1>3, <3>1, <3>2
  <2>2. CASE ~ (j <= K)
    <3>1. Whole(r.left, U, j, w) /\ (j # n => NonEmpty(r.left))
      BY <1>1, <2>2 DEF Made
    <3>2. w[left[j]] = U /\ p = left[j]
      BY <1>2, <2>2 DEF Shares
    <3>3. j = n => p = root2
      BY <1>1, <1>2, <2>2, <3>2
    <3> QED  BY <1>3, <3>1, <3>2, <3>3
  <2> QED  BY <2>1, <2>2
<1>6. ASSUME j # 1, NEW c \in Kids(node) PROVE c \in DOMAIN S /\ S[c].level = j - 1
  <2>1. c \in KidsMade(j, on, path, K, left, right)
    <3>1. CASE j <= K
      <4>1. Kids(r.left) \cup Kids(r.right) = KidsMade(j, on, path, K, left, right)
        BY <1>1, <1>6, <3>1 DEF Made, KidsMade
      <4> QED  BY <1>3, <1>6, <4>1
    <3>2. CASE ~ (j <= K)
      <4>1. Kids(r.left) = KidsMade(j, on, path, K, left, right)
        BY <1>1, <1>6, <3>2 DEF Made, KidsMade
      <4> QED  BY <1>3, <1>6, <3>2, <4>1
    <3> QED  BY <3>1, <3>2
  <2> QED  BY <1>6, <2>1, KidsMadeIn
<1>7. IsSound(p, new) /\ Placed(node, w[p], j, S, w)
  BY <1>3, <1>4, <1>5, <1>6 DEF IsSound, Placed, Whole
<1>8. p # root2 => HasParent(p, new, S)
  <2> SUFFICES ASSUME p # root2 PROVE HasParent(p, new, S)
    OBVIOUS
  <2>1. CASE j # n
    <3> DEFINE l == j + 1
    <3>1. l \in 1 .. n /\ l # 1 /\ l - 1 = j
      BY <1>1, <2>1
    <3> HIDE DEF l
    <3>2. p \in KidsMade(l, on, path, K, left, right)
      BY <3>1 DEF KidsMade
    <3> QED  BY <3>1, <3>2, KidsMadeOf
  <2>2. CASE j = n /\ K = n
    <3>1. /\ top \in DOMAIN S /\ S[top].level = n + 1
          /\ new[top] = NewRoot(res[n].sep, left[n], right[n])
      BY <1>2, <2>2 DEF Grafts
    <3>2. p \in {left[n], right[n]}
      BY <2>2
    <3>3. Kids(new[top]) = {left[n], right[n]}
      <4> DEFINE a == left[n]
                 b == right[n]
                 m == new[top]
      <4>1. m.children = <<a, b>>
        BY <3>1 DEF NewRoot, InternalOf
      <4> HIDE DEF a, b, m
      <4>2. 1 .. Len(m.children) = {1, 2} /\ m.children[1] = a /\ m.children[2] = b
        BY <4>1
      <4>3. Kids(m) = {a, b}
        BY <4>2 DEF Kids
      <4> QED  BY <4>3 DEF a, b, m
    <3> QED  BY <1>3, <2>2, <3>1, <3>2, <3>3 DEF HasParent
  <2>3. CASE j = n /\ K # n
    BY <1>1, <1>2, <2>3
  <2> QED  BY <2>1, <2>2, <2>3
<1>9. S[p].level \in 1 .. S[root2].level
  BY <1>1, <1>3
<1> QED  BY <1>3, <1>4, <1>5, <1>7, <1>8, <1>9 DEF Fits, NonEmpty

\* A new root fits.
LEMMA TopFits ==
    ASSUME NEW on, NEW T, NEW rt, NEW u, NEW path, NEW e, NEW K, NEW res, NEW left,
           NEW right, NEW top, NEW new, NEW S, NEW root2, NEW w,
           PutGrafts(on, T, rt, u, path, e, K, res, left, right, top, new, S, root2, w),
           K = Len(path)
    PROVE  Fits(top, new, S, root2, w)
<1> DEFINE n == Len(path)
           sep == res[n].sep
           a == left[n]
           b == right[n]
           node == new[top]
<1>1. /\ n \in Nat /\ n >= 1 /\ n \in 1 .. n /\ n <= K
      /\ Shape(on, T, rt, u) /\ path[n] = rt
      /\ Made(n, on, T, u, path, e, K, res, left, right, w)
  BY GraftFacts
<1>2. /\ Grafts(new, S, root2, on, T, path, K, res, left, right, top)
      /\ Shares(w, T, u, path, K, res, left, right)
      /\ root2 = top /\ w[top] = Key
  BY DEF PutGrafts, Grafts
<1>3. /\ top \in DOMAIN S /\ S[top].level = n + 1
      /\ top \in Ids /\ top \in DOMAIN new /\ node = NewRoot(sep, a, b)
  BY <1>2 DEF Grafts
<1>4. u[path[n]] = Key
  BY <1>1 DEF Shape
<1>5. sep \in Key /\ SepBytes(sep) <= MaxKvSize(PageSize) + 2
  BY <1>1, <1>4 DEF Made
<1>6. a \in Ids /\ b \in Ids /\ w[a] = Below(Key, sep) /\ w[b] = From(Key, sep)
  BY <1>1, <1>2, <1>4 DEF Shares
<1>7. a \in DOMAIN S /\ S[a].level = n /\ b \in DOMAIN S /\ S[b].level = n
  BY <1>1, <1>2 DEF Grafts
<1> DEFINE l == n + 1
<1>8. l \in Nat /\ l # 1 /\ l - 1 = n /\ l \in 1 .. l
  BY <1>1
<1> HIDE DEF l, a, b, sep
<1>9. Whole(node, Key, l, w) /\ NonEmpty(node) /\ Kids(node) = {a, b}
  BY <1>3, <1>5, <1>6, <1>8, NewRootHolds
<1>10. S[top].level = l
  BY <1>3 DEF l
<1>11. IsSound(top, new) /\ w[top] \subseteq Key
  BY <1>2, <1>3, <1>9 DEF IsSound, Whole, Ids, PageId
<1>12. Placed(node, w[top], l, S, w)
  BY <1>2, <1>7, <1>8, <1>9 DEF Placed, Whole
<1> QED  BY <1>2, <1>8, <1>10, <1>11, <1>12 DEF Fits

\* Where a page of the new tree comes from.
LEMMA OriginIs ==
    ASSUME NEW on, NEW T, NEW rt, NEW u, NEW path, NEW e, NEW K, NEW res, NEW left,
           NEW right, NEW top, NEW new, NEW S, NEW root2, NEW w,
           PutGrafts(on, T, rt, u, path, e, K, res, left, right, top, new, S, root2, w),
           NEW p \in DOMAIN S, S[p].level <= Len(path)
    PROVE  \/ p \in DOMAIN T \ Range(path) /\ T[p].level = S[p].level /\ w[p] = u[p]
           \/ \E j \in 1 .. Len(path) :
                 /\ j = S[p].level /\ path[j] \in DOMAIN T /\ path[j] \in Range(path)
                 /\ T[path[j]].level = j
                 /\ \/ p = left[j] /\ ~ (j <= K) /\ w[p] = u[path[j]]
                    \/ p = left[j] /\ j <= K /\ w[p] = Below(u[path[j]], res[j].sep)
                    \/ p = right[j] /\ j <= K /\ w[p] = From(u[path[j]], res[j].sep)
<1> DEFINE n == Len(path)
<1>1. /\ n \in Nat /\ \A j \in 1 .. n : path[j] \in DOMAIN T /\ T[path[j]].level = j
  BY GraftFacts
<1>2. /\ Grafts(new, S, root2, on, T, path, K, res, left, right, top)
      /\ Shares(w, T, u, path, K, res, left, right) /\ path \in Seq(DOMAIN T)
  BY DEF PutGrafts, PutsIn, IsWay
<1>3. CASE p \in DOMAIN T \ Range(path)
  BY <1>2, <1>3 DEF Grafts, Shares
<1>4. ASSUME NEW j \in 1 .. n, p = left[j] \/ (j <= K /\ p = right[j])
      PROVE  /\ j = S[p].level /\ path[j] \in DOMAIN T /\ path[j] \in Range(path)
             /\ T[path[j]].level = j
             /\ \/ p = left[j] /\ ~ (j <= K) /\ w[p] = u[path[j]]
                \/ p = left[j] /\ j <= K /\ w[p] = Below(u[path[j]], res[j].sep)
                \/ p = right[j] /\ j <= K /\ w[p] = From(u[path[j]], res[j].sep)
  <2>1. j = S[p].level
    BY <1>2, <1>4 DEF Grafts
  <2>2. path[j] \in Range(path)
    BY <1>2, RangeIs
  <2>3. \/ p = left[j] /\ ~ (j <= K) /\ w[p] = u[path[j]]
        \/ p = left[j] /\ j <= K /\ w[p] = Below(u[path[j]], res[j].sep)
        \/ p = right[j] /\ j <= K /\ w[p] = From(u[path[j]], res[j].sep)
    BY <1>2, <1>4 DEF Shares
  <2> QED  BY <1>1, <2>1, <2>2, <2>3
<1>5. CASE K = n /\ p = top
  BY <1>1, <1>2, <1>5 DEF Grafts
<1> QED
  <2>1. \/ p \in DOMAIN T \ Range(path)
        \/ \E j \in 1 .. n : p = left[j] \/ (j <= K /\ p = right[j])
        \/ K = n /\ p = top
    BY <1>2 DEF Grafts
  <2> QED  BY <1>3, <1>4, <1>5, <2>1

\* Pages of one level are still for different keys.
LEMMA GraftApart ==
    ASSUME NEW on, NEW T, NEW rt, NEW u, NEW path, NEW e, NEW K, NEW res, NEW left,
           NEW right, NEW top, NEW new, NEW S, NEW root2, NEW w,
           PutGrafts(on, T, rt, u, path, e, K, res, left, right, top, new, S, root2, w)
    PROVE  Apart(S, w)
<1> DEFINE n == Len(path)
<1>1. /\ n \in Nat /\ Shape(on, T, rt, u) /\ T[rt].level = n
      /\ \A j \in 1 .. n : Made(j, on, T, u, path, e, K, res, left, right, w)
      /\ \A j \in 1 .. n : path[j] \in DOMAIN T
  BY GraftFacts
<1>2. /\ Grafts(new, S, root2, on, T, path, K, res, left, right, top)
  BY DEF PutGrafts
<1> SUFFICES ASSUME NEW p \in DOMAIN S, NEW q \in DOMAIN S, p # q, S[p].level = S[q].level,
                    NEW k, k \in w[p], k \in w[q]
             PROVE  FALSE
  BY DEF Apart
<1> DEFINE l == S[p].level
<1>3. \/ l \in Nat /\ l <= n
      \/ l = n + 1 /\ p = top
  <2>1. CASE p \in DOMAIN T \ Range(path)
    <3>1. Fits(p, on, T, rt, u) /\ T[p].level = l
      BY <1>1, <1>2, <2>1 DEF Shape, Grafts
    <3> QED  BY <1>1, <3>1 DEF Fits
  <2>2. CASE \E j \in 1 .. n : p = left[j] \/ (j <= K /\ p = right[j])
    BY <1>1, <1>2, <2>2 DEF Grafts
  <2>3. CASE K = n /\ p = top
    BY <1>2, <2>3 DEF Grafts
  <2> QED  BY <1>2, <2>1, <2>2, <2>3 DEF Grafts
<1>4. CASE l \in Nat /\ l <= n
  <2> DEFINE In(x) == \/ x \in DOMAIN T \ Range(path) /\ T[x].level = l /\ w[x] = u[x]
                      \/ /\ l \in 1 .. n /\ path[l] \in DOMAIN T /\ path[l] \in Range(path)
                         /\ T[path[l]].level = l
                         /\ \/ x = left[l] /\ ~ (l <= K) /\ w[x] = u[path[l]]
                            \/ x = left[l] /\ l <= K /\ w[x] = Below(u[path[l]], res[l].sep)
                            \/ x = right[l] /\ l <= K /\ w[x] = From(u[path[l]], res[l].sep)
  <2>1. In(p)
    BY <1>4, OriginIs
  <2>2. In(q)
    BY <1>4, OriginIs
  <2>3. Apart(T, u)
    BY <1>1 DEF Shape
  <2> HIDE DEF l, n
  <2>4. CASE p \in DOMAIN T \ Range(path) /\ q \in DOMAIN T \ Range(path)
    <3>1. T[p].level = T[q].level \/ (l \in 1 .. n /\ p = left[l]) \/ (l \in 1 .. n /\ q = left[l])
          \/ (l \in 1 .. n /\ p = right[l] /\ l <= K) \/ (l \in 1 .. n /\ q = right[l] /\ l <= K)
      BY <2>1, <2>2
    <3>2. p \notin {left[j] : j \in 1 .. n} /\ q \notin {left[j] : j \in 1 .. n}
          /\ \A j \in 1 .. n : j <= K => p # right[j] /\ q # right[j]
      BY <1>2, <2>4 DEF Grafts, n
    <3>3. T[p].level = T[q].level /\ w[p] = u[p] /\ w[q] = u[q]
      BY <2>1, <2>2, <3>1, <3>2
    <3> QED  BY <2>3, <2>4, <3>3 DEF Apart
  <2>5. CASE p \in DOMAIN T \ Range(path) /\ q \notin DOMAIN T \ Range(path)
    <3>1. T[p].level = l /\ w[p] = u[p]
      BY <1>2, <2>1, <2>5 DEF Grafts, n
    <3>2. k \in u[path[l]] /\ path[l] \in DOMAIN T /\ T[path[l]].level = l /\ path[l] # p
      BY <2>2, <2>5 DEF Below, From
    <3> QED  BY <2>3, <2>5, <3>1, <3>2 DEF Apart
  <2>6. CASE p \notin DOMAIN T \ Range(path) /\ q \in DOMAIN T \ Range(path)
    <3>1. T[q].level = l /\ w[q] = u[q]
      BY <1>2, <2>2, <2>6 DEF Grafts, n
    <3>2. k \in u[path[l]] /\ path[l] \in DOMAIN T /\ T[path[l]].level = l /\ path[l] # q
      BY <2>1, <2>6 DEF Below, From
    <3> QED  BY <2>3, <2>6, <3>1, <3>2 DEF Apart
  <2>7. CASE p \notin DOMAIN T \ Range(path) /\ q \notin DOMAIN T \ Range(path)
    <3>1. l <= K /\ l \in 1 .. n /\ k < res[l].sep /\ res[l].sep <= k /\ k \in u[path[l]]
      BY <2>1, <2>2, <2>7 DEF Below, From
    <3>2. res[l].sep \in u[path[l]] /\ path[l] \in DOMAIN T
      BY <1>1, <3>1 DEF Made, n
    <3>3. u[path[l]] \subseteq Key
      BY <1>1, <3>2 DEF Shape, Fits
    <3>4. k \in Nat /\ res[l].sep \in Nat
      BY <3>1, <3>2, <3>3, KeyAssumption
    <3> QED  BY <3>1, <3>4
  <2> QED  BY <2>4, <2>5, <2>6, <2>7
<1>5. CASE l = n + 1 /\ p = top
  <2>1. CASE q \in DOMAIN T \ Range(path)
    <3>1. Fits(q, on, T, rt, u) /\ T[q].level = l
      BY <1>1, <1>2, <2>1 DEF Shape, Grafts
    <3> QED  BY <1>1, <1>5, <3>1 DEF Fits
  <2>2. CASE \E j \in 1 .. n : q = left[j] \/ (j <= K /\ q = right[j])
    <3>1. PICK j \in 1 .. n : q = left[j] \/ (j <= K /\ q = right[j])
      BY <2>2
    <3>2. S[q].level = j
      BY <1>2, <3>1 DEF Grafts
    <3>3. S[q].level = l
      OBVIOUS
    <3> HIDE DEF l, n
    <3>4. j = n + 1 /\ j <= n /\ j \in Nat /\ n \in Nat
      BY <1>1, <1>5, <3>2, <3>3 DEF n
    <3> QED  BY <3>4
  <2>3. CASE q = top
    BY <1>5, <2>3
  <2>4. \/ q \in DOMAIN T \ Range(path)
        \/ \E j \in 1 .. n : q = left[j] \/ (j <= K /\ q = right[j])
        \/ K = n /\ q = top
    BY <1>2 DEF Grafts
  <2> QED  BY <2>1, <2>2, <2>3, <2>4
<1> QED  BY <1>3, <1>4, <1>5

\* So the new tree has the shape of one.
LEMMA GraftShape ==
    ASSUME NEW on, NEW T, NEW rt, NEW u, NEW path, NEW e, NEW K, NEW res, NEW left,
           NEW right, NEW top, NEW new, NEW S, NEW root2, NEW w,
           PutGrafts(on, T, rt, u, path, e, K, res, left, right, top, new, S, root2, w)
    PROVE  Shape(new, S, root2, w)
<1>1. root2 \in DOMAIN S /\ w[root2] = Key /\ S[root2].level \in 1 .. MaxHeight + 1
  BY GraftFacts
<1>2. Grafts(new, S, root2, on, T, path, K, res, left, right, top)
  BY DEF PutGrafts
<1>3. ASSUME NEW p \in DOMAIN S PROVE Fits(p, new, S, root2, w)
  <2>1. CASE p \in DOMAIN T \ Range(path)
    BY <2>1, KeptFits
  <2>2. CASE \E j \in 1 .. Len(path) : p = left[j] \/ (j <= K /\ p = right[j])
    <3>1. PICK j \in 1 .. Len(path) : p = left[j] \/ (j <= K /\ p = right[j])
      BY <2>2
    <3> QED  BY <3>1, MadeFits
  <2>3. CASE K = Len(path) /\ p = top
    BY <2>3, TopFits
  <2> QED  BY <1>2, <2>1, <2>2, <2>3 DEF Grafts
<1>4. Apart(S, w)
  BY GraftApart
<1> QED  BY <1>1, <1>3, <1>4 DEF Shape

\* A map with one more entry, or one that is changed.
Updated(m, e) ==
    [k \in DOMAIN m \cup {e.key} |-> IF k = e.key THEN e.val ELSE m[k]]

\* The entries of a map for the keys of D.
EntriesOf(m, D) == {[key |-> k, val |-> m[k]] : k \in DOMAIN m \cap D}

\* A put changes no entries for other keys,
LEMMA EntriesKept ==
    ASSUME NEW m, NEW e, NEW D, e.key \notin D
    PROVE  EntriesOf(Updated(m, e), D) = EntriesOf(m, D)
<1> DEFINE v == Updated(m, e)
           Is(k, x) == [key |-> k, val |-> x]
<1>1. DOMAIN v \cap D = DOMAIN m \cap D
  BY DEF Updated
<1>2. \A k \in DOMAIN m \cap D : v[k] = m[k]
  BY DEF Updated
<1> HIDE DEF v, Is
<1>3. {Is(k, v[k]) : k \in DOMAIN v \cap D} = {Is(k, m[k]) : k \in DOMAIN m \cap D}
  BY <1>1, <1>2
<1> QED  BY <1>3 DEF EntriesOf, Is, v

\* and sets the one for its own.
LEMMA EntriesWith ==
    ASSUME NEW m, NEW e \in Entry, NEW D, e.key \in D
    PROVE  EntriesOf(Updated(m, e), D) = With(EntriesOf(m, D), e)
<1> DEFINE v == Updated(m, e)
           Is(k, x) == [key |-> k, val |-> x]
           before == {Is(k, m[k]) : k \in DOMAIN m \cap D}
           after == {Is(k, v[k]) : k \in DOMAIN v \cap D}
<1>1. /\ DOMAIN v = DOMAIN m \cup {e.key} /\ v[e.key] = e.val
      /\ \A k \in DOMAIN m : k # e.key => v[k] = m[k]
  BY DEF Updated
<1>2. e = Is(e.key, e.val)
  BY DEF Entry
<1>3. \A k, x : Is(k, x).key = k
  OBVIOUS
<1> HIDE DEF v, Is
<1>4. ASSUME NEW x \in after PROVE x \in With(before, e)
  <2>1. PICK k \in DOMAIN v \cap D : x = Is(k, v[k])
    BY <1>4
  <2>2. CASE k = e.key
    BY <1>1, <1>2, <2>1, <2>2 DEF With
  <2>3. CASE k # e.key
    <3>1. k \in DOMAIN m \cap D /\ x = Is(k, m[k])
      BY <1>1, <2>1, <2>3
    <3>2. x.key # e.key
      BY <1>3, <3>1, <2>3
    <3> QED  BY <3>1, <3>2 DEF With
  <2> QED  BY <2>2, <2>3
<1>5. ASSUME NEW x \in With(before, e) PROVE x \in after
  <2>1. CASE x = e
    BY <1>1, <1>2, <2>1
  <2>2. CASE x # e
    <3>1. x \in before /\ x.key # e.key
      BY <2>2 DEF With
    <3>2. PICK k \in DOMAIN m \cap D : x = Is(k, m[k])
      BY <3>1
    <3>3. k # e.key
      BY <1>3, <3>1, <3>2
    <3>4. k \in DOMAIN v \cap D /\ x = Is(k, v[k])
      BY <1>1, <3>2, <3>3
    <3> QED  BY <3>4
  <2> QED  BY <2>1, <2>2
<1>6. after = With(before, e)
  BY <1>4, <1>5
<1> QED  BY <1>6 DEF EntriesOf, Is, v

\* What of them is below a separator, and from it on.
LEMMA EntriesSplit ==
    ASSUME NEW m, NEW D, NEW sep
    PROVE  /\ {x \in EntriesOf(m, D) : x.key < sep} = EntriesOf(m, Below(D, sep))
           /\ {x \in EntriesOf(m, D) : sep <= x.key} = EntriesOf(m, From(D, sep))
<1> DEFINE Is(k) == [key |-> k, val |-> m[k]]
<1>1. \A k : Is(k).key = k
  OBVIOUS
<1> HIDE DEF Is
<1>3. /\ DOMAIN m \cap Below(D, sep) = {k \in DOMAIN m \cap D : k < sep}
      /\ DOMAIN m \cap From(D, sep) = {k \in DOMAIN m \cap D : sep <= k}
  BY DEF Below, From
<1>4. {x \in {Is(k) : k \in DOMAIN m \cap D} : x.key < sep}
        = {Is(k) : k \in DOMAIN m \cap Below(D, sep)}
  BY <1>1, <1>3
<1>5. {x \in {Is(k) : k \in DOMAIN m \cap D} : sep <= x.key}
        = {Is(k) : k \in DOMAIN m \cap From(D, sep)}
  BY <1>1, <1>3
<1> QED  BY <1>4, <1>5 DEF EntriesOf, Is

\* The new tree holds the map with the entry.
LEMMA GraftHolds ==
    ASSUME NEW on, NEW T, NEW rt, NEW u, NEW path, NEW e, NEW K, NEW res, NEW left,
           NEW right, NEW top, NEW new, NEW S, NEW root2, NEW w,
           PutGrafts(on, T, rt, u, path, e, K, res, left, right, top, new, S, root2, w),
           NEW m, Holds(m, on, T, u)
    PROVE  Holds(Updated(m, e), new, S, w)
<1> DEFINE v == Updated(m, e)
           n == Len(path)
           U == u[path[1]]
           r == res[1]
           held == With(Holding(on[path[1]]), e)
<1>1. /\ n \in Nat /\ n >= 1 /\ 1 \in 1 .. n /\ e.key \in Key
      /\ Shape(on, T, rt, u) /\ T[rt].level = n
      /\ \A j \in 1 .. n : /\ path[j] \in DOMAIN T /\ T[path[j]].level = j
                          /\ e.key \in u[path[j]]
      /\ \A j \in 1 .. n : Made(j, on, T, u, path, e, K, res, left, right, w)
  BY GraftFacts
<1>2. /\ Grafts(new, S, root2, on, T, path, K, res, left, right, top)
      /\ path \in Seq(DOMAIN T) /\ e \in Entry
  BY DEF PutGrafts, PutsIn, IsWay
<1>3. v = [k \in DOMAIN v |-> v[k]] /\ DOMAIN v \subseteq Key
  BY <1>1 DEF Updated, Holds
<1>4. \A p \in DOMAIN T : T[p].level = 1 => Holding(on[p]) = EntriesOf(m, u[p])
  BY DEF Holds, EntriesOf
<1>5. path[1] \in DOMAIN T /\ T[path[1]].level = 1 /\ e.key \in U
      /\ Made(1, on, T, u, path, e, K, res, left, right, w)
  BY <1>1
<1>6. held = EntriesOf(v, U)
  BY <1>2, <1>4, <1>5, EntriesWith
<1> HIDE DEF v, held
<1>7. ASSUME NEW p \in DOMAIN S, S[p].level = 1
      PROVE  Holding(new[p]) = EntriesOf(v, w[p])
  <2>1. CASE p \in DOMAIN T \ Range(path) /\ T[p].level = S[p].level /\ w[p] = u[p]
    <3>1. Fits(p, on, T, rt, u)
      BY <1>1, <2>1 DEF Shape
    <3>2. new[p] = on[p]
      BY <1>2, <2>1, <3>1 DEF Grafts, Fits, IsSound
    <3>3. path[1] \in Range(path)
      BY <1>1, <1>2, RangeIs
    <3>4. e.key \notin u[p]
      BY <1>1, <1>5, <1>7, <2>1, <3>3 DEF Shape, Apart
    <3>5. EntriesOf(v, u[p]) = EntriesOf(m, u[p])
      BY <3>4, EntriesKept DEF v
    <3> QED  BY <1>4, <1>7, <2>1, <3>2, <3>5
  <2>2. CASE p = left[1] /\ ~ (1 <= K) /\ w[p] = U
    <3>1. Holding(r.left) = held
      BY <1>5, <2>2 DEF Made, held
    <3>2. new[p] = r.left
      BY <1>1, <1>2, <2>2 DEF Grafts
    <3> QED  BY <1>6, <2>2, <3>1, <3>2
  <2>3. CASE p = left[1] /\ 1 <= K /\ w[p] = Below(U, r.sep)
    <3>1. Holding(r.left) = {x \in held : x.key < r.sep}
      BY <1>5, <2>3 DEF Made, held
    <3>2. new[p] = r.left
      BY <1>1, <1>2, <2>3 DEF Grafts
    <3>3. {x \in EntriesOf(v, U) : x.key < r.sep} = EntriesOf(v, Below(U, r.sep))
      BY EntriesSplit
    <3> HIDE DEF U, r
    <3> QED  BY <1>6, <2>3, <3>1, <3>2, <3>3
  <2>4. CASE p = right[1] /\ 1 <= K /\ w[p] = From(U, r.sep)
    <3>1. Holding(r.right) = {x \in held : r.sep <= x.key}
      BY <1>5, <2>4 DEF Made, held
    <3>2. new[p] = r.right
      BY <1>1, <1>2, <2>4 DEF Grafts
    <3>3. {x \in EntriesOf(v, U) : r.sep <= x.key} = EntriesOf(v, From(U, r.sep))
      BY EntriesSplit
    <3> HIDE DEF U, r
    <3> QED  BY <1>6, <2>4, <3>1, <3>2, <3>3
  <2>5. S[p].level <= n
    BY <1>1, <1>7
  <2>6. \/ p \in DOMAIN T \ Range(path) /\ T[p].level = S[p].level /\ w[p] = u[p]
        \/ \E j \in 1 .. n :
              /\ j = S[p].level
              /\ \/ p = left[j] /\ ~ (j <= K) /\ w[p] = u[path[j]]
                 \/ p = left[j] /\ j <= K /\ w[p] = Below(u[path[j]], res[j].sep)
                 \/ p = right[j] /\ j <= K /\ w[p] = From(u[path[j]], res[j].sep)
    BY <2>5, OriginIs
  <2> QED  BY <1>7, <2>1, <2>2, <2>3, <2>4, <2>6
<1>8. Holds(v, new, S, w)
  BY <1>3, <1>7 DEF Holds, EntriesOf
<1> QED  BY <1>8 DEF v

\* What a put makes of a tree.
LEMMA GraftMakes ==
    ASSUME NEW on, NEW T, NEW rt, NEW u, NEW path, NEW e, PutsIn(on, T, rt, u, path, e),
           NEW m, Holds(m, on, T, u),
           NEW K \in 0 .. Len(path), NEW res, NEW left, NEW right, NEW top,
           Len(path) \in Nat, Len(path) >= 1,
           Results(res, on, path, e, K, left, right), NEW new, NEW S, NEW root2,
           Grafts(new, S, root2, on, T, path, K, res, left, right, top)
    PROVE  HasTree(Updated(m, e), new, S, root2)
<1>1. PICK w \in [DOMAIN S -> SUBSET Key] :
              Shares(w, T, u, path, K, res, left, right) /\ (K = Len(path) => w[top] = Key)
  BY GraftShares
<1>2. PutGrafts(on, T, rt, u, path, e, K, res, left, right, top, new, S, root2, w)
  BY <1>1 DEF PutGrafts
<1>3. Shape(new, S, root2, w) /\ Holds(Updated(m, e), new, S, w)
  BY <1>2, GraftShape, GraftHolds
<1> QED  BY <1>3 DEF HasTree

---------------------------------------------------------------------------
(* The pages that a put takes.                                             *)

\* However many it asks for, it is given the same ones first.
LEMMA AllocPrefix ==
    ASSUME ListTypes, NEW n \in Nat, NEW m \in Nat, n <= m, NEW i \in 1 .. n
    PROVE  Alloc(n)[i] = Alloc(m)[i]
<1>1. Len(free_list) \in Nat
  BY LenProperties DEF ListTypes
<1>2. i \in 1 .. m
  OBVIOUS
<1>3. (i <= FromFree(n)) <=> (i <= FromFree(m))
  BY <1>1 DEF FromFree
<1>4. CASE i <= FromFree(n)
  BY <1>2, <1>3, <1>4, AllocIs
<1>5. CASE ~ (i <= FromFree(n))
  <2>1. FromFree(n) = FromFree(m)
    BY <1>1, <1>5 DEF FromFree
  <2> QED  BY <1>2, <1>3, <1>5, <2>1, AllocIs
<1> QED  BY <1>4, <1>5

\* It is given no page twice.
LEMMA AllocDistinct ==
    ASSUME ListTypes, Distinct(free_list), Under(Range(free_list), next_page_id), NEW n \in Nat
    PROVE  Distinct(Alloc(n))
<1> DEFINE new == Alloc(n)
           f == FromFree(n)
<1>1. Len(free_list) \in Nat /\ next_page_id \in Nat /\ free_list \in Seq(PageId)
  BY LenProperties DEF ListTypes
<1>2. /\ Len(new) = n /\ f \in Nat /\ f <= n /\ f <= Len(free_list)
      /\ \A i \in 1 .. n : i <= f =>
            /\ Len(free_list) - i + 1 \in 1 .. Len(free_list)
            /\ new[i] = free_list[Len(free_list) - i + 1]
      /\ \A i \in 1 .. n : ~ (i <= f) => new[i] = next_page_id + (i - f) - 1
  BY AllocIs
<1> HIDE DEF new, f
<1>3. ASSUME NEW i \in 1 .. n, i <= f PROVE new[i] < next_page_id /\ new[i] \in Nat
  <2>1. new[i] \in Range(free_list)
    BY <1>1, <1>2, <1>3, RangeIs
  <2> QED  BY <1>1, <2>1, RangeIs DEF Under, PageId
<1>4. ASSUME NEW i \in 1 .. n, ~ (i <= f) PROVE new[i] >= next_page_id /\ new[i] \in Nat
  BY <1>1, <1>2, <1>4
<1> SUFFICES ASSUME NEW i \in 1 .. n, NEW j \in 1 .. n, new[i] = new[j] PROVE i = j
  BY <1>2 DEF Distinct, new
<1>5. CASE i <= f /\ j <= f
  <2> DEFINE a == Len(free_list) - i + 1
             b == Len(free_list) - j + 1
  <2>1. /\ a \in 1 .. Len(free_list) /\ b \in 1 .. Len(free_list)
        /\ free_list[a] = free_list[b]
    BY <1>2, <1>5
  <2> HIDE DEF a, b
  <2>2. a = b
    BY <2>1 DEF Distinct
  <2> QED  BY <1>1, <2>2 DEF a, b
<1>6. CASE ~ (i <= f) /\ ~ (j <= f)
  <2>1. next_page_id + (i - f) - 1 = next_page_id + (j - f) - 1
    BY <1>2, <1>6
  <2> QED  BY <1>1, <1>2, <2>1
<1>7. CASE i <= f /\ ~ (j <= f)
  BY <1>1, <1>3, <1>4, <1>7
<1>8. CASE ~ (i <= f) /\ j <= f
  BY <1>1, <1>3, <1>4, <1>8
<1> QED  BY <1>5, <1>6, <1>7, <1>8

\* Which of all places is for what is made for a level, when the lowest K of n
\* nodes split; all of them are; and levels rise with them.
HasPlace(n, K, all) ==
    \A j \in 1 .. n : /\ LeftAt(j, K) \in 1 .. all /\ LevelOf(LeftAt(j, K), K) = j
                      /\ j <= K => /\ 2 * j \in 1 .. all /\ LevelOf(2 * j, K) = j
                                   /\ 2 * j # LeftAt(j, K)

NoOther(n, K, all) ==
    \A i \in 1 .. all : \/ \E j \in 1 .. n : i = LeftAt(j, K) \/ (j <= K /\ i = 2 * j)
                        \/ K = n /\ i = all

LevelsRise(K, all) == \A i, j \in 1 .. all : i <= j => LevelOf(i, K) <= LevelOf(j, K)

\* Places and levels, for a path of n levels of which the lowest K split.
LEMMA LevelsAre ==
    ASSUME NEW n \in Nat, n >= 1, NEW K \in 0 .. n, NEW all,
           all = n + K + IF K = n THEN 1 ELSE 0
    PROVE  /\ all \in Nat /\ all <= 2 * n + 1 /\ all >= 1
           /\ K = n => all = 2 * n + 1 /\ LevelOf(all, K) = n + 1
           /\ K # n => all = LeftAt(n, K)
           /\ HasPlace(n, K, all) /\ NoOther(n, K, all) /\ LevelsRise(K, all)
<1>1. all \in Nat /\ all <= 2 * n + 1 /\ all >= 1
  OBVIOUS
<1>2. ASSUME NEW j \in 1 .. n
      PROVE  /\ LeftAt(j, K) \in 1 .. all /\ LevelOf(LeftAt(j, K), K) = j
             /\ j <= K => /\ 2 * j \in 1 .. all /\ LevelOf(2 * j, K) = j
                          /\ 2 * j # LeftAt(j, K)
  <2>1. CASE j <= K
    <3>1. LeftAt(j, K) = 2 * j - 1
      BY <2>1 DEF LeftAt
    <3>2. 2 * j - 1 <= 2 * K /\ 2 * j <= 2 * K /\ 2 * j \in 1 .. all /\ 2 * j - 1 \in 1 .. all
      BY <2>1
    <3>3. ((2 * j - 1) + 1) \div 2 = j /\ (2 * j + 1) \div 2 = j /\ 2 * j # 2 * j - 1
      OBVIOUS
    <3> QED  BY <2>1, <3>1, <3>2, <3>3 DEF LevelOf
  <2>2. CASE ~ (j <= K)
    <3>1. LeftAt(j, K) = j + K
      BY <2>2 DEF LeftAt
    <3>2. ~ (j + K <= 2 * K) /\ (j + K) - K = j /\ j + K \in 1 .. all
      BY <2>2
    <3> QED  BY <2>2, <3>1, <3>2 DEF LevelOf
  <2> QED  BY <2>1, <2>2
<1>3. K = n => all = 2 * n + 1 /\ LevelOf(all, K) = n + 1
  BY DEF LevelOf
<1>4. K # n => all = LeftAt(n, K)
  BY DEF LeftAt
<1>5. ASSUME NEW i \in 1 .. all
      PROVE  \/ \E j \in 1 .. n : i = LeftAt(j, K) \/ (j <= K /\ i = 2 * j)
             \/ K = n /\ i = all
  <2>1. CASE i <= 2 * K
    <3> DEFINE j == (i + 1) \div 2
    <3>1. j \in 1 .. n /\ j <= K /\ (i = 2 * j \/ i = 2 * j - 1)
      BY <2>1
    <3> HIDE DEF j
    <3> QED  BY <3>1 DEF LeftAt
  <2>2. CASE ~ (i <= 2 * K) /\ ~ (K = n /\ i = all)
    <3> DEFINE j == i - K
    <3>1. j \in 1 .. n /\ ~ (j <= K) /\ i = j + K
      BY <2>2
    <3> HIDE DEF j
    <3> QED  BY <3>1 DEF LeftAt
  <2> QED  BY <2>1, <2>2
<1>6. ASSUME NEW i \in 1 .. all, NEW j \in 1 .. all, i <= j
      PROVE  LevelOf(i, K) <= LevelOf(j, K)
  <2>1. CASE j <= 2 * K
    <3>1. i <= 2 * K /\ (i + 1) \div 2 <= (j + 1) \div 2
      BY <1>6, <2>1
    <3> QED  BY <2>1, <3>1 DEF LevelOf
  <2>2. CASE i <= 2 * K /\ ~ (j <= 2 * K)
    <3>1. (i + 1) \div 2 <= K /\ K <= j - K
      BY <2>2
    <3>2. (i + 1) \div 2 <= j - K
      BY <3>1
    <3> QED  BY <2>2, <3>2 DEF LevelOf
  <2>3. CASE ~ (i <= 2 * K) /\ ~ (j <= 2 * K)
    BY <1>6, <2>3 DEF LevelOf
  <2> QED  BY <1>6, <2>1, <2>2, <2>3
<1> QED  BY <1>1, <1>2, <1>3, <1>4, <1>5, <1>6 DEF HasPlace, NoOther, LevelsRise

\* The put's tree, by the places of its new pages.
LEMMA PutTree ==
    ASSUME ListTypes, TreeTypes, StateTypes, NEW path \in Paths, NEW k \in 0 .. Height,
           BeginPutOn(path, k), Distinct(Alloc(Copies(k)))
    PROVE  LET new == Alloc(Copies(k))
           IN  /\ \A i \in 1 .. Len(new) : /\ new[i] \in DOMAIN txn'.tree
                                          /\ txn'.tree[new[i]].level = LevelOf(i, k)
               /\ txn'.root = new[Len(new)]
               /\ LevelOf(Len(new), k) <= MaxHeight
<1> DEFINE new == Alloc(Copies(k))
           place(p) == CHOOSE i \in 1 .. Len(new) : new[i] = p
           kept == [p \in DOMAIN tree \ Range(path) |-> tree[p]]
           added == [p \in Range(new) |-> Node(txns + 1, LevelOf(place(p), k))]
           all == [p \in DOMAIN kept \cup DOMAIN added |->
                      IF p \in DOMAIN added THEN added[p] ELSE kept[p]]
<1>1. /\ LevelOf(Len(new), k) <= MaxHeight
      /\ txn' = [NoTxn EXCEPT !.root = new[Len(new)], !.tree = all, !.writes = new,
                              !.freed = path]
  BY DEF BeginPutOn
<1>2. new \in Seq(PageId)
  BY PutBegun
<1> HIDE DEF new, all
<1>3. txn'.root = new[Len(new)] /\ txn'.tree = all
  BY <1>1 DEF NoTxn
<1>4. ASSUME NEW i \in 1 .. Len(new)
      PROVE  new[i] \in DOMAIN all /\ all[new[i]].level = LevelOf(i, k)
  <2>1. new[i] \in Range(new)
    BY <1>2, RangeIs
  <2>2. place(new[i]) = i
    BY DEF Distinct, new
  <2>3. added[new[i]] = Node(txns + 1, LevelOf(i, k))
    BY <2>1, <2>2
  <2>4. DOMAIN added = Range(new)
    OBVIOUS
  <2> HIDE DEF added, kept, place
  <2>5. new[i] \in DOMAIN all /\ all[new[i]] = added[new[i]]
    BY <2>1, <2>4 DEF all
  <2> QED  BY <2>3, <2>5 DEF Node
<1> QED  BY <1>1, <1>3, <1>4 DEF new

\* The nodes of a file with those of a buffer over them.
Over(on, buffer) ==
    [p \in DOMAIN on \cup DOMAIN buffer |-> IF p \in DOMAIN buffer THEN buffer[p] ELSE on[p]]

\* The levels of a put's pages, in the order in which they are written.
Ascending(writes, T) ==
    \A i, j \in 1 .. Len(writes) : i <= j => T[writes[i]].level <= T[writes[j]].level

\* What a put has begun with.
PutStarts(e) ==
    /\ HasTree(Updated(map, e), Over(nodes, fresh'), txn'.tree, txn'.root)
    /\ DOMAIN fresh' = Range(txn'.writes)
    /\ Ascending(txn'.writes, txn'.tree)
    /\ DOMAIN txn'.tree \subseteq DOMAIN tree \cup Range(txn'.writes)

\* The path for a key is one that a put may replace.
LEMMA PathMayGo ==
    ASSUME TypesHold, IsOpen, NEW u, Shape(nodes, tree, root, u), NEW key \in Key
    PROVE  LET path == PathUp(nodes, root, key)
           IN  /\ path \in Paths /\ Len(path) = Height /\ Height \in Nat /\ Height >= 1
               /\ IsWay(path, nodes, tree, root, key)
               /\ \A l \in 1 .. Len(path) : key \in u[path[l]]
<1> DEFINE path == PathUp(nodes, root, key)
<1>1. /\ IsWay(path, nodes, tree, root, key)
      /\ \A l \in 1 .. Len(path) : key \in u[path[l]]
  BY PathInTree
<1> HIDE DEF path
<1>2. /\ path \in Seq(DOMAIN tree) /\ Len(path) = Height
      /\ \A l \in 1 .. Len(path) : tree[path[l]].level = l
  BY <1>1 DEF IsWay, Height
<1>3. path \in [1 .. Height -> DOMAIN tree]
  BY <1>2, LenProperties
<1>4. path \in Paths
  BY <1>2, <1>3 DEF Paths
<1>5. Height \in Nat /\ Height >= 1
  BY <1>4, PathIs DEF TypesHold
<1> QED  BY <1>1, <1>2, <1>4, <1>5 DEF path

\* A put that begins on a sound tree has built the tree that holds its entry,
\* on a path and with splits that the store allows.
LEMMA PutBuilds ==
    ASSUME TypesHold, Sound, NEW e \in Entry, PutEntry(e),
           NEW u, Shape(nodes, tree, root, u), Holds(map, nodes, tree, u)
    PROVE  PutStarts(e) /\ \E path \in Paths : \E k \in 0 .. Height : BeginPutOn(path, k)
<1>0. ListTypes /\ TreeTypes /\ StateTypes
  BY DEF TypesHold
<1>1. /\ pc = "idle" /\ CheckLimits(PageSize, e.key, e.val) /\ IsOpen
      /\ e.key \in Key
  BY DEF PutEntry, IsOpen, Entry
<1> DEFINE path == PathUp(nodes, root, e.key)
           n == Len(path)
           pages == Alloc(2 * n + 1)
           top == Inserted(path, e, pages)
           built == ToWrite(top, pages)
           left(K) == [j \in 1 .. n |-> pages[LeftAt(j, K)]]
           right == [j \in 1 .. n |-> pages[2 * j]]
<1>2. /\ BeginPutOn(path, top.splits)
      /\ fresh' = [p \in {pages[i] : i \in 1 .. Len(built)} |->
                      built[CHOOSE i \in 1 .. Len(built) : pages[i] = p]]
  BY DEF PutEntry
<1>3. /\ path \in Paths /\ n = Height /\ n \in Nat /\ n >= 1
      /\ IsWay(path, nodes, tree, root, e.key)
      /\ \A l \in 1 .. n : e.key \in u[path[l]]
  BY <1>1, PathMayGo
<1>4. PutsIn(nodes, tree, root, u, path, e)
  BY <1>1, <1>3 DEF PutsIn
<1> HIDE DEF path
<1>5. PICK K \in 0 .. n : \E res :
         /\ top.splits = K
         /\ Results(res, nodes, path, e, K, left(K), right)
         /\ Len(built) = n + K + IF K = n THEN 1 ELSE 0
         /\ InPlace(res, built, n, K)
         /\ K = n => built[2 * n + 1] = NewRoot(res[n].sep, pages[2 * n - 1], pages[2 * n])
  BY <1>3, BuiltIs
<1>6. PICK res :
         /\ top.splits = K
         /\ Results(res, nodes, path, e, K, left(K), right)
         /\ Len(built) = n + K + IF K = n THEN 1 ELSE 0
         /\ InPlace(res, built, n, K)
         /\ K = n => built[2 * n + 1] = NewRoot(res[n].sep, pages[2 * n - 1], pages[2 * n])
  BY <1>5
<1> HIDE DEF top, built
<1> DEFINE all == Copies(K)
           new == Alloc(all)
           buf == fresh'
<1>7. all = n + K + (IF K = n THEN 1 ELSE 0) /\ Len(built) = all
  BY <1>3, <1>6 DEF Copies
<1> HIDE DEF all
<1>8. /\ all \in Nat /\ all <= 2 * n + 1 /\ all >= 1
      /\ K = n => all = 2 * n + 1 /\ LevelOf(all, K) = n + 1
      /\ K # n => all = LeftAt(n, K)
  BY <1>3, <1>7, LevelsAre
<1>32. HasPlace(n, K, all) /\ NoOther(n, K, all) /\ LevelsRise(K, all)
  BY <1>3, <1>7, LevelsAre
<1>9. \A i \in 1 .. all : pages[i] = new[i]
  BY <1>0, <1>3, <1>8, AllocPrefix
<1>10. BeginPutOn(path, K) /\ K \in 0 .. Height
  BY <1>2, <1>3, <1>6
<1>11. /\ new \in Seq(PageId) /\ Len(new) = all
       /\ DOMAIN txn'.tree = (DOMAIN tree \ Range(path)) \cup Range(new)
       /\ \A p \in DOMAIN tree \ Range(path) : p \notin Range(new) => txn'.tree[p] = tree[p]
       /\ txn'.writes = new
  BY <1>0, <1>3, <1>10, PutBegun DEF all
<1>12. Distinct(new)
  <2>1. Distinct(free_list) /\ Under(Range(free_list), next_page_id)
    BY <1>1 DEF Sound, Booting, ListsApart
  <2> QED  BY <1>0, <1>8, <2>1, AllocDistinct
<1>13. /\ \A i \in 1 .. all : /\ new[i] \in DOMAIN txn'.tree
                             /\ txn'.tree[new[i]].level = LevelOf(i, K)
       /\ txn'.root = new[all]
       /\ LevelOf(all, K) <= MaxHeight
  BY <1>0, <1>3, <1>10, <1>11, <1>12, PutTree DEF all
<1>14. Range(new) \cap DOMAIN tree = {} /\ Range(new) = {new[i] : i \in 1 .. all}
  <2>1. Sound' /\ pc' = "writing" /\ tree' = tree
    BY <1>3, <1>10, BeginPutSound DEF BeginPutOn
  <2>2. Range(new) \cap DOMAIN tree = {}
    BY <1>11, <2>1 DEF Sound, Booting, PutApart, PutUnderWay
  <2> QED  BY <1>11, <2>2, RangeIs
<1> HIDE DEF new, buf, pages
<1>15. DOMAIN buf = Range(new) /\ \A i \in 1 .. all : buf[new[i]] = built[i]
  <2>1. {pages[i] : i \in 1 .. Len(built)} = Range(new)
    BY <1>7, <1>9, <1>14
  <2>2. buf = [p \in Range(new) |-> built[CHOOSE i \in 1 .. Len(built) : pages[i] = p]]
    BY <1>2, <2>1 DEF buf, pages
  <2>3. ASSUME NEW i \in 1 .. all PROVE buf[new[i]] = built[i]
    <3>1. (CHOOSE x \in 1 .. Len(built) : pages[x] = new[i]) = i
      BY <1>7, <1>9, <1>11, <1>12 DEF Distinct
    <3>2. new[i] \in Range(new)
      BY <1>14
    <3> QED  BY <2>2, <3>1, <3>2
  <2> QED  BY <2>2, <2>3
<1> DEFINE over == Over(nodes, buf)
           S == txn'.tree
           one == left(K)
           last == new[all]
<1>16. /\ \A p \in DOMAIN nodes : p \notin Range(new) => p \in DOMAIN over /\ over[p] = nodes[p]
       /\ \A i \in 1 .. all : new[i] \in DOMAIN over /\ over[new[i]] = built[i]
  BY <1>14, <1>15 DEF Over
<1> HIDE DEF over, buf
<1>17. ASSUME NEW i \in 1 .. all
       PROVE  /\ new[i] \in DOMAIN S \ DOMAIN tree /\ S[new[i]].level = LevelOf(i, K)
              /\ new[i] \in Ids /\ new[i] \in DOMAIN over /\ over[new[i]] = built[i]
  <2>1. new[i] \in Range(new) /\ new[i] \in PageId
    BY <1>11, <1>14, RangeIs
  <2> QED  BY <1>13, <1>14, <1>16, <2>1 DEF Ids, PageId
<1>18. ASSUME NEW j \in 1 .. n
       PROVE  /\ one[j] = new[LeftAt(j, K)] /\ built[LeftAt(j, K)] = res[j].left
              /\ j <= K => right[j] = new[2 * j] /\ built[2 * j] = res[j].right
  <2>1. LeftAt(j, K) \in 1 .. all /\ (j <= K => 2 * j \in 1 .. all)
    BY <1>32 DEF HasPlace
  <2> QED  BY <1>6, <1>9, <2>1 DEF InPlace
<1> HIDE DEF one, right
<1>19. ASSUME NEW j \in 1 .. n
       PROVE  /\ one[j] \in DOMAIN S \ DOMAIN tree /\ S[one[j]].level = j
              /\ one[j] \in Ids /\ one[j] \in DOMAIN over /\ over[one[j]] = res[j].left
  <2> DEFINE i == LeftAt(j, K)
  <2>1. i \in 1 .. all /\ LevelOf(i, K) = j /\ one[j] = new[i] /\ built[i] = res[j].left
    BY <1>18, <1>32 DEF HasPlace
  <2> HIDE DEF i
  <2> QED  BY <1>17, <2>1
<1>20. ASSUME NEW j \in 1 .. n, j <= K
       PROVE  /\ right[j] \in DOMAIN S \ DOMAIN tree /\ S[right[j]].level = j
              /\ right[j] \in Ids /\ right[j] \in DOMAIN over /\ over[right[j]] = res[j].right
              /\ right[j] # one[j]
  <2> DEFINE i == 2 * j
             h == LeftAt(j, K)
  <2>1. /\ i \in 1 .. all /\ LevelOf(i, K) = j /\ right[j] = new[i] /\ built[i] = res[j].right
        /\ h \in 1 .. all /\ one[j] = new[h] /\ i # h
    BY <1>18, <1>20, <1>32 DEF HasPlace
  <2> HIDE DEF i, h
  <2> QED  BY <1>11, <1>12, <1>17, <2>1 DEF Distinct
<1>21. ASSUME K = n
       PROVE  /\ last \in DOMAIN S \ DOMAIN tree /\ S[last].level = n + 1
              /\ last \in Ids /\ last \in DOMAIN over
              /\ over[last] = NewRoot(res[n].sep, one[n], right[n])
  <2>1. all \in 1 .. all /\ all = 2 * n + 1 /\ LevelOf(all, K) = n + 1
    BY <1>8, <1>21
  <2>2. n \in 1 .. n /\ n <= K
    BY <1>3, <1>21
  <2>3. LeftAt(n, K) = 2 * n - 1
    BY <2>2 DEF LeftAt
  <2>4. 2 * n - 1 \in 1 .. all /\ 2 * n \in 1 .. all
    BY <1>32, <2>2, <2>3 DEF HasPlace
  <2>5. pages[2 * n - 1] = new[2 * n - 1] /\ pages[2 * n] = new[2 * n]
    BY <1>9, <2>4
  <2>6. one[n] = new[2 * n - 1] /\ right[n] = new[2 * n]
    BY <1>18, <2>2, <2>3
  <2>7. built[all] = NewRoot(res[n].sep, one[n], right[n])
    BY <1>6, <1>21, <2>1, <2>5, <2>6
  <2> QED  BY <1>17, <2>1, <2>7
<1>22. ASSUME NEW p \in DOMAIN tree \ Range(path)
       PROVE  /\ p \in DOMAIN S /\ S[p].level = tree[p].level
              /\ p \in DOMAIN nodes => p \in DOMAIN over /\ over[p] = nodes[p]
  BY <1>11, <1>14, <1>16
<1>23. ASSUME NEW p \in DOMAIN S
       PROVE  \/ p \in DOMAIN tree \ Range(path)
              \/ \E j \in 1 .. n : p = one[j] \/ (j <= K /\ p = right[j])
              \/ K = n /\ p = last
  <2>1. CASE p \in Range(new)
    <3>1. PICK i \in 1 .. all : p = new[i]
      BY <1>14, <2>1
    <3>2. CASE K = n /\ i = all
      BY <3>1, <3>2
    <3>3. CASE \E j \in 1 .. n : i = LeftAt(j, K) \/ (j <= K /\ i = 2 * j)
      <4>1. PICK j \in 1 .. n : i = LeftAt(j, K) \/ (j <= K /\ i = 2 * j)
        BY <3>3
      <4> QED  BY <1>18, <3>1, <4>1
    <3> QED  BY <1>32, <3>1, <3>2, <3>3 DEF NoOther
  <2> QED  BY <1>11, <2>1
<1>24. txn'.root = IF K = n THEN last ELSE one[n]
  <2>1. CASE K = n
    BY <1>13, <2>1
  <2>2. CASE K # n
    <3>1. all = LeftAt(n, K) /\ n \in 1 .. n
      BY <1>3, <1>8, <2>2
    <3>2. one[n] = new[all]
      BY <1>18, <3>1
    <3> QED  BY <1>13, <2>2, <3>2
  <2> QED  BY <2>1, <2>2
<1>25. n <= MaxHeight + 1 /\ (K = n => n + 1 <= MaxHeight + 1)
  <2>1. MaxHeight \in Nat
    BY BoundAssumption
  <2>2. CASE K = n
    BY <1>3, <1>8, <1>13, <2>1, <2>2
  <2>3. CASE K # n
    <3>1. all = LeftAt(n, K) /\ n \in 1 .. n
      BY <1>3, <1>8, <2>3
    <3>2. LevelOf(all, K) = n
      BY <1>32, <3>1 DEF HasPlace
    <3> QED  BY <1>3, <1>13, <2>1, <2>3, <3>2
  <2> QED  BY <2>2, <2>3
<1> HIDE DEF last, S
<1>26. Grafts(over, S, txn'.root, nodes, tree, path, K, res, one, right, last)
  BY <1>19, <1>20, <1>21, <1>22, <1>23, <1>24, <1>25 DEF Grafts
<1>27. Results(res, nodes, path, e, K, one, right)
  BY <1>6 DEF one, right
<1>28. HasTree(Updated(map, e), over, S, txn'.root)
  BY <1>3, <1>4, <1>26, <1>27, GraftMakes
<1>29. Ascending(txn'.writes, S)
  <2> SUFFICES ASSUME NEW i \in 1 .. all, NEW j \in 1 .. all, i <= j
               PROVE  S[new[i]].level <= S[new[j]].level
    BY <1>11 DEF Ascending
  <2> QED  BY <1>17, <1>32 DEF LevelsRise
<1>30. DOMAIN S \subseteq DOMAIN tree \cup Range(txn'.writes)
  BY <1>11 DEF S
<1>31. PutStarts(e)
  BY <1>11, <1>15, <1>28, <1>29, <1>30 DEF PutStarts, S, over, buf
<1> QED  BY <1>3, <1>10, <1>31

---------------------------------------------------------------------------
(* The inductive invariant.                                                *)

\* Every page with a node has a sound one.
NodesSound == \A p \in DOMAIN nodes : IsSound(p, nodes)

\* Gets are where their readers are.
GetTypes ==
    /\ get = [r \in Reader |-> get[r]]
    /\ \A r \in Reader :
          /\ get[r] = [key |-> get[r].key, at |-> get[r].at, answer |-> get[r].answer]
          /\ get[r].answer \in {{}} \cup {{v} : v \in Value}
          /\ phase[r] = "idle" => get[r] = NoGet
          /\ phase[r] # "idle" => get[r].key \in Key
          /\ phase[r] # "reading" => get[r].at = 0

\* The published root's tree holds the map, and the header has that root, or
\* the one that is about to be published.
Published ==
    /\ IsOpen => HasTree(map, nodes, tree, root)
    /\ Booting => map = <<>>
    /\ pc = "bootHeader" => 1 \in DOMAIN nodes /\ nodes[1] = EmptyLeaf
    /\ ~Booting => header.root = IF pc = "publish" THEN txn.root ELSE root

\* The tree of the put of e, as it will be when all its pages are written,
\* holds the map with e; those of them that are written, are on the file.
Putting(e) ==
    /\ HasTree(Updated(map, e), Over(nodes, fresh), txn.tree, txn.root)
    /\ DOMAIN fresh \subseteq DOMAIN txn.tree
    /\ Range(txn.writes) \subseteq DOMAIN fresh
    /\ \A p \in DOMAIN fresh \ Range(txn.writes) : p \in DOMAIN nodes /\ nodes[p] = fresh[p]
    /\ Ascending(txn.writes, txn.tree)

PutGoesOn ==
    /\ InPut => \E e \in Entry : putting = {e} /\ Putting(e)
    /\ ~InPut => fresh = <<>> /\ putting = {}

\* A get that is not exposed walks the tree of its snapshot.
GetsWalk ==
    \A r \in Reader : get[r].at # 0 /\ ~exposed[r] =>
        Walkable(nodes, snap[r]) /\ get[r].at \in DOMAIN snap[r]

\* Whatever a get walks, it finds nodes: there are pages from which no child
\* leads elsewhere, none of them one of the free list's chain, and gets are
\* on those.
Closed(C) ==
    /\ C \subseteq DOMAIN nodes
    /\ \A p \in C : nodes[p].kind = "internal" => Kids(nodes[p]) \subseteq C

Safe(C) ==
    /\ Closed(C) /\ C \cap Range(free_list_page_ids) = {} /\ Under(C, next_page_id)
    /\ IsOpen => DOMAIN tree \subseteq C
    /\ InPut => DOMAIN txn.tree \ Range(txn.writes) \subseteq C
    /\ \A r \in Reader : get[r].at # 0 => get[r].at \in C

NodesStay == \E C : Safe(C)

TreeInv ==
    /\ StoreInv /\ ~torn
    /\ NodesSound /\ GetTypes /\ Published /\ PutGoesOn /\ GetsWalk /\ NodesStay

---------------------------------------------------------------------------
(* Every step is one of the store.                                         *)

\* The next put puts an entry.
LEMMA NextPutIs ==
    ASSUME StateTypes, NextPut
    PROVE  \E e \in Entry : PutEntry(e)
<1>1. CASE WarmedUp
  BY <1>1 DEF NextPut
<1>2. CASE ~WarmedUp
  <2>1. txns \in Nat /\ WarmUp \in Seq(Entry) /\ ~ (txns >= Len(WarmUp))
    BY <1>2, PutsAssumption DEF WarmedUp, StateTypes
  <2>2. txns + 1 \in 1 .. Len(WarmUp)
    BY <2>1, LenProperties
  <2>3. WarmUp[txns + 1] \in Entry
    BY <2>1, <2>2, ElementOfSeq
  <2> QED  BY <1>2, <2>3 DEF NextPut
<1> QED  BY <1>1, <1>2

\* So does every put that begins while the invariant holds.
LEMMA PutBegins ==
    ASSUME TreeInv, NEW e \in Entry, PutEntry(e)
    PROVE  PutStarts(e) /\ \E path \in Paths : \E k \in 0 .. Height : BeginPutOn(path, k)
<1>1. TypesHold /\ Sound /\ IsOpen
  BY DEF TreeInv, StoreInv, PutEntry, IsOpen
<1>2. PICK u \in [DOMAIN tree -> SUBSET Key] :
               Shape(nodes, tree, root, u) /\ Holds(map, nodes, tree, u)
  BY <1>1 DEF TreeInv, Published, HasTree
<1> QED  BY <1>1, <1>2, PutBuilds

\* A put along a path is a put of the store.
LEMMA PutIsOne ==
    ASSUME pc = "idle", NEW path \in Paths, NEW k \in 0 .. Height, BeginPutOn(path, k)
    PROVE  BeginPut
BY DEF BeginPut

\* Every step of the tree is one of the store, or none.
LEMMA UsesStep ==
    ASSUME TreeInv, [TreeNext]_allVars
    PROVE  [Next]_vars
<1>1. CASE NextPut
  <2>1. PICK e \in Entry : PutEntry(e)
    BY <1>1, NextPutIs DEF TreeInv, StoreInv, TypesHold
  <2>2. PICK path \in Paths : \E k \in 0 .. Height : BeginPutOn(path, k)
    BY <2>1, PutBegins
  <2>3. pc = "idle"
    BY <2>1 DEF PutEntry
  <2> QED  BY <2>2, <2>3, PutIsOne DEF Next, Write
<1>2. CASE Commit
  BY <1>2 DEF Commit, WriteNode, PassGate, WriteLink, SetHeader, EndPut, FailPut, Next, Write
<1>3. ASSUME NEW r \in Reader, Get(r) PROVE [Next]_vars
  BY <1>3 DEF Get, BeginGet, GetRoot, Descend, Answer, Misread, EndGet, Next, Read, storeVars
<1>4. CASE MakeRoot \/ MakeHeader \/ ReopenTree \/ CrashTree
  BY <1>4 DEF MakeRoot, MakeHeader, ReopenTree, CrashTree, Next
<1>5. CASE UNCHANGED allVars
  BY <1>5 DEF allVars, storeVars
<1> QED  BY <1>1, <1>2, <1>3, <1>4, <1>5 DEF TreeNext

\* So the store's invariant is kept, and no chain is ever torn here.
LEMMA StoreStep ==
    ASSUME TreeInv, [TreeNext]_allVars
    PROVE  /\ StoreInv' /\ ~torn' /\ TypesHold /\ Sound /\ TypesHold' /\ Sound'
<1>1. [Next]_vars
  BY UsesStep
<1>2. StoreInv'
  BY <1>1, StoreInvStep DEF TreeInv
<1>3. TypesHold /\ Sound /\ ~torn
  BY DEF TreeInv, StoreInv
<1>4. ~torn'
  <2>1. CASE NextPut
    <3>1. PICK e \in Entry : PutEntry(e)
      BY <1>3, <2>1, NextPutIs DEF TypesHold
    <3> QED  BY <1>3, <3>1 DEF PutEntry, BeginPutOn
  <2>2. CASE Commit
    <3>1. WritePage \/ FoldAndGate \/ WriteChainPage \/ WriteHeader \/ Publish \/ HitCeiling
      BY <2>2 DEF Commit, WriteNode, PassGate, WriteLink, SetHeader, EndPut, FailPut
    <3>2. UNCHANGED countVars
      BY <3>1 DEF WritePage, FoldAndGate, WriteChainPage, WriteHeader, Publish, HitCeiling
    <3> QED  BY <1>3, <3>2 DEF countVars
  <2>3. ASSUME NEW r \in Reader, Get(r) PROVE ~torn'
    <3>1. EnterRead(r) \/ LoadRoot(r) \/ DropRead(r) \/ UNCHANGED vars
      BY <2>3 DEF Get, BeginGet, GetRoot, Descend, Answer, Misread, EndGet, storeVars
    <3> QED  BY <1>3, <3>1 DEF EnterRead, LoadRoot, DropRead, vars, countVars
  <2>4. CASE MakeRoot \/ MakeHeader
    BY <1>3, <2>4 DEF MakeRoot, MakeHeader, BootRoot, BootHeader, countVars
  <2>5. CASE ReopenTree \/ CrashTree
    BY <2>5 DEF ReopenTree, CrashTree, NextProcess
  <2>6. CASE UNCHANGED allVars
    BY <1>3, <2>6 DEF allVars, storeVars, vars, countVars
  <2> QED  BY <2>1, <2>2, <2>3, <2>4, <2>5, <2>6 DEF TreeNext
<1> QED  BY <1>2, <1>3, <1>4 DEF StoreInv

---------------------------------------------------------------------------
(* The steps of a commit keep the invariant.                               *)

\* What holds before and after a step, of the store.
StoreHolds ==
    /\ TypesHold /\ Sound /\ ~torn
    /\ TypesHold' /\ Sound' /\ ~torn'

\* What is to be shown for each step.
TreeParts == NodesSound /\ GetTypes /\ Published /\ PutGoesOn /\ GetsWalk /\ NodesStay

\* The invariant is that of the store and the parts.
LEMMA PartsAre ==
    /\ TreeInv <=> StoreInv /\ ~torn /\ TreeParts
    /\ TreeInv /\ [TreeNext]_allVars => StoreHolds /\ TreeParts /\ StoreInv'
BY StoreStep DEF TreeInv, TreeParts, StoreHolds

\* Gets do not notice what leaves them and the nodes alone.
LEMMA GetsStay ==
    ASSUME GetTypes, GetsWalk, UNCHANGED <<phase, exposed, snap, get, nodes>>
    PROVE  GetTypes' /\ GetsWalk'
BY DEF GetTypes, GetsWalk

\* The gate moves pages between lists, none of which a node is reached on.
LEMMA GateKeeps ==
    ASSUME StoreHolds, TreeParts, PassGate
    PROVE  TreeParts'
<1>1. /\ UNCHANGED <<nodes, fresh, putting, get, map>> /\ FoldAndGate
      /\ UNCHANGED <<root, tree, header, phase, snap, exposed>>
      /\ pc = "writing" /\ pc' = "chain" /\ txn.writes = <<>>
  BY DEF PassGate, treeVars, FoldAndGate, fileVars, readerVars, PagesLeft
<1>2. txn'.root = txn.root /\ txn'.tree = txn.tree /\ txn'.writes = txn.writes
  <2> DEFINE payload == free_list' \o pending_free'
             n       == PagesNeeded(payload)
             ids     == ChainPages(free_list_page_ids, n, next_page_id)
             chain == ChainWrites(payload, ids)
             head == IF n > 0 THEN ids[1] ELSE 0
  <2>1. txn' = [txn EXCEPT !.freed = <<>>, !.chain = chain, !.head = head,
                           !.promoted = Quiescent]
    BY <1>1 DEF FoldAndGate
  <2>2. TxnTypes
    BY DEF StoreHolds, TypesHold
  <2> HIDE DEF chain, head
  <2>3. DOMAIN txn = {"root", "tree", "writes", "freed", "chain", "head", "promoted",
                      "rewritten"}
    BY <2>2 DEF TxnTypes
  <2> QED  BY <2>1, <2>3
<1>3. /\ IsOpen /\ IsOpen' /\ InPut /\ InPut' /\ ~Booting /\ ~Booting'
  BY <1>1 DEF IsOpen, InPut, Booting
<1>4. NodesSound' /\ GetTypes' /\ GetsWalk'
  BY <1>1, GetsStay DEF TreeParts, NodesSound
<1>5. Published'
  BY <1>1, <1>3 DEF TreeParts, Published
<1>6. PutGoesOn'
  <2>1. PICK e \in Entry : putting = {e} /\ Putting(e)
    BY <1>3 DEF TreeParts, PutGoesOn
  <2>2. Putting(e)'
    BY <1>1, <1>2, <2>1 DEF Putting
  <2> QED  BY <1>1, <1>3, <2>1, <2>2 DEF PutGoesOn
<1>7. NodesStay'
  <2>1. PICK C : Safe(C)
    BY DEF TreeParts, NodesStay
  <2>2. /\ next_page_id \in Nat /\ next_page_id' \in Nat /\ next_page_id <= next_page_id'
        /\ Range(free_list_page_ids') = Range(free_list_page_ids)
                                          \cup (next_page_id .. next_page_id' - 1)
    BY <1>1, FoldApart DEF StoreHolds
  <2>3. C \subseteq Nat
    BY <2>1 DEF Safe, Closed, TreeParts, NodesSound, IsSound, PageId
  <2>4. Under(C, next_page_id')
    BY <2>1, <2>2, <2>3 DEF Safe, Under
  <2>5. C \cap Range(free_list_page_ids') = {}
    <3> DEFINE n == next_page_id
               m == next_page_id'
    <3>1. ASSUME NEW p \in C PROVE ~ (p \in (n .. (m - 1)))
      <4>1. p < next_page_id /\ p \in Nat
        BY <2>1, <2>3 DEF Safe, Under
      <4>2. n \in Nat /\ m \in Nat
        BY <2>2
      <4>3. p < n
        BY <4>1
      <4> HIDE DEF n, m
      <4> QED  BY <4>1, <4>2, <4>3
    <3> QED  BY <2>1, <2>2, <3>1 DEF Safe
  <2>6. Closed(C)'
    BY <1>1, <2>1 DEF Safe, Closed
  <2>7. Safe(C)'
    BY <1>1, <1>2, <1>3, <2>1, <2>4, <2>5, <2>6 DEF Safe
  <2> QED  BY <2>7 DEF NodesStay
<1> QED  BY <1>4, <1>5, <1>6, <1>7 DEF TreeParts

\* The header names the put's root before it is published.
LEMMA HeaderKeeps ==
    ASSUME StoreHolds, TreeParts, SetHeader
    PROVE  TreeParts'
<1>1. /\ UNCHANGED <<nodes, fresh, putting, get, map>>
      /\ UNCHANGED <<root, tree, phase, snap, exposed, free_list_page_ids, next_page_id>>
      /\ pc = "chain" /\ pc' = "publish" /\ header'.root = txn.root
      /\ txn' = [txn EXCEPT !.rewritten = FALSE]
  BY DEF SetHeader, treeVars, WriteHeader, NewHeader, writerVars, readerVars
<1>2. txn'.root = txn.root /\ txn'.tree = txn.tree /\ txn'.writes = txn.writes
  <2>1. DOMAIN txn = {"root", "tree", "writes", "freed", "chain", "head", "promoted",
                      "rewritten"}
    BY DEF StoreHolds, TypesHold, TxnTypes
  <2> QED  BY <1>1, <2>1
<1>3. /\ IsOpen /\ IsOpen' /\ InPut /\ InPut' /\ ~Booting /\ ~Booting'
  BY <1>1 DEF IsOpen, InPut, Booting
<1>4. NodesSound' /\ GetTypes' /\ GetsWalk'
  BY <1>1, GetsStay DEF TreeParts, NodesSound
<1>5. Published'
  BY <1>1, <1>2, <1>3 DEF TreeParts, Published
<1>6. PutGoesOn'
  <2>1. PICK e \in Entry : putting = {e} /\ Putting(e)
    BY <1>3 DEF TreeParts, PutGoesOn
  <2>2. Putting(e)'
    BY <1>1, <1>2, <2>1 DEF Putting
  <2> QED  BY <1>1, <1>3, <2>1, <2>2 DEF PutGoesOn
<1>7. NodesStay'
  <2>1. PICK C : Safe(C)
    BY DEF TreeParts, NodesStay
  <2>2. Safe(C)'
    BY <1>1, <1>2, <1>3, <2>1 DEF Safe, Closed
  <2> QED  BY <2>2 DEF NodesStay
<1> QED  BY <1>4, <1>5, <1>6, <1>7 DEF TreeParts

\* What remains of the nodes when at most the one on page p changes.
OthersStay(p) ==
    \A q \in DOMAIN nodes : q # p => q \in DOMAIN nodes' /\ nodes'[q] = nodes[q]

\* Gets do not notice what is written to a page that may be written to.
LEMMA GetsApart ==
    ASSUME StoreHolds, TreeParts, NEW p, OthersStay(p), p \in MayWrite,
           pc # "poisoned", ~Booting, UNCHANGED <<phase, exposed, snap, get>>
    PROVE  GetTypes' /\ GetsWalk'
<1>1. GetTypes'
  BY DEF TreeParts, GetTypes
<1>2. ASSUME NEW r \in Reader, get[r].at # 0, ~exposed[r]
      PROVE  Walkable(nodes', snap[r]) /\ get[r].at \in DOMAIN snap[r]
  <2>1. phase[r] = "reading"
    BY <1>2 DEF TreeParts, GetTypes
  <2>2. Clear(snap[r])
    BY <1>2, <2>1 DEF StoreHolds, Sound, ReadersApart
  <2>3. p \notin DOMAIN snap[r]
    BY <2>2 DEF Clear
  <2>4. Walkable(nodes, snap[r]) /\ get[r].at \in DOMAIN snap[r]
    BY <1>2 DEF TreeParts, GetsWalk
  <2>5. \A q \in DOMAIN snap[r] : q \in DOMAIN nodes =>
            q \in DOMAIN nodes' /\ nodes'[q] = nodes[q]
    BY <2>3 DEF OthersStay
  <2> QED  BY <2>4, <2>5, WalkableKept
<1> QED  BY <1>1, <1>2 DEF GetsWalk

\* The published tree does not, if that page is none of its own.
LEMMA TreeApart ==
    ASSUME TreeParts, NEW p, OthersStay(p), p \notin DOMAIN tree, IsOpen, IsOpen', ~Booting,
           ~Booting', UNCHANGED <<map, tree, root, header, pc>>, txn'.root = txn.root
    PROVE  Published'
<1>1. HasTree(map, nodes, tree, root)
  BY DEF TreeParts, Published
<1>2. \A q \in DOMAIN tree : q \in DOMAIN nodes => q \in DOMAIN nodes' /\ nodes'[q] = nodes[q]
  BY DEF OthersStay
<1>3. HasTree(map, nodes', tree, root)
  BY <1>1, <1>2, TreeKept
<1>4. header.root = IF pc = "publish" THEN txn.root ELSE root
  BY DEF TreeParts, Published
<1>5. pc' # "bootHeader"
  BY DEF Booting
<1> QED  BY <1>3, <1>4, <1>5 DEF Published

\* A page of the chain that is overwritten is in no tree, and on no get's walk.
LEMMA LinkKeeps ==
    ASSUME StoreHolds, TreeParts, WriteLink
    PROVE  TreeParts'
<1> DEFINE p == Head(txn.chain).page
<1>1. /\ UNCHANGED <<fresh, putting, get, map>>
      /\ UNCHANGED <<root, tree, phase, snap, exposed, free_list_page_ids, next_page_id>>
      /\ UNCHANGED <<header, pc>>
      /\ pc = "chain" /\ txn.chain # <<>>
      /\ nodes' = [q \in DOMAIN nodes \ {p} |-> nodes[q]]
  BY DEF WriteLink, WriteChainPage, ChainLeft, writerVars, readerVars
<1>2. txn'.root = txn.root /\ txn'.tree = txn.tree /\ txn'.writes = txn.writes
  <2>1. DOMAIN txn = {"root", "tree", "writes", "freed", "chain", "head", "promoted",
                      "rewritten"}
    BY DEF StoreHolds, TypesHold, TxnTypes
  <2>2. txn' = [txn EXCEPT !.chain = Tail(@),
                           !.rewritten = @ \/ Head(txn.chain).page = header.head]
    BY DEF WriteLink, WriteChainPage
  <2> QED  BY <2>1, <2>2
<1>3. IsOpen /\ IsOpen' /\ InPut /\ InPut' /\ ~Booting /\ ~Booting'
  BY <1>1 DEF IsOpen, InPut, Booting
<1>4. TreeWhole /\ PutApart /\ ChainGoesOn
  BY <1>3 DEF StoreHolds, Sound
<1>5. p \in Range(free_list_page_ids)
  <2>1. PICK k \in 0 .. PagesNeeded(free_list \o pending_free) : ChainWritten(k)
    BY <1>1, <1>4 DEF ChainGoesOn
  <2> QED  BY <1>1, <2>1, ChainPageIs DEF StoreHolds
<1>6. OthersStay(p)
  BY <1>1 DEF OthersStay
<1>7. p \in MayWrite /\ p \notin DOMAIN tree /\ p \notin DOMAIN txn.tree
  BY <1>3, <1>4, <1>5 DEF MayWrite, TreeWhole, PutApart, Outside
<1> HIDE DEF p
<1>8. NodesSound'
  BY <1>1 DEF TreeParts, NodesSound, IsSound
<1>9. GetTypes' /\ GetsWalk'
  BY <1>1, <1>3, <1>6, <1>7, GetsApart
<1>10. Published'
  BY <1>1, <1>2, <1>3, <1>6, <1>7, TreeApart
<1>11. PutGoesOn'
  <2>1. PICK e \in Entry : putting = {e} /\ Putting(e)
    BY <1>3 DEF TreeParts, PutGoesOn
  <2>2. \A q \in DOMAIN txn.tree : q \in DOMAIN Over(nodes, fresh) =>
           q \in DOMAIN Over(nodes', fresh) /\ Over(nodes', fresh)[q] = Over(nodes, fresh)[q]
    BY <1>6, <1>7 DEF Over, OthersStay
  <2>3. HasTree(Updated(map, e), Over(nodes', fresh), txn.tree, txn.root)
    BY <2>1, <2>2, TreeKept DEF Putting
  <2>4. \A q \in DOMAIN fresh \ Range(txn.writes) : q \in DOMAIN nodes' /\ nodes'[q] = fresh[q]
    BY <1>6, <1>7, <2>1 DEF Putting, OthersStay
  <2>5. Putting(e)'
    BY <1>1, <1>2, <2>1, <2>3, <2>4 DEF Putting
  <2> QED  BY <1>1, <1>3, <2>1, <2>5 DEF PutGoesOn
<1>12. NodesStay'
  <2>1. PICK C : Safe(C)
    BY DEF TreeParts, NodesStay
  <2>2. p \notin C
    BY <1>5, <2>1 DEF Safe
  <2>3. Closed(C)'
    BY <1>6, <2>1, <2>2 DEF Safe, Closed, OthersStay
  <2>4. Safe(C)'
    BY <1>1, <1>2, <1>3, <2>1, <2>3 DEF Safe
  <2> QED  BY <2>4 DEF NodesStay
<1> QED  BY <1>8, <1>9, <1>10, <1>11, <1>12 DEF TreeParts

\* The pages of a put below one that it has yet to write are written.
LEMMA KidsWritten ==
    ASSUME NEW m, NEW on, NEW T, NEW rt, HasTree(m, on, T, rt), NEW writes \in Seq(PageId),
           writes # <<>>, Ascending(writes, T), Head(writes) \in DOMAIN T,
           on[Head(writes)].kind = "internal"
    PROVE  Kids(on[Head(writes)]) \subseteq DOMAIN T \ Range(writes)
<1> DEFINE p == Head(writes)
<1>1. PICK u \in [DOMAIN T -> SUBSET Key] : Shape(on, T, rt, u)
  BY DEF HasTree
<1>2. Walkable(on, T)
  BY <1>1, ShapeWalkable
<1>3. /\ T[p].level \in Nat /\ T[p].level # 1
      /\ \A c \in Kids(on[p]) : c \in DOMAIN T /\ T[c].level = T[p].level - 1
  BY <1>2 DEF Walkable
<1>4. Len(writes) \in Nat /\ 1 \in 1 .. Len(writes) /\ writes[1] = p
  BY EmptySeq, LenProperties, HeadTailProperties
<1>5. ASSUME NEW c \in Kids(on[p]), c \in Range(writes) PROVE FALSE
  <2>1. PICK i \in 1 .. Len(writes) : writes[i] = c
    BY <1>5, RangeIs
  <2>2. T[p].level <= T[c].level
    BY <1>4, <2>1 DEF Ascending
  <2>3. T[c].level = T[p].level - 1
    BY <1>3
  <2> DEFINE a == T[p].level
             b == T[c].level
  <2>4. a \in Nat /\ b = a - 1 /\ a <= b
    BY <1>3, <2>2, <2>3
  <2> HIDE DEF a, b
  <2> QED  BY <2>4
<1> QED  BY <1>3, <1>5

\* What a put buffers is sound.
LEMMA FreshSound ==
    ASSUME NEW e, Putting(e), NEW p \in DOMAIN fresh
    PROVE  IsSound(p, fresh) /\ p \in DOMAIN txn.tree /\ Over(nodes, fresh)[p] = fresh[p]
<1>1. PICK u \in [DOMAIN txn.tree -> SUBSET Key] :
              Shape(Over(nodes, fresh), txn.tree, txn.root, u)
  BY DEF Putting, HasTree
<1>2. p \in DOMAIN txn.tree
  BY DEF Putting
<1>3. IsSound(p, Over(nodes, fresh))
  BY <1>1, <1>2 DEF Shape, Fits
<1>4. Over(nodes, fresh)[p] = fresh[p]
  BY DEF Over
<1> QED  BY <1>2, <1>3, <1>4 DEF IsSound

\* Nor is a page that a put writes; the pages below it are written already.
LEMMA NodeKeeps ==
    ASSUME StoreHolds, TreeParts, WriteNode
    PROVE  TreeParts'
<1> DEFINE p == Head(txn.writes)
<1>1. /\ UNCHANGED <<fresh, putting, get, map>>
      /\ UNCHANGED <<root, tree, phase, snap, exposed, free_list_page_ids, next_page_id>>
      /\ UNCHANGED <<header, pc>>
      /\ pc = "writing" /\ txn.writes # <<>>
      /\ nodes' = Put(nodes, p, fresh[p])
      /\ txn' = [txn EXCEPT !.writes = Tail(@)]
  BY DEF WriteNode, WritePage, PagesLeft, writerVars, readerVars
<1>2. txn'.root = txn.root /\ txn'.tree = txn.tree /\ txn'.writes = Tail(txn.writes)
  <2>1. DOMAIN txn = {"root", "tree", "writes", "freed", "chain", "head", "promoted",
                      "rewritten"}
    BY DEF StoreHolds, TypesHold, TxnTypes
  <2> QED  BY <1>1, <2>1
<1>3. IsOpen /\ IsOpen' /\ InPut /\ InPut' /\ ~Booting /\ ~Booting'
  BY <1>1 DEF IsOpen, InPut, Booting
<1>4. TreeWhole /\ PutApart /\ PutUnderWay
  BY <1>1, <1>3 DEF StoreHolds, Sound, PutApart
<1>5. txn.writes \in Seq(PageId)
  BY DEF StoreHolds, TypesHold, TxnTypes
<1>6. p \in Range(txn.writes) /\ Range(txn.writes) = {p} \cup Range(Tail(txn.writes))
  BY <1>1, <1>5, RangeOfTail
<1>7. PICK e \in Entry : putting = {e} /\ Putting(e)
  BY <1>3 DEF TreeParts, PutGoesOn
<1>8. p \in DOMAIN fresh /\ p \in DOMAIN txn.tree /\ p \in MayWrite /\ p \notin DOMAIN tree
  BY <1>4, <1>6, <1>7 DEF Putting, MayWrite, PutUnderWay
<1> HIDE DEF p
<1>9. /\ OthersStay(p) /\ DOMAIN nodes' = DOMAIN nodes \cup {p} /\ nodes'[p] = fresh[p]
  BY <1>1 DEF OthersStay, Put
<1>10. IsSound(p, fresh) /\ Over(nodes, fresh)[p] = fresh[p]
  BY <1>7, <1>8, FreshSound
<1>11. NodesSound'
  <2>1. ASSUME NEW q \in DOMAIN nodes' PROVE IsSound(q, nodes')
    <3>1. CASE q = p
      BY <1>9, <1>10, <3>1 DEF IsSound
    <3>2. CASE q # p
      BY <1>9, <3>2 DEF TreeParts, NodesSound, IsSound, OthersStay
    <3> QED  BY <3>1, <3>2
  <2> QED  BY <2>1 DEF NodesSound
<1>12. GetTypes' /\ GetsWalk'
  BY <1>1, <1>3, <1>8, <1>9, GetsApart
<1>13. Published'
  BY <1>1, <1>2, <1>3, <1>8, <1>9, TreeApart
<1>14. PutGoesOn'
  <2>1. Over(nodes', fresh) = Over(nodes, fresh)
    BY <1>8, <1>9 DEF Over, OthersStay
  <2>2. \A q \in DOMAIN fresh \ Range(Tail(txn.writes)) :
            q \in DOMAIN nodes' /\ nodes'[q] = fresh[q]
    BY <1>6, <1>7, <1>9 DEF Putting, OthersStay
  <2>3. Ascending(Tail(txn.writes), txn.tree)
    <3> DEFINE s == txn.writes
               t == Tail(s)
    <3>1. /\ Len(s) \in Nat /\ Len(t) \in Nat /\ Len(t) = Len(s) - 1
          /\ \A i \in 1 .. Len(t) : t[i] = s[i + 1]
      BY <1>1, <1>5, HeadTailProperties, LenProperties
    <3>2. Ascending(s, txn.tree)
      BY <1>7 DEF Putting
    <3> HIDE DEF t
    <3>3. ASSUME NEW i \in 1 .. Len(t), NEW j \in 1 .. Len(t), i <= j
          PROVE  txn.tree[t[i]].level <= txn.tree[t[j]].level
      <4>1. i + 1 \in 1 .. Len(s) /\ j + 1 \in 1 .. Len(s) /\ i + 1 <= j + 1
        BY <3>1, <3>3
      <4> QED  BY <3>1, <3>2, <4>1 DEF Ascending
    <3>4. Ascending(t, txn.tree)
      BY <3>3 DEF Ascending
    <3> QED  BY <3>4 DEF t
  <2>4. Range(Tail(txn.writes)) \subseteq DOMAIN fresh
    BY <1>6, <1>7 DEF Putting
  <2>5. HasTree(Updated(map, e), Over(nodes', fresh), txn.tree, txn.root)
    BY <1>7, <2>1 DEF Putting
  <2>6. Putting(e)'
    BY <1>1, <1>2, <1>7, <2>2, <2>3, <2>4, <2>5 DEF Putting
  <2> QED  BY <1>1, <1>3, <1>7, <2>6 DEF PutGoesOn
<1>15. NodesStay'
  <2>1. PICK C : Safe(C)
    BY DEF TreeParts, NodesStay
  <2>0. PICK D : D = C \cup {p}
    OBVIOUS
  <2>2. Closed(C) /\ DOMAIN txn.tree \ Range(txn.writes) \subseteq C
    BY <1>3, <2>1 DEF Safe
  <2>3. fresh[p].kind = "internal" => Kids(fresh[p]) \subseteq C
    <3>1. HasTree(Updated(map, e), Over(nodes, fresh), txn.tree, txn.root)
          /\ Ascending(txn.writes, txn.tree)
      BY <1>7 DEF Putting
    <3> QED  BY <1>1, <1>5, <1>8, <1>10, <2>2, <3>1, KidsWritten DEF p
  <2>4. Closed(D)'
    <3>1. D \subseteq DOMAIN nodes'
      BY <1>9, <2>0, <2>2 DEF Closed
    <3>2. ASSUME NEW q \in D, nodes'[q].kind = "internal" PROVE Kids(nodes'[q]) \subseteq D
      <4>1. CASE q = p
        BY <1>9, <2>0, <2>3, <3>2, <4>1
      <4>2. CASE q # p
        BY <1>9, <2>0, <2>2, <3>2, <4>2 DEF Closed, OthersStay
      <4> QED  BY <4>1, <4>2
    <3> QED  BY <3>1, <3>2 DEF Closed
  <2>5. Outside(DOMAIN txn.tree)
    BY <1>3, <1>4 DEF PutApart
  <2>6. D \cap Range(free_list_page_ids) = {} /\ Under(D, next_page_id)
    BY <1>8, <2>0, <2>1, <2>5 DEF Safe, Outside, Under
  <2>7. DOMAIN txn.tree \ Range(Tail(txn.writes)) \subseteq D
    BY <1>6, <2>0, <2>2
  <2>8. Safe(D)'
    BY <1>1, <1>2, <1>3, <2>0, <2>1, <2>4, <2>6, <2>7 DEF Safe
  <2> QED  BY <2>8 DEF NodesStay
<1> QED  BY <1>11, <1>12, <1>13, <1>14, <1>15 DEF TreeParts

\* A transaction that is given up, or none at all.
LEMMA FailKeeps ==
    ASSUME StoreHolds, TreeParts, FailPut
    PROVE  TreeParts'
<1>1. /\ UNCHANGED <<nodes, get, map>> /\ fresh' = <<>> /\ putting' = {}
      /\ UNCHANGED <<root, tree, phase, snap, exposed, free_list_page_ids, next_page_id>>
      /\ UNCHANGED header /\ pc \in {"writing", "chain"} /\ pc' = "poisoned"
  BY DEF FailPut, HitCeiling, writerVars, readerVars
<1>2. IsOpen /\ IsOpen' /\ ~InPut' /\ ~Booting /\ ~Booting'
  BY <1>1 DEF IsOpen, InPut, Booting
<1>3. NodesSound' /\ GetTypes' /\ GetsWalk'
  BY <1>1, GetsStay DEF TreeParts, NodesSound
<1>4. Published'
  BY <1>1, <1>2 DEF TreeParts, Published
<1>5. PutGoesOn'
  BY <1>1, <1>2 DEF PutGoesOn
<1>6. NodesStay'
  <2>1. PICK C : Safe(C)
    BY DEF TreeParts, NodesStay
  <2>2. Safe(C)'
    BY <1>1, <1>2, <2>1 DEF Safe, Closed
  <2> QED  BY <2>2 DEF NodesStay
<1> QED  BY <1>3, <1>4, <1>5, <1>6 DEF TreeParts

\* Once the header is written all of the put's tree is.
LEMMA PutWhole ==
    ASSUME StoreHolds, TreeParts, pc = "publish"
    PROVE  \E e \in Entry : /\ putting = {e}
                            /\ HasTree(Updated(map, e), nodes, txn.tree, txn.root)
<1>1. InPut /\ ~Booting
  BY DEF InPut, Booting
<1>2. PICK e \in Entry : putting = {e} /\ Putting(e)
  BY <1>1 DEF TreeParts, PutGoesOn
<1>3. Range(txn.writes) = {}
  BY <1>1, EmptyRange DEF StoreHolds, Sound, PutApart
<1>4. \A p \in DOMAIN txn.tree : p \in DOMAIN Over(nodes, fresh) =>
          p \in DOMAIN nodes /\ nodes[p] = Over(nodes, fresh)[p]
  BY <1>2, <1>3 DEF Putting, Over
<1>5. HasTree(Updated(map, e), nodes, txn.tree, txn.root)
  BY <1>2, <1>4, TreeKept DEF Putting
<1> QED  BY <1>2, <1>5

\* A put that is published makes the map with its entry.
LEMMA EndKeeps ==
    ASSUME StoreHolds, TreeParts, EndPut
    PROVE  TreeParts' /\ \E e \in Entry : putting = {e} /\ map' = Updated(map, e)
<1>1. /\ UNCHANGED <<nodes, get>> /\ fresh' = <<>> /\ putting' = {}
      /\ UNCHANGED <<phase, snap, exposed, free_list_page_ids, next_page_id>>
      /\ UNCHANGED header /\ pc = "publish" /\ pc' = "idle"
      /\ root' = txn.root /\ tree' = txn.tree
      /\ map' = Contents(nodes, root')
  BY DEF EndPut, Publish, writerVars, readerVars, fileVars
<1>2. IsOpen /\ IsOpen' /\ InPut /\ ~InPut' /\ ~Booting /\ ~Booting'
  BY <1>1 DEF IsOpen, InPut, Booting
<1>3. NodesSound' /\ GetTypes' /\ GetsWalk'
  BY <1>1, GetsStay DEF TreeParts, NodesSound
<1>4. PICK e \in Entry : /\ putting = {e}
                         /\ HasTree(Updated(map, e), nodes, txn.tree, txn.root)
  BY <1>1, PutWhole
<1>5. Range(txn.writes) = {}
  BY <1>1, <1>2, EmptyRange DEF StoreHolds, Sound, PutApart
<1>7. map' = Updated(map, e)
  BY <1>1, <1>4, ContentsAre DEF HasTree
<1>8. Published'
  <2>1. header.root = txn.root
    BY <1>1, <1>2 DEF TreeParts, Published
  <2>2. HasTree(map', nodes', tree', root')
    BY <1>1, <1>4, <1>7
  <2> QED  BY <1>1, <1>2, <2>1, <2>2 DEF Published
<1>9. PutGoesOn'
  BY <1>1, <1>2 DEF PutGoesOn
<1>10. NodesStay'
  <2>1. PICK C : Safe(C)
    BY DEF TreeParts, NodesStay
  <2>2. DOMAIN txn.tree \subseteq C
    BY <1>2, <1>5, <2>1 DEF Safe
  <2>3. Safe(C)'
    BY <1>1, <1>2, <2>1, <2>2 DEF Safe, Closed
  <2> QED  BY <2>3 DEF NodesStay
<1> QED  BY <1>3, <1>4, <1>7, <1>8, <1>9, <1>10 DEF TreeParts

\* A put that begins has built a tree for the map with its entry.
LEMMA PutKeeps ==
    ASSUME TreeInv, StoreHolds, TreeParts, NEW e \in Entry, PutEntry(e)
    PROVE  TreeParts'
<1>1. /\ putting' = {e} /\ UNCHANGED <<nodes, get, map>>
  BY DEF PutEntry
<1>2. PutStarts(e)
  BY PutBegins
<1>3. PICK path \in Paths, k \in 0 .. Height : BeginPutOn(path, k)
  BY PutBegins
<1>4. /\ UNCHANGED <<root, tree, header, phase, snap, exposed, free_list_page_ids>>
      /\ pc = "idle" /\ pc' = "writing"
  BY <1>3 DEF BeginPutOn, fileVars, readerVars
<1>5. IsOpen /\ IsOpen' /\ InPut' /\ ~Booting /\ ~Booting'
  BY <1>4 DEF IsOpen, InPut, Booting
<1>6. ListTypes /\ TreeTypes /\ StateTypes
  BY DEF StoreHolds, TypesHold
<1>7. \E n \in Nat : next_page_id' = next_page_id + n
  <2> DEFINE n == Copies(k)
  <2>1. n \in Nat \ {0} /\ next_page_id' = next_page_id + (n - FromFree(n))
    BY <1>3, <1>6, PutBegun
  <2> HIDE DEF n
  <2>2. FromFree(n) \in Nat /\ FromFree(n) <= n
    BY <1>6, <2>1, AllocIs
  <2>3. n - FromFree(n) \in Nat
    BY <2>1, <2>2
  <2> QED  BY <2>1, <2>3
<1>8. NodesSound' /\ GetTypes' /\ GetsWalk'
  BY <1>1, <1>4, GetsStay DEF TreeParts, NodesSound
<1>9. Published'
  BY <1>1, <1>4, <1>5 DEF TreeParts, Published
<1>10. PutGoesOn'
  <2>1. Range(txn'.writes) \subseteq DOMAIN txn'.tree
    BY DEF StoreHolds, TypesHold, TxnTypes
  <2>2. /\ HasTree(Updated(map, e), Over(nodes, fresh'), txn'.tree, txn'.root)
        /\ DOMAIN fresh' = Range(txn'.writes) /\ Ascending(txn'.writes, txn'.tree)
    BY <1>2 DEF PutStarts
  <2>3. DOMAIN fresh' \subseteq DOMAIN txn'.tree /\ Range(txn'.writes) \subseteq DOMAIN fresh'
        /\ DOMAIN fresh' \ Range(txn'.writes) = {}
    BY <2>1, <2>2
  <2>4. Putting(e)'
    BY <1>1, <2>2, <2>3 DEF Putting
  <2> QED  BY <1>1, <1>5, <2>4 DEF PutGoesOn
<1>11. NodesStay'
  <2>1. PICK C : Safe(C)
    BY DEF TreeParts, NodesStay
  <2>2. DOMAIN tree \subseteq C
    BY <1>5, <2>1 DEF Safe
  <2>3. C \subseteq Nat
    BY <2>1 DEF Safe, Closed, TreeParts, NodesSound, IsSound, PageId
  <2>4. next_page_id \in Nat
    BY <1>6 DEF ListTypes
  <2>5. Under(C, next_page_id')
    BY <1>7, <2>1, <2>3, <2>4 DEF Safe, Under
  <2>6. DOMAIN txn'.tree \ Range(txn'.writes) \subseteq C
    BY <1>2, <2>2 DEF PutStarts
  <2>7. Safe(C)'
    BY <1>1, <1>4, <2>1, <2>2, <2>5, <2>6 DEF Safe, Closed
  <2> QED  BY <2>7 DEF NodesStay
<1> QED  BY <1>8, <1>9, <1>10, <1>11 DEF TreeParts

---------------------------------------------------------------------------
(* The steps of a get keep the invariant.                                  *)

\* Where the gets are after a step.
GetsIn(C) == \A r \in Reader : get'[r].at # 0 => get'[r].at \in C

\* The writer does not notice them.
LEMMA RestStays ==
    ASSUME TreeParts, UNCHANGED <<treeVars, map, root, tree, header, pc, txn>>,
           UNCHANGED <<free_list_page_ids, next_page_id>>
    PROVE  /\ NodesSound' /\ Published' /\ PutGoesOn'
           /\ \A C : Safe(C) /\ GetsIn(C) => Safe(C)'
<1>1. UNCHANGED <<nodes, fresh, putting>>
  BY DEF treeVars
<1>2. NodesSound'
  BY <1>1 DEF TreeParts, NodesSound
<1>3. (IsOpen' <=> IsOpen) /\ (Booting' <=> Booting) /\ (InPut' <=> InPut)
  BY DEF IsOpen, Booting, InPut
<1>4. Published'
  BY <1>1, <1>3 DEF TreeParts, Published
<1>5. PutGoesOn'
  <2>1. ASSUME NEW e, Putting(e) PROVE Putting(e)'
    BY <1>1, <2>1 DEF Putting
  <2> QED  BY <1>1, <1>3, <2>1 DEF TreeParts, PutGoesOn
<1>6. ASSUME NEW C, Safe(C), GetsIn(C) PROVE Safe(C)'
  BY <1>1, <1>3, <1>6 DEF Safe, Closed, GetsIn
<1> QED  BY <1>2, <1>4, <1>5, <1>6

\* A get that is under way has a key, and its record has what NoGet has.
LEMMA GetIs ==
    ASSUME GetTypes, NEW r \in Reader
    PROVE  /\ DOMAIN get = Reader /\ DOMAIN get[r] = {"key", "at", "answer"}
           /\ get[r] = [key |-> get[r].key, at |-> get[r].at, answer |-> get[r].answer]
<1>1. /\ get = [q \in Reader |-> get[q]]
      /\ get[r] = [key |-> get[r].key, at |-> get[r].at, answer |-> get[r].answer]
  BY DEF GetTypes
<1>2. DOMAIN get[r] = {"key", "at", "answer"}
  BY <1>1
<1>3. DOMAIN get = Reader
  BY <1>1
<1> QED  BY <1>1, <1>2, <1>3

\* A get begins at no page.
LEMMA BeginGetKeeps ==
    ASSUME StoreHolds, TreeParts, NEW r \in Reader, NEW key \in Key, BeginGet(r, key)
    PROVE  TreeParts'
<1>1. /\ UNCHANGED <<treeVars, map, root, tree, header, pc, txn>>
      /\ UNCHANGED <<free_list_page_ids, next_page_id, snap, exposed>>
      /\ phase[r] = "idle" /\ phase' = [phase EXCEPT ![r] = "entered"]
      /\ get' = [get EXCEPT ![r].key = key]
  BY DEF BeginGet, EnterRead, fileVars, writerVars
<1>2. phase \in [Reader -> {"idle", "entered", "reading"}]
  BY DEF StoreHolds, TypesHold, ReaderTypes
<1>3. GetTypes /\ GetsWalk
  BY DEF TreeParts
<1>4. DOMAIN get = Reader /\ DOMAIN get[r] = {"key", "at", "answer"} /\ get[r] = NoGet
  BY <1>1, <1>3, GetIs DEF GetTypes
<1>5. /\ \A q \in Reader : q # r => get'[q] = get[q] /\ phase'[q] = phase[q]
      /\ get'[r] = [key |-> key, at |-> 0, answer |-> {}] /\ phase'[r] = "entered"
      /\ get' = [q \in Reader |-> get'[q]]
  <2>1. get'[r] = [get[r] EXCEPT !.key = key]
    BY <1>1, <1>4
  <2>2. get'[r] = [key |-> key, at |-> 0, answer |-> {}]
    BY <1>4, <2>1 DEF NoGet
  <2>3. get' = [q \in Reader |-> get'[q]]
    BY <1>1, <1>4
  <2> QED  BY <1>1, <1>2, <1>4, <2>2, <2>3
<1>6. GetTypes'
  BY <1>3, <1>5 DEF GetTypes
<1>7. UNCHANGED nodes
  BY <1>1 DEF treeVars
<1>8. GetsWalk'
  BY <1>1, <1>3, <1>5, <1>7 DEF GetsWalk
<1>9. NodesStay'
  <2>1. PICK C : Safe(C)
    BY DEF TreeParts, NodesStay
  <2>2. GetsIn(C)
    BY <1>5, <2>1 DEF Safe, GetsIn
  <2> QED  BY <1>1, <2>1, <2>2, RestStays DEF NodesStay
<1> QED  BY <1>1, <1>6, <1>8, <1>9, RestStays DEF TreeParts

\* It starts to walk at the root, which the tree holds.
LEMMA GetRootKeeps ==
    ASSUME StoreHolds, TreeParts, NEW r \in Reader, GetRoot(r)
    PROVE  TreeParts'
<1>1. /\ UNCHANGED <<treeVars, map, root, tree, header, pc, txn>>
      /\ UNCHANGED <<free_list_page_ids, next_page_id>>
      /\ phase[r] = "entered" /\ phase' = [phase EXCEPT ![r] = "reading"]
      /\ snap' = [snap EXCEPT ![r] = tree]
      /\ exposed' = [exposed EXCEPT ![r] = txn.promoted]
      /\ get' = [get EXCEPT ![r].at = root]
  BY DEF GetRoot, LoadRoot, fileVars, writerVars
<1>2. /\ phase \in [Reader -> {"idle", "entered", "reading"}]
      /\ DOMAIN snap = Reader /\ DOMAIN exposed = Reader
  BY DEF StoreHolds, TypesHold, ReaderTypes
<1>3. GetTypes /\ GetsWalk /\ Published
  BY DEF TreeParts
<1>4. IsOpen
  BY <1>1 DEF StoreHolds, Sound, Empty, IsOpen, Booting
<1>5. DOMAIN get = Reader /\ DOMAIN get[r] = {"key", "at", "answer"}
      /\ get[r] = [key |-> get[r].key, at |-> get[r].at, answer |-> get[r].answer]
  BY <1>3, GetIs
<1>6. /\ \A q \in Reader : q # r => /\ get'[q] = get[q] /\ phase'[q] = phase[q]
                                    /\ snap'[q] = snap[q] /\ exposed'[q] = exposed[q]
      /\ get'[r] = [key |-> get[r].key, at |-> root, answer |-> get[r].answer]
      /\ phase'[r] = "reading" /\ snap'[r] = tree
      /\ get' = [q \in Reader |-> get'[q]]
  <2>1. get'[r] = [get[r] EXCEPT !.at = root]
    BY <1>1, <1>5
  <2>2. get'[r] = [key |-> get[r].key, at |-> root, answer |-> get[r].answer]
    BY <1>5, <2>1
  <2>3. get' = [q \in Reader |-> get'[q]]
    BY <1>1, <1>5
  <2> QED  BY <1>1, <1>2, <1>5, <2>2, <2>3
<1>7. GetTypes'
  <2>1. get[r].key \in Key /\ get[r].answer \in {{}} \cup {{v} : v \in Value}
    BY <1>1, <1>3 DEF GetTypes
  <2>2. ASSUME NEW q \in Reader
        PROVE  /\ get'[q] = [key |-> get'[q].key, at |-> get'[q].at, answer |-> get'[q].answer]
               /\ get'[q].answer \in {{}} \cup {{v} : v \in Value}
               /\ phase'[q] = "idle" => get'[q] = NoGet
               /\ phase'[q] # "idle" => get'[q].key \in Key
               /\ phase'[q] # "reading" => get'[q].at = 0
    <3>1. CASE q = r
      BY <1>6, <2>1, <3>1
    <3>2. CASE q # r
      BY <1>3, <1>6, <3>2 DEF GetTypes
    <3> QED  BY <3>1, <3>2
  <2> QED  BY <1>6, <2>2 DEF GetTypes
<1>8. UNCHANGED nodes
  BY <1>1 DEF treeVars
<1>9. root \in DOMAIN tree
  BY <1>4 DEF StoreHolds, TypesHold, TreeTypes
<1>10. Walkable(nodes, tree)
  BY <1>3, <1>4, ShapeWalkable DEF Published, HasTree
<1>11. GetsWalk'
  <2>1. ASSUME NEW q \in Reader, get'[q].at # 0, ~exposed'[q]
        PROVE  Walkable(nodes', snap'[q]) /\ get'[q].at \in DOMAIN snap'[q]
    <3>1. CASE q = r
      BY <1>6, <1>8, <1>9, <1>10, <3>1
    <3>2. CASE q # r
      BY <1>3, <1>6, <1>8, <2>1, <3>2 DEF GetsWalk
    <3> QED  BY <3>1, <3>2
  <2> QED  BY <2>1 DEF GetsWalk
<1>12. NodesStay'
  <2>1. PICK C : Safe(C)
    BY DEF TreeParts, NodesStay
  <2>2. root \in C
    BY <1>4, <1>9, <2>1 DEF Safe
  <2>3. GetsIn(C)
    BY <1>6, <2>1, <2>2 DEF Safe, GetsIn
  <2> QED  BY <1>1, <2>1, <2>3, RestStays DEF NodesStay
<1> QED  BY <1>1, <1>7, <1>11, <1>12, RestStays DEF TreeParts

\* A get that has a page to read is reading, and there is a sound node on it.
LEMMA GetReads ==
    ASSUME TreeParts, NEW r \in Reader, get[r].at # 0
    PROVE  /\ phase[r] = "reading" /\ get[r].key \in Key
           /\ SoundNode(nodes[get[r].at], PageSize)
           /\ \A C : Safe(C) => get[r].at \in C
<1>1. phase[r] = "reading" /\ get[r].key \in Key
  BY DEF TreeParts, GetTypes
<1>2. PICK C : Safe(C)
  BY DEF TreeParts, NodesStay
<1>3. get[r].at \in DOMAIN nodes
  BY <1>2 DEF Safe, Closed
<1>4. SoundNode(nodes[get[r].at], PageSize)
  BY <1>3 DEF TreeParts, NodesSound, IsSound
<1> QED  BY <1>1, <1>4 DEF Safe

\* It goes on to a child, which is in the tree of its snapshot or at least a node.
LEMMA DescendKeeps ==
    ASSUME StoreHolds, TreeParts, NEW r \in Reader, Descend(r)
    PROVE  TreeParts'
<1> DEFINE at == get[r].at
           key == get[r].key
           c == ChildFor(nodes[at], key)
<1>1. /\ UNCHANGED <<treeVars, map, root, tree, header, pc, txn>>
      /\ UNCHANGED <<free_list_page_ids, next_page_id, phase, snap, exposed>>
      /\ at # 0 /\ nodes[at].kind = "internal"
      /\ get' = [get EXCEPT ![r].at = ChildFor(nodes[@], get[r].key)]
  BY DEF Descend, storeVars, vars, fileVars, writerVars, readerVars
<1>2. phase[r] = "reading" /\ key \in Key /\ SoundNode(nodes[at], PageSize)
  BY <1>1, GetReads
<1>3. c \in Kids(nodes[at]) /\ c \in PageId
  BY <1>1, <1>2, ChildIs
<1>4. GetTypes /\ GetsWalk
  BY DEF TreeParts
<1>5. DOMAIN get = Reader /\ DOMAIN get[r] = {"key", "at", "answer"}
      /\ get[r] = [key |-> get[r].key, at |-> get[r].at, answer |-> get[r].answer]
  BY <1>4, GetIs
<1>6. /\ \A q \in Reader : q # r => get'[q] = get[q]
      /\ get'[r] = [key |-> get[r].key, at |-> c, answer |-> get[r].answer]
      /\ get' = [q \in Reader |-> get'[q]]
  <2>1. get'[r] = [get[r] EXCEPT !.at = c]
    BY <1>1, <1>5
  <2>2. get'[r] = [key |-> get[r].key, at |-> c, answer |-> get[r].answer]
    BY <1>5, <2>1
  <2>3. get' = [q \in Reader |-> get'[q]]
    BY <1>1, <1>5
  <2> QED  BY <1>1, <1>5, <2>2, <2>3
<1>7. UNCHANGED nodes
  BY <1>1 DEF treeVars
<1> HIDE DEF c
<1>8. GetTypes'
  <2>1. ASSUME NEW q \in Reader
        PROVE  /\ get'[q] = [key |-> get'[q].key, at |-> get'[q].at, answer |-> get'[q].answer]
               /\ get'[q].answer \in {{}} \cup {{v} : v \in Value}
               /\ phase'[q] = "idle" => get'[q] = NoGet
               /\ phase'[q] # "idle" => get'[q].key \in Key
               /\ phase'[q] # "reading" => get'[q].at = 0
    <3>1. CASE q = r
      BY <1>1, <1>2, <1>4, <1>6, <3>1 DEF GetTypes
    <3>2. CASE q # r
      BY <1>1, <1>4, <1>6, <3>2 DEF GetTypes
    <3> QED  BY <3>1, <3>2
  <2> QED  BY <1>6, <2>1 DEF GetTypes
<1>9. GetsWalk'
  <2>1. ASSUME NEW q \in Reader, get'[q].at # 0, ~exposed'[q]
        PROVE  Walkable(nodes', snap'[q]) /\ get'[q].at \in DOMAIN snap'[q]
    <3>1. CASE q = r
      <4>1. Walkable(nodes, snap[r]) /\ at \in DOMAIN snap[r]
        BY <1>1, <1>4, <2>1, <3>1 DEF GetsWalk
      <4>2. c \in DOMAIN snap[r]
        BY <1>1, <1>3, <4>1 DEF Walkable
      <4> QED  BY <1>1, <1>6, <1>7, <3>1, <4>1, <4>2
    <3>2. CASE q # r
      BY <1>1, <1>4, <1>6, <1>7, <2>1, <3>2 DEF GetsWalk
    <3> QED  BY <3>1, <3>2
  <2> QED  BY <2>1 DEF GetsWalk
<1>10. NodesStay'
  <2>1. PICK C : Safe(C)
    BY DEF TreeParts, NodesStay
  <2>2. c \in C
    BY <1>1, <1>3, <2>1, GetReads DEF Safe, Closed
  <2>3. GetsIn(C)
    BY <1>6, <2>1, <2>2 DEF Safe, GetsIn
  <2> QED  BY <1>1, <2>1, <2>3, RestStays DEF NodesStay
<1> QED  BY <1>1, <1>8, <1>9, <1>10, RestStays DEF TreeParts

\* What a leaf answers is a value, or nothing.
LEMMA AnswerIs ==
    ASSUME NEW leaf, SoundLeaf(leaf, PageSize), NEW key \in Key
    PROVE  LeafAnswer(leaf, key) \in {{}} \cup {{v} : v \in Value}
<1> DEFINE s == LeafSearch(leaf, key)
           x == leaf.entries[s.at + 1]
<1>1. s.found => s.at + 1 \in 1 .. Len(leaf.entries)
  BY PageSizeIs, LeafFinds
<1>2. LeafAnswer(leaf, key) = IF s.found THEN {x.val} ELSE {}
  BY DEF LeafAnswer
<1>3. leaf.entries \in Seq(Entry)
  BY DEF SoundLeaf, LeafType
<1> HIDE DEF s
<1>4. s.found => x \in Entry
  BY <1>1, <1>3, ElementOfSeq
<1>5. s.found => x.val \in Value
  BY <1>4 DEF Entry
<1> QED  BY <1>2, <1>5

\* A get ends with an answer.
EndsWith(r, a) == get' = [get EXCEPT ![r].at = 0, ![r].answer = a]

\* Whatever the answer is, the invariant is kept.
LEMMA AnsweredKeeps ==
    ASSUME StoreHolds, TreeParts, NEW r \in Reader, get[r].at # 0,
           NEW a \in {{}} \cup {{v} : v \in Value}, EndsWith(r, a),
           UNCHANGED <<storeVars, treeVars, map>>
    PROVE  TreeParts'
<1> DEFINE key == get[r].key
<1>1. /\ UNCHANGED <<treeVars, map, root, tree, header, pc, txn>>
      /\ UNCHANGED <<free_list_page_ids, next_page_id, phase, snap, exposed>>
  BY DEF storeVars, vars, fileVars, writerVars, readerVars
<1>2. phase[r] = "reading" /\ key \in Key
  BY GetReads
<1>4. GetTypes /\ GetsWalk
  BY DEF TreeParts
<1>5. DOMAIN get = Reader /\ DOMAIN get[r] = {"key", "at", "answer"}
      /\ get[r] = [key |-> get[r].key, at |-> get[r].at, answer |-> get[r].answer]
  BY <1>4, GetIs
<1>6. /\ \A q \in Reader : q # r => get'[q] = get[q]
      /\ get'[r] = [key |-> get[r].key, at |-> 0, answer |-> a]
      /\ get' = [q \in Reader |-> get'[q]]
  <2> DEFINE done == [get EXCEPT ![r].at = 0]
  <2>0. get' = [done EXCEPT ![r].answer = a]
    BY DEF EndsWith
  <2>1. DOMAIN done = Reader /\ done[r] = [get[r] EXCEPT !.at = 0]
    BY <1>5
  <2>2. get'[r] = [key |-> get[r].key, at |-> 0, answer |-> a]
    <3>1. done[r] = [key |-> get[r].key, at |-> 0, answer |-> get[r].answer]
      BY <1>5, <2>1
    <3> HIDE DEF done
    <3>2. get'[r] = [done[r] EXCEPT !.answer = a]
      BY <2>0, <2>1
    <3> QED  BY <3>1, <3>2
  <2>3. get' = [q \in Reader |-> get'[q]] /\ \A q \in Reader : q # r => get'[q] = get[q]
    BY <1>5 DEF EndsWith
  <2> QED  BY <2>2, <2>3
<1>7. UNCHANGED nodes
  BY <1>1 DEF treeVars
<1>8. GetTypes'
  <2>1. ASSUME NEW q \in Reader
        PROVE  /\ get'[q] = [key |-> get'[q].key, at |-> get'[q].at, answer |-> get'[q].answer]
               /\ get'[q].answer \in {{}} \cup {{v} : v \in Value}
               /\ phase'[q] = "idle" => get'[q] = NoGet
               /\ phase'[q] # "idle" => get'[q].key \in Key
               /\ phase'[q] # "reading" => get'[q].at = 0
    <3>1. CASE q = r
      <4>1. phase'[r] = "reading"
        BY <1>1, <1>2
      <4>2. get'[r].key = key /\ get'[r].at = 0 /\ get'[r].answer = a
            /\ get'[r] = [key |-> get'[r].key, at |-> get'[r].at, answer |-> get'[r].answer]
        BY <1>6
      <4>3. get'[r].answer \in {{}} \cup {{v} : v \in Value}
        BY <4>2
      <4> QED  BY <1>2, <3>1, <4>1, <4>2, <4>3
    <3>2. CASE q # r
      BY <1>1, <1>4, <1>6, <3>2 DEF GetTypes
    <3> QED  BY <3>1, <3>2
  <2> QED  BY <1>6, <2>1 DEF GetTypes
<1>9. GetsWalk'
  <2>1. ASSUME NEW q \in Reader, get'[q].at # 0, ~exposed'[q]
        PROVE  Walkable(nodes', snap'[q]) /\ get'[q].at \in DOMAIN snap'[q]
    <3>1. q # r
      BY <1>6, <2>1
    <3> QED  BY <1>1, <1>4, <1>6, <1>7, <2>1, <3>1 DEF GetsWalk
  <2> QED  BY <2>1 DEF GetsWalk
<1>10. NodesStay'
  <2>1. PICK C : Safe(C)
    BY DEF TreeParts, NodesStay
  <2>2. GetsIn(C)
    BY <1>6, <2>1 DEF Safe, GetsIn
  <2> QED  BY <1>1, <2>1, <2>2, RestStays DEF NodesStay
<1> QED  BY <1>1, <1>8, <1>9, <1>10, RestStays DEF TreeParts

\* At a leaf it is what the leaf says.
LEMMA AnswerKeeps ==
    ASSUME StoreHolds, TreeParts, NEW r \in Reader, Answer(r)
    PROVE  TreeParts'
<1> DEFINE at == get[r].at
           a == LeafAnswer(nodes[at], get[r].key)
<1>1. /\ UNCHANGED <<storeVars, treeVars, map>> /\ at # 0 /\ nodes[at].kind = "leaf"
      /\ get' = [get EXCEPT ![r].at = 0, ![r].answer = a]
  BY DEF Answer
<1>2. get[r].key \in Key /\ SoundNode(nodes[at], PageSize)
  BY <1>1, GetReads
<1>3. a \in {{}} \cup {{v} : v \in Value}
  BY <1>1, <1>2, SoundByKind, AnswerIs
<1> HIDE DEF a
<1> QED  BY <1>1, <1>3, AnsweredKeeps DEF EndsWith

\* On a page that is being copied over it is anything,
LEMMA MisreadKeeps ==
    ASSUME StoreHolds, TreeParts, NEW r \in Reader, Misread(r)
    PROVE  TreeParts'
<1>1. PICK a \in {{}} \cup {{v} : v \in Value} :
               get' = [get EXCEPT ![r].at = 0, ![r].answer = a]
  BY DEF Misread
<1> QED  BY <1>1, AnsweredKeeps DEF Misread, EndsWith

\* to which no get comes that is not exposed.
LEMMA MisreadExposed ==
    ASSUME TypesHold, Sound, TreeParts, NEW r \in Reader, get[r].at \in Copying
    PROVE  exposed[r]
<1> SUFFICES ASSUME ~exposed[r]
             PROVE  FALSE
  OBVIOUS
<1>1. get[r].at \in PageId /\ get[r].at # 0
  BY CopyingIs DEF TypesHold, PageId
<1>2. phase[r] = "reading"
  BY <1>1, GetReads
<1>3. ~Booting
  BY <1>2 DEF Sound, Empty
<1>4. get[r].at \in MayWrite /\ pc # "poisoned"
  BY <1>3, CopyingApart
<1>5. get[r].at \notin DOMAIN snap[r]
  BY <1>2, <1>3, <1>4 DEF Sound, ReadersApart, Clear
<1> QED  BY <1>1, <1>5 DEF TreeParts, GetsWalk

\* Then its guard is dropped.
LEMMA EndGetKeeps ==
    ASSUME StoreHolds, TreeParts, NEW r \in Reader, EndGet(r)
    PROVE  TreeParts'
<1>1. /\ UNCHANGED <<treeVars, map, root, tree, header, pc, txn>>
      /\ UNCHANGED <<free_list_page_ids, next_page_id>>
      /\ phase' = [phase EXCEPT ![r] = "idle"]
      /\ snap' = [snap EXCEPT ![r] = <<>>]
      /\ exposed' = [exposed EXCEPT ![r] = FALSE]
      /\ get' = [get EXCEPT ![r] = NoGet]
  BY DEF EndGet, DropRead, fileVars, writerVars
<1>2. /\ phase \in [Reader -> {"idle", "entered", "reading"}]
      /\ DOMAIN snap = Reader /\ DOMAIN exposed = Reader
  BY DEF StoreHolds, TypesHold, ReaderTypes
<1>3. GetTypes /\ GetsWalk
  BY DEF TreeParts
<1>4. DOMAIN get = Reader
  BY <1>3, GetIs
<1>5. /\ \A q \in Reader : q # r => /\ get'[q] = get[q] /\ phase'[q] = phase[q]
                                    /\ snap'[q] = snap[q] /\ exposed'[q] = exposed[q]
      /\ get'[r] = NoGet /\ phase'[r] = "idle"
      /\ get' = [q \in Reader |-> get'[q]]
  BY <1>1, <1>2, <1>4
<1>6. UNCHANGED nodes
  BY <1>1 DEF treeVars
<1>7. GetTypes'
  <2>1. ASSUME NEW q \in Reader
        PROVE  /\ get'[q] = [key |-> get'[q].key, at |-> get'[q].at, answer |-> get'[q].answer]
               /\ get'[q].answer \in {{}} \cup {{v} : v \in Value}
               /\ phase'[q] = "idle" => get'[q] = NoGet
               /\ phase'[q] # "idle" => get'[q].key \in Key
               /\ phase'[q] # "reading" => get'[q].at = 0
    <3>1. CASE q = r
      BY <1>5, <3>1 DEF NoGet
    <3>2. CASE q # r
      BY <1>3, <1>5, <3>2 DEF GetTypes
    <3> QED  BY <3>1, <3>2
  <2> QED  BY <1>5, <2>1 DEF GetTypes
<1>8. GetsWalk'
  <2>1. ASSUME NEW q \in Reader, get'[q].at # 0, ~exposed'[q]
        PROVE  Walkable(nodes', snap'[q]) /\ get'[q].at \in DOMAIN snap'[q]
    <3>1. q # r
      BY <1>5, <2>1 DEF NoGet
    <3> QED  BY <1>3, <1>5, <1>6, <2>1, <3>1 DEF GetsWalk
  <2> QED  BY <2>1 DEF GetsWalk
<1>9. NodesStay'
  <2>1. PICK C : Safe(C)
    BY DEF TreeParts, NodesStay
  <2>2. GetsIn(C)
    BY <1>5, <2>1 DEF Safe, GetsIn, NoGet
  <2> QED  BY <1>1, <2>1, <2>2, RestStays DEF NodesStay
<1> QED  BY <1>1, <1>7, <1>8, <1>9, RestStays DEF TreeParts

---------------------------------------------------------------------------
(* The steps by which processes begin and end keep the invariant.          *)

\* While a store is made no get is under way.
LEMMA NoGetsYet ==
    ASSUME StoreHolds, TreeParts, Booting, NEW r \in Reader
    PROVE  get[r] = NoGet /\ get[r].at = 0 /\ phase[r] = "idle" /\ tree = <<>>
<1>1. phase[r] = "idle" /\ tree = <<>>
  BY DEF StoreHolds, Sound, Empty
<1>2. get[r] = NoGet
  BY <1>1 DEF TreeParts, GetTypes
<1> QED  BY <1>1, <1>2 DEF NoGet

\* The first root is an empty leaf.
LEMMA MakeRootKeeps ==
    ASSUME StoreHolds, TreeParts, MakeRoot
    PROVE  TreeParts'
<1>1. /\ UNCHANGED <<fresh, putting, get, map, phase>> /\ nodes' = Put(nodes, 1, EmptyLeaf)
      /\ pc = "boot" /\ pc' = "bootHeader"
  BY DEF MakeRoot, BootRoot, readerVars
<1>2. Booting /\ Booting' /\ ~IsOpen' /\ ~InPut /\ ~InPut'
  BY <1>1 DEF Booting, IsOpen, InPut
<1>3. \A r \in Reader : get[r].at = 0
  BY <1>2, NoGetsYet
<1>4. 1 \in DOMAIN nodes' /\ nodes'[1] = EmptyLeaf
  BY <1>1 DEF Put
<1>5. NodesSound'
  <2>1. SoundNode(EmptyLeaf, PageSize)
    BY PageSizeIs, EmptyLeafSound
  <2>2. ASSUME NEW p \in DOMAIN nodes' PROVE IsSound(p, nodes')
    <3>1. CASE p = 1
      BY <1>4, <2>1, <3>1 DEF IsSound, PageId
    <3>2. CASE p # 1
      <4>1. p \in DOMAIN nodes /\ nodes'[p] = nodes[p]
        BY <1>1, <3>2 DEF Put
      <4> QED  BY <4>1 DEF TreeParts, NodesSound, IsSound
    <3> QED  BY <3>1, <3>2
  <2> QED  BY <2>2 DEF NodesSound
<1>6. GetTypes' /\ GetsWalk'
  <2>1. GetTypes'
    BY <1>1 DEF TreeParts, GetTypes
  <2>2. GetsWalk'
    BY <1>1, <1>3 DEF GetsWalk
  <2> QED  BY <2>1, <2>2
<1>7. Published'
  BY <1>1, <1>2, <1>4 DEF TreeParts, Published
<1>8. PutGoesOn'
  BY <1>1, <1>2 DEF TreeParts, PutGoesOn
<1>9. NodesStay'
  <2>1. Safe({})'
    BY <1>1, <1>2, <1>3 DEF Safe, Closed, Under
  <2> QED  BY <2>1 DEF NodesStay
<1> QED  BY <1>5, <1>6, <1>7, <1>8, <1>9 DEF TreeParts

\* A page with an empty leaf is a tree that holds nothing.
LEMMA LeafIsTree ==
    ASSUME NEW on, IsSound(1, on), on[1] = EmptyLeaf, NEW T, T = [p \in {1} |-> Node(0, 1)]
    PROVE  HasTree(<<>>, on, T, 1)
<1> DEFINE u == [p \in {1} |-> Key]
<1>1. T[1].level = 1 /\ DOMAIN T = {1}
  BY DEF Node
<1>2. EmptyLeaf.kind = "leaf" /\ EmptyLeaf.entries = <<>> /\ Len(EmptyLeaf.entries) = 0
      /\ Pieces(EmptyLeaf) = 0
  BY EmptySeq DEF EmptyLeaf, LeafOf, Pieces
<1>3. 1 .. 0 = {}
  OBVIOUS
<1>4. KeysIn(EmptyLeaf, Key) /\ Holding(EmptyLeaf) = {}
  BY <1>2, <1>3 DEF KeysIn, Holding
<1>5. MaxHeight \in Nat
  BY BoundAssumption
<1>6. 1 \in 1 .. 1 /\ 1 \in 1 .. MaxHeight + 1
  BY <1>5
<1>7. Placed(on[1], Key, 1, T, u)
  BY <1>2, <1>4 DEF Placed
<1>8. Fits(1, on, T, 1, u)
  BY <1>1, <1>6, <1>7 DEF Fits
<1>9. Apart(T, u)
  BY <1>1 DEF Apart
<1>10. Shape(on, T, 1, u)
  BY <1>1, <1>6, <1>8, <1>9 DEF Shape
<1>11. Holds(<<>>, on, T, u)
  <2> DEFINE m == <<>>
  <2>1. DOMAIN m = {}
    OBVIOUS
  <2>2. m = [k \in DOMAIN m |-> m[k]]
    OBVIOUS
  <2>3. {[key |-> k, val |-> m[k]] : k \in DOMAIN m \cap u[1]} = {}
    BY <2>1
  <2>4. Holding(on[1]) = {[key |-> k, val |-> m[k]] : k \in DOMAIN m \cap u[1]}
    BY <1>4, <2>3
  <2> HIDE DEF m
  <2>5. Holds(m, on, T, u)
    BY <1>1, <2>1, <2>2, <2>4 DEF Holds
  <2> QED  BY <2>5 DEF m
<1>12. u \in [DOMAIN T -> SUBSET Key]
  BY <1>1
<1> QED  BY <1>10, <1>11, <1>12 DEF HasTree

\* The first tree holds the empty map.
LEMMA MakeHeaderKeeps ==
    ASSUME StoreHolds, TreeParts, MakeHeader
    PROVE  TreeParts' /\ UNCHANGED map
<1>1. UNCHANGED <<nodes, fresh, putting, get, map, phase>> /\ pc = "bootHeader"
  BY DEF MakeHeader, BootHeader, treeVars, readerVars
<1>2. /\ root' = 1 /\ tree' = [p \in {1} |-> Node(0, 1)] /\ next_page_id' = 2
      /\ header' = [root |-> 1, next |-> 2, head |-> 0, tree |-> tree']
      /\ free_list_page_ids' = <<>> /\ pc' = "idle"
  BY BootDone DEF MakeHeader, StoreHolds, TypesHold
<1>3. Booting /\ ~Booting' /\ IsOpen' /\ ~InPut /\ ~InPut'
  BY <1>1, <1>2 DEF Booting, IsOpen, InPut
<1>4. \A r \in Reader : get[r].at = 0
  BY <1>3, NoGetsYet
<1>5. 1 \in DOMAIN nodes /\ nodes[1] = EmptyLeaf /\ map = <<>>
  BY <1>1, <1>3 DEF TreeParts, Published
<1>6. NodesSound' /\ GetTypes'
  BY <1>1 DEF TreeParts, NodesSound, GetTypes
<1>7. GetsWalk'
  BY <1>1, <1>4 DEF GetsWalk
<1>8. Published'
  <2>1. IsSound(1, nodes)
    BY <1>5 DEF TreeParts, NodesSound
  <2>2. HasTree(<<>>, nodes, tree', 1)
    BY <1>2, <1>5, <2>1, LeafIsTree
  <2>3. HasTree(map, nodes, tree, root)'
    BY <1>1, <1>2, <1>5, <2>2
  <2>4. header'.root = 1
    BY <1>2
  <2> QED  BY <1>2, <1>3, <2>3, <2>4 DEF Published
<1>9. PutGoesOn'
  BY <1>1, <1>3 DEF TreeParts, PutGoesOn
<1>10. NodesStay'
  <2>1. PICK C : C = {1}
    OBVIOUS
  <2>2. Closed(C)'
    <3>1. EmptyLeaf.kind = "leaf"
      BY DEF EmptyLeaf, LeafOf
    <3> QED  BY <1>1, <1>5, <2>1, <3>1 DEF Closed
  <2>3. Under(C, next_page_id')
    BY <1>2, <2>1 DEF Under
  <2>4. DOMAIN tree' \subseteq C /\ C \cap Range(free_list_page_ids') = {}
    BY <1>2, <2>1, EmptyRange
  <2>5. Safe(C)'
    BY <1>1, <1>3, <1>4, <2>2, <2>3, <2>4 DEF Safe
  <2> QED  BY <2>5 DEF NodesStay
<1> QED  BY <1>1, <1>6, <1>7, <1>8, <1>9, <1>10 DEF TreeParts

\* The header's tree holds the map, or the one that a put is about to make.
LEMMA HeaderHolds ==
    ASSUME StoreHolds, TreeParts, ~Booting
    PROVE  \E m : /\ HasTree(m, nodes, header.tree, header.root)
                  /\ \/ m = map
                     \/ \E e \in Entry : putting = {e} /\ m = Updated(map, e)
<1>1. header.root = IF pc = "publish" THEN txn.root ELSE root
  BY DEF TreeParts, Published
<1>2. header.tree = IF pc = "publish" THEN txn.tree ELSE tree
  BY DEF StoreHolds, Sound, HeaderTrue
<1>3. CASE pc = "publish"
  <2>1. PICK e \in Entry : /\ putting = {e}
                           /\ HasTree(Updated(map, e), nodes, txn.tree, txn.root)
    BY <1>3, PutWhole
  <2> QED  BY <1>1, <1>2, <1>3, <2>1
<1>4. CASE pc # "publish"
  <2>1. IsOpen
    BY DEF StoreHolds, Sound, Booting, IsOpen
  <2>2. HasTree(map, nodes, tree, root)
    BY <2>1 DEF TreeParts, Published
  <2> QED  BY <1>1, <1>2, <1>4, <2>2
<1> QED  BY <1>3, <1>4

\* The header of a file that is not torn is the one that was written.
LEMMA HeaderLeft ==
    ASSUME FileLeft, ~torn'
    PROVE  header' = header
BY DEF FileLeft

\* A process that opens the file has the tree of the header, which holds the map
\* or, when a put had written its header, the map with its entry.
LEMMA RestartKeeps ==
    ASSUME StoreHolds, TreeParts, ReopenTree \/ CrashTree
    PROVE  /\ TreeParts' /\ putting' = {} /\ \A r \in Reader : phase'[r] = "idle"
           /\ \/ map' = map
              \/ \E e \in Entry : putting = {e} /\ map' = Updated(map, e)
<1>1. /\ Reopen \/ Crash
      /\ fresh' = <<>> /\ putting' = {}
      /\ \A p \in DOMAIN nodes' : p \in DOMAIN nodes /\ nodes'[p] = nodes[p]
      /\ \A p \in DOMAIN nodes : disk'[p] = disk[p] => p \in DOMAIN nodes'
      /\ get' = [r \in Reader |-> NoGet]
      /\ map' = IF pc' = "idle" THEN Contents(nodes', root') ELSE map
  BY DEF ReopenTree, CrashTree, NextProcess
<1> DEFINE chain == Chain(disk', header'.head)
<1>2. /\ NoReaders /\ FileLeft
      /\ OpensAgainWith(chain) \/ FailsToOpen(chain) \/ StartsAfresh
  <2>1. FileTypes /\ TxnTypes /\ ~torn'
    BY DEF StoreHolds, TypesHold
  <2> QED  BY <1>1, <2>1, RestartDone DEF FailsAtHeader
<1> HIDE DEF chain
<1>3. \A r \in Reader : phase'[r] = "idle" /\ get'[r] = NoGet /\ get'[r].at = 0
  BY <1>1, <1>2 DEF NoReaders, NoGet
<1>4. NodesSound'
  BY <1>1 DEF TreeParts, NodesSound, IsSound
<1>5. GetTypes'
  <2>1. get' = [r \in Reader |-> get'[r]]
    BY <1>1
  <2>2. ASSUME NEW r \in Reader
        PROVE  /\ get'[r] = [key |-> get'[r].key, at |-> get'[r].at, answer |-> get'[r].answer]
               /\ get'[r].answer \in {{}} \cup {{v} : v \in Value}
               /\ phase'[r] = "idle" => get'[r] = NoGet
               /\ phase'[r] # "idle" => get'[r].key \in Key
               /\ phase'[r] # "reading" => get'[r].at = 0
    BY <1>3 DEF NoGet
  <2> QED  BY <2>1, <2>2 DEF GetTypes
<1>6. GetsWalk'
  BY <1>3 DEF GetsWalk
<1>7. pc' # "dead"
  BY DEF StoreHolds, Sound
<1>8. CASE OpensAgainWith(chain)
  <2>1. /\ header' # NoHeader /\ pc' = "idle" /\ root' = header'.root /\ tree' = header'.tree
    BY <1>8 DEF OpensAgainWith
  <2>2. ~Booting /\ header' = header
    <3>1. header' = header
      BY <1>2, <2>1, HeaderLeft DEF StoreHolds
    <3>2. HeaderTypes
      BY DEF StoreHolds, TypesHold
    <3> QED  BY <2>1, <3>1, <3>2 DEF HeaderTypes
  <2>3. PICK m : /\ HasTree(m, nodes, header.tree, header.root)
                 /\ \/ m = map
                    \/ \E e \in Entry : putting = {e} /\ m = Updated(map, e)
    BY <2>2, HeaderHolds
  <2>10. HasTree(m, nodes', header.tree, header.root)
    <3>1. ASSUME NEW p \in DOMAIN header.tree, p \in DOMAIN nodes
          PROVE  p \in DOMAIN nodes' /\ nodes'[p] = nodes[p]
      <4>1. Intact(header.tree)
        BY <2>2, HeaderTreeWhole DEF StoreHolds
      <4>2. disk'[p] = NodePage(header.tree[p])
        BY <1>2, <2>2, LeftSound DEF StoreHolds
      <4>3. disk'[p] = disk[p]
        BY <4>1, <4>2 DEF Intact
      <4> QED  BY <1>1, <3>1, <4>3
    <3> QED  BY <2>3, <3>1, TreeKept
  <2>4. map' = m
    BY <1>1, <2>1, <2>2, <2>10, ContentsAre DEF HasTree
  <2>5. ~Booting' /\ IsOpen' /\ ~InPut'
    BY <2>1 DEF Booting, IsOpen, InPut
  <2>6. HasTree(map, nodes, tree, root)'
    BY <2>1, <2>2, <2>4, <2>10
  <2>7. Published'
    BY <2>1, <2>2, <2>5, <2>6 DEF Published
  <2>8. PutGoesOn'
    BY <1>1, <2>5 DEF PutGoesOn
  <2>9. NodesStay'
    <3>1. PICK C : C = DOMAIN tree'
      OBVIOUS
    <3>2. Walkable(nodes', tree')
      BY <2>6, ShapeWalkable DEF HasTree
    <3>3. Closed(C)'
      <4>1. C \subseteq DOMAIN nodes'
        BY <3>1, <3>2 DEF Walkable, IsSound
      <4>2. ASSUME NEW p \in C, nodes'[p].kind = "internal"
            PROVE  Kids(nodes'[p]) \subseteq C
        BY <3>1, <3>2, <4>2 DEF Walkable
      <4> QED  BY <4>1, <4>2 DEF Closed
    <3>4. C \cap Range(free_list_page_ids') = {} /\ Under(C, next_page_id')
      <4>1. TreeWhole'
        BY <2>5 DEF StoreHolds, Sound
      <4> QED  BY <3>1, <4>1 DEF TreeWhole
    <3>5. Safe(C)'
      BY <1>3, <2>5, <3>1, <3>3, <3>4 DEF Safe
    <3> QED  BY <3>5 DEF NodesStay
  <2> QED  BY <1>1, <1>3, <1>4, <1>5, <1>6, <2>3, <2>4, <2>7, <2>8, <2>9 DEF TreeParts
<1>9. CASE StartsAfresh
  <2>1. header = NoHeader /\ pc' = "boot"
    BY <1>2, <1>9, HeaderLeft DEF StartsAfresh, StoreHolds
  <2>2. Booting /\ Booting' /\ ~IsOpen' /\ ~InPut'
    <3>1. HeaderTypes /\ pc # "dead"
      BY DEF StoreHolds, TypesHold, Sound
    <3> QED  BY <2>1, <3>1 DEF HeaderTypes, Booting, IsOpen, InPut
  <2>3. map = <<>> /\ map' = map
    BY <1>1, <2>1, <2>2 DEF TreeParts, Published
  <2>4. Published'
    BY <2>1, <2>2, <2>3 DEF Published
  <2>5. PutGoesOn'
    BY <1>1, <2>2 DEF PutGoesOn
  <2>6. NodesStay'
    <3>1. Safe({})'
      BY <1>3, <2>2 DEF Safe, Closed, Under
    <3> QED  BY <3>1 DEF NodesStay
  <2> QED  BY <1>1, <1>3, <1>4, <1>5, <1>6, <2>3, <2>4, <2>5, <2>6 DEF TreeParts
<1> QED  BY <1>2, <1>7, <1>8, <1>9 DEF FailsToOpen

---------------------------------------------------------------------------
(* So the invariant holds, and what follows.                               *)

\* It holds at the start.
LEMMA TreeInvStarts == TreeInit => TreeInv
<1> SUFFICES ASSUME TreeInit
             PROVE  TreeInv
  OBVIOUS
<1>1. Init /\ nodes = <<>> /\ fresh = <<>> /\ putting = {}
      /\ get = [r \in Reader |-> NoGet] /\ map = <<>>
  BY DEF TreeInit
<1>2. StoreInv
  BY <1>1, InitTypes, StartSound DEF StoreInv
<1>3. pc = "boot" /\ ~torn /\ \A r \in Reader : phase[r] = "idle"
  BY <1>1 DEF Init
<1>4. Booting /\ ~IsOpen /\ ~InPut
  BY <1>3 DEF Booting, IsOpen, InPut
<1>5. NodesSound
  <2>1. DOMAIN nodes = {}
    BY <1>1
  <2> QED  BY <2>1 DEF NodesSound
<1>6. GetTypes
  <2>1. get = [r \in Reader |-> get[r]]
    BY <1>1
  <2>2. ASSUME NEW r \in Reader
        PROVE  /\ get[r] = [key |-> get[r].key, at |-> get[r].at, answer |-> get[r].answer]
               /\ get[r].answer \in {{}} \cup {{v} : v \in Value}
               /\ phase[r] = "idle" => get[r] = NoGet
               /\ phase[r] # "idle" => get[r].key \in Key
               /\ phase[r] # "reading" => get[r].at = 0
    BY <1>1, <1>3 DEF NoGet
  <2> QED  BY <2>1, <2>2 DEF GetTypes
<1>7. \A r \in Reader : get[r].at = 0
  BY <1>1 DEF NoGet
<1>8. Published
  BY <1>1, <1>3, <1>4 DEF Published
<1>9. PutGoesOn
  BY <1>1, <1>4 DEF PutGoesOn
<1>10. GetsWalk
  BY <1>7 DEF GetsWalk
<1>11. NodesStay
  <2>1. Safe({})
    BY <1>4, <1>7 DEF Safe, Closed, Under
  <2> QED  BY <2>1 DEF NodesStay
<1> QED  BY <1>2, <1>3, <1>5, <1>6, <1>8, <1>9, <1>10, <1>11 DEF TreeInv

\* What changes nothing keeps it all.
LEMMA StutterKeeps ==
    ASSUME TreeParts, UNCHANGED allVars
    PROVE  TreeParts'
<1>1. /\ UNCHANGED <<nodes, get, treeVars, map, root, tree, header, pc, txn>>
      /\ UNCHANGED <<free_list_page_ids, next_page_id, phase, snap, exposed>>
  BY DEF allVars, storeVars, treeVars, vars, fileVars, writerVars, readerVars
<1>2. GetTypes' /\ GetsWalk'
  BY <1>1, GetsStay DEF TreeParts
<1>3. PICK C : Safe(C)
  BY DEF TreeParts, NodesStay
<1>4. GetsIn(C)
  BY <1>1, <1>3 DEF Safe, GetsIn
<1> QED  BY <1>1, <1>2, <1>3, <1>4, RestStays DEF TreeParts, NodesStay

\* Every step keeps it.
LEMMA TreeInvStep == TreeInv /\ [TreeNext]_allVars => TreeInv'
<1> SUFFICES ASSUME TreeInv, [TreeNext]_allVars
             PROVE  TreeInv'
  OBVIOUS
<1>1. StoreHolds /\ TreeParts /\ StoreInv'
  BY PartsAre
<1>2. TreeParts'
  <2>1. CASE NextPut
    <3>1. PICK e \in Entry : PutEntry(e)
      BY <1>1, <2>1, NextPutIs DEF StoreHolds, TypesHold
    <3> QED  BY <1>1, <3>1, PutKeeps
  <2>2. CASE Commit
    BY <1>1, <2>2, NodeKeeps, GateKeeps, LinkKeeps, HeaderKeeps, EndKeeps, FailKeeps
    DEF Commit
  <2>3. ASSUME NEW r \in Reader, Get(r) PROVE TreeParts'
    <3>1. ASSUME NEW key \in Busy, BeginGet(r, key) PROVE TreeParts'
      BY <1>1, <3>1, PutsAssumption, BeginGetKeeps
    <3> QED  BY <1>1, <2>3, <3>1, GetRootKeeps, DescendKeeps, AnswerKeeps, MisreadKeeps,
                EndGetKeeps
             DEF Get
  <2>4. CASE MakeRoot
    BY <1>1, <2>4, MakeRootKeeps
  <2>5. CASE MakeHeader
    BY <1>1, <2>5, MakeHeaderKeeps
  <2>6. CASE ReopenTree \/ CrashTree
    BY <1>1, <2>6, RestartKeeps
  <2>7. CASE UNCHANGED allVars
    BY <1>1, <2>7, StutterKeeps
  <2> QED  BY <2>1, <2>2, <2>3, <2>4, <2>5, <2>6, <2>7 DEF TreeNext
<1> QED  BY <1>1, <1>2 DEF StoreHolds, TreeInv, TreeParts

\* The invariant holds in every behavior.
THEOREM TreeInvHolds == TreeSpec => []TreeInv
BY TreeInvStarts, TreeInvStep, PTL DEF TreeSpec

\* Every behavior of the tree is one of the store.
THEOREM TreeUsesStore == TreeSpec => UsesStore
<1>1. TreeInit => Init
  BY DEF TreeInit
<1>2. TreeInv /\ [TreeNext]_allVars => [Next]_vars
  BY UsesStep
<1> QED  BY <1>1, <1>2, TreeInvHolds, PTL DEF TreeSpec, UsesStore, Spec

\* A sound node is a node.
LEMMA SoundIsNode ==
    ASSUME NEW n, SoundNode(n, PageSize)
    PROVE  IsNode(n)
BY DEF SoundNode, SoundLeaf, SoundInternal, IsNode, Ids

\* Every page that a get is sent to was put as a node, and no page that is being
\* copied is read by a get that loaded its root outside a commit's window between
\* gate and store: Page::decode() does not fail on the walk of any such get.  Of
\* the others it is not said: what they read may be half of a page (BTree.tla).
THEOREM TreeTypesHold == TreeSpec => []TreeTypeOK
<1>1. TreeInv => TreeTypeOK
  <2> SUFFICES ASSUME TreeInv
               PROVE  TreeTypeOK
    OBVIOUS
  <2>1. TreeParts
    BY PartsAre
  <2>2. \A p \in DOMAIN nodes : IsNode(nodes[p])
    BY <2>1, SoundIsNode DEF TreeParts, NodesSound, IsSound
  <2>3. (\A p \in DOMAIN fresh : IsNode(fresh[p])) /\ putting \in {{}} \cup {{e} : e \in Entry}
    <3>1. CASE InPut
      <4>1. PICK e \in Entry : putting = {e} /\ Putting(e)
        BY <2>1, <3>1 DEF TreeParts, PutGoesOn
      <4>2. \A p \in DOMAIN fresh : IsNode(fresh[p])
        BY <4>1, FreshSound, SoundIsNode DEF IsSound
      <4> QED  BY <4>1, <4>2
    <3>2. CASE ~InPut
      <4>1. fresh = <<>> /\ putting = {}
        BY <2>1, <3>2 DEF TreeParts, PutGoesOn
      <4>2. DOMAIN fresh = {}
        BY <4>1
      <4> QED  BY <4>1, <4>2
    <3> QED  BY <3>1, <3>2
  <2>4. ASSUME NEW r \in Reader
        PROVE  /\ get[r].key \in Key \cup {0}
               /\ get[r].at \in DOMAIN nodes \cup {0}
               /\ get[r].at \in Copying => exposed[r]
               /\ get[r].answer \in {{}} \cup {{v} : v \in Value}
    <3>1. get[r].answer \in {{}} \cup {{v} : v \in Value}
      BY <2>1 DEF TreeParts, GetTypes
    <3>2. get[r].key \in Key \cup {0}
      BY <2>1 DEF TreeParts, GetTypes, NoGet
    <3>3. get[r].at \in DOMAIN nodes \cup {0}
      BY <2>1 DEF TreeParts, NodesStay, Safe, Closed
    <3>4. get[r].at \in Copying => exposed[r]
      BY <2>1, MisreadExposed DEF TreeInv, StoreInv
    <3> QED  BY <3>1, <3>2, <3>3, <3>4
  <2> QED  BY <2>2, <2>3, <2>4 DEF TreeTypeOK
<1> QED  BY <1>1, TreeInvHolds, PTL

\* The pages that are reached from the published root are those that the store
\* holds for its tree, each reached in one way, all leaves at one depth, and what
\* they hold is the map of the puts that were published (storage/tree.rs).
THEOREM TreeStaysReal == TreeSpec => []TreeIsReal
<1>1. TreeInv => TreeIsReal
  <2> SUFFICES ASSUME TreeInv, IsOpen
               PROVE  TreeIsReal
    BY DEF TreeIsReal
  <2> DEFINE layers == Layers(nodes, root)
             above == {p \in DOMAIN tree : nodes[p].kind = "internal"}
  <2>1. PICK u \in [DOMAIN tree -> SUBSET Key] :
                 Shape(nodes, tree, root, u) /\ Holds(map, nodes, tree, u)
    BY DEF TreeInv, Published, HasTree
  <2>2. Walkable(nodes, tree)
    BY <2>1, ShapeWalkable
  <2>3. /\ UNION Range(layers) = DOMAIN tree
        /\ \A d \in 0 .. MaxHeight : \A p \in layers[d] :
              p \in DOMAIN tree /\ tree[p].level = tree[root].level - d
    <3>1. UNION Range(Layers(nodes, root)) = DOMAIN tree
      BY <2>1, LayersAre
    <3>2. OnLevels(Layers(nodes, root), tree, tree[root].level)
      BY <2>1, LayersAre
    <3> QED  BY <3>1, <3>2 DEF OnLevels
  <2> HIDE DEF layers
  <2>4. \A p \in DOMAIN tree : nodes[p].kind = "leaf" <=> tree[p].level = 1
    BY <2>2 DEF Walkable
  <2>5. \A d \in 0 .. MaxHeight : \A p \in layers[d] :
            /\ tree[p].level = Height - d
            /\ nodes[p].kind = "leaf" <=> tree[p].level = 1
    BY <2>3, <2>4 DEF Height
  <2>6. \A p \in above : p \in DOMAIN tree /\ tree[p].level # 1
    BY <2>4
  <2>7. ASSUME NEW p \in above
        PROVE  Range(nodes[p].children) = Kids(nodes[p]) /\ IsInjective(nodes[p].children)
    <3>1. /\ SoundInternal(nodes[p], PageSize)
          /\ Range(nodes[p].children) = Kids(nodes[p])
          /\ \A i, j \in 1 .. Len(nodes[p].children) :
                nodes[p].children[i] = nodes[p].children[j] => i = j
      BY <2>1, <2>6, KidsInTree
    <3>2. nodes[p].children \in Seq(Ids)
      BY <3>1 DEF SoundInternal, InternalType
    <3>3. DOMAIN nodes[p].children = 1 .. Len(nodes[p].children)
      BY <3>2, LenProperties
    <3> QED  BY <3>1, <3>3 DEF IsInjective
  <2>8. \A p, q \in above :
            p # q => Range(nodes[p].children) \cap Range(nodes[q].children) = {}
    <3>1. ASSUME NEW p \in above, NEW q \in above, NEW c,
                 c \in Kids(nodes[p]), c \in Kids(nodes[q])
          PROVE  p = q
      BY <2>1, <2>6, <3>1, OneParent
    <3> QED  BY <2>7, <3>1
  <2>9. map = Contents(nodes, root)
    BY <2>1, ContentsAre
  <2> QED  BY <2>3, <2>5, <2>7, <2>8, <2>9 DEF TreeIsReal, layers
<1> QED  BY <1>1, TreeInvHolds, PTL

\* Every key on a page of the tree is one that a search from the root comes to
\* that page for: the convention of page/internal.rs, through every split.
THEOREM SeparatorsStayTrue == TreeSpec => []SeparatorsCover
<1>1. TreeInv => SeparatorsCover
  <2> SUFFICES ASSUME TreeInv, IsOpen, NEW p \in DOMAIN tree
               PROVE  /\ InOrder(nodes[p])
                      /\ \A i \in 1 .. Pieces(nodes[p]) :
                            p \in Range(PathUp(nodes, root, PieceKey(nodes[p], i)))
    BY DEF SeparatorsCover
  <2>1. PICK u \in [DOMAIN tree -> SUBSET Key] : Shape(nodes, tree, root, u)
    BY DEF TreeInv, Published, HasTree
  <2> QED  BY <2>1, WayComes
<1> QED  BY <1>1, TreeInvHolds, PTL

---------------------------------------------------------------------------
(* The tree implements a map.                                              *)

\* The leaf that a walk comes to, and what it answers.
Meets(on, at, key) == LeafAnswer(on[PathUp(on, at, key)[1]], key)

\* The way that a walk goes, and its leaf.
LEMMA WalkIs ==
    ASSUME NEW on, NEW T, Walkable(on, T), NEW key \in Key, NEW p \in DOMAIN T
    PROVE  /\ IsWay(PathUp(on, p, key), on, T, p, key)
           /\ PathUp(on, p, key)[1] \in DOMAIN T
<1>1. MaxHeight \in Nat /\ MaxHeight \in 0 .. MaxHeight
  BY BoundAssumption
<1>2. T[p].level \in 1 .. MaxHeight + 1
  BY DEF Walkable
<1>3. T[p].level <= MaxHeight + 1 /\ T[p].level >= 1 /\ T[p].level \in Nat
  BY <1>1, <1>2
<1>4. IsWay(Ways(on, key)[MaxHeight][p], on, T, p, key)
  BY <1>1, <1>3, WaysAre
<1>5. IsWay(PathUp(on, p, key), on, T, p, key)
  BY <1>4 DEF PathUp
<1> DEFINE w == PathUp(on, p, key)
<1> HIDE DEF w
<1>6. w \in Seq(DOMAIN T) /\ 1 \in 1 .. Len(w)
  BY <1>3, <1>5, LenProperties DEF IsWay, w
<1>7. w[1] \in DOMAIN T
  BY <1>6, ElementOfSeq
<1> QED  BY <1>5, <1>7 DEF w

\* A walk over pages that stay as they are meets the same leaf.
LEMMA MeetsSame ==
    ASSUME NEW on, NEW new, NEW T, Walkable(on, T), NEW key \in Key, NEW p \in DOMAIN T,
           \A q \in DOMAIN T : q \in DOMAIN new /\ new[q] = on[q]
    PROVE  Meets(new, p, key) = Meets(on, p, key)
<1>1. Walkable(new, T)
  BY WalkableKept
<1>2. /\ IsWay(PathUp(on, p, key), on, T, p, key)
      /\ PathUp(on, p, key)[1] \in DOMAIN T
  BY WalkIs
<1>3. IsWay(PathUp(new, p, key), new, T, p, key)
  BY <1>1, WalkIs
<1>4. PathUp(on, p, key) = PathUp(new, p, key)
  BY <1>2, <1>3, WayIsOne
<1> QED  BY <1>2, <1>4 DEF Meets

\* A walk that goes on to a child meets the leaf that it was to meet.
LEMMA MeetsBelow ==
    ASSUME NEW on, NEW T, Walkable(on, T), NEW key \in Key, NEW p \in DOMAIN T,
           on[p].kind = "internal"
    PROVE  /\ ChildFor(on[p], key) \in DOMAIN T
           /\ Meets(on, ChildFor(on[p], key), key) = Meets(on, p, key)
<1> DEFINE c == ChildFor(on[p], key)
           v == PathUp(on, p, key)
           w == PathUp(on, c, key)
           n == Len(v)
           x == [l \in 1 .. n - 1 |-> v[l]]
<1>1. /\ SoundNode(on[p], PageSize) /\ T[p].level # 1
      /\ T[p].level \in 1 .. MaxHeight + 1
      /\ \A d \in Kids(on[p]) : d \in DOMAIN T /\ T[d].level = T[p].level - 1
  BY DEF Walkable, IsSound
<1>2. c \in Kids(on[p])
  BY <1>1, ChildIs
<1>3. c \in DOMAIN T /\ T[c].level = T[p].level - 1
  BY <1>1, <1>2
<1>4. IsWay(v, on, T, p, key)
  BY WalkIs
<1>5. IsWay(w, on, T, c, key)
  BY <1>3, WalkIs
<1> HIDE DEF v, w, c
<1>6. /\ v \in Seq(DOMAIN T) /\ n = T[p].level /\ v[n] = p
      /\ \A l \in 1 .. n : T[v[l]].level = l
      /\ \A l \in 1 .. n - 1 : v[l] = ChildFor(on[v[l + 1]], key)
  BY <1>4 DEF IsWay
<1>7. n \in Nat /\ n > 1 /\ n - 1 \in Nat /\ n - 1 >= 1
  BY <1>1, <1>6, BoundAssumption
<1>8. \A l \in 1 .. n : v[l] \in DOMAIN T
  BY <1>6, ElementOfSeq
<1> HIDE DEF n
<1>9. x \in Seq(DOMAIN T) /\ Len(x) = n - 1 /\ \A l \in 1 .. n - 1 : x[l] = v[l]
  <2>1. x \in [1 .. n - 1 -> DOMAIN T]
    BY <1>7, <1>8
  <2>2. x \in Seq(DOMAIN T)
    BY <1>7, <2>1
  <2>3. Len(x) = n - 1
    BY <1>7, <2>1, <2>2, LenProperties
  <2> QED  BY <2>2, <2>3
<1> HIDE DEF x
<1>10. IsWay(x, on, T, c, key)
  <2>1. n - 1 \in 1 .. n - 1 /\ (n - 1) + 1 = n
    BY <1>7
  <2>2. v[n - 1] = ChildFor(on[v[(n - 1) + 1]], key)
    BY <1>6, <2>1
  <2>3. x[n - 1] = c
    BY <1>6, <1>9, <2>1, <2>2 DEF c
  <2>4. \A l \in 1 .. n - 1 : T[x[l]].level = l
    BY <1>6, <1>7, <1>9
  <2>5. \A l \in 1 .. (n - 1) - 1 : x[l] = ChildFor(on[x[l + 1]], key)
    <3> SUFFICES ASSUME NEW l \in 1 .. (n - 1) - 1
                 PROVE  x[l] = ChildFor(on[x[l + 1]], key)
      OBVIOUS
    <3>1. l \in 1 .. n - 1 /\ l + 1 \in 1 .. n - 1
      BY <1>7
    <3> QED  BY <1>6, <1>9, <3>1
  <2> QED  BY <1>3, <1>6, <1>9, <2>3, <2>4, <2>5 DEF IsWay
<1>11. x = w
  BY <1>5, <1>10, WayIsOne
<1>12. w[1] = v[1]
  <2>1. 1 \in 1 .. n - 1
    BY <1>7
  <2> QED  BY <1>9, <1>11, <2>1
<1> QED  BY <1>3, <1>12 DEF Meets, v, w, c

\* A walk at a leaf meets that.
LEMMA MeetsLeaf ==
    ASSUME NEW on, NEW T, Walkable(on, T), NEW key \in Key, NEW p \in DOMAIN T,
           on[p].kind = "leaf"
    PROVE  Meets(on, p, key) = LeafAnswer(on[p], key)
<1> DEFINE v == PathUp(on, p, key)
<1>1. T[p].level = 1
  BY DEF Walkable
<1>2. IsWay(v, on, T, p, key)
  BY WalkIs
<1>3. v[1] = p
  BY <1>1, <1>2 DEF IsWay
<1> QED  BY <1>3 DEF Meets

---------------------------------------------------------------------------
(* How a map sees the gets.                                                *)

Gets == [r \in Reader |-> GetOf(r)]

\* What a get is seen as.
LEMMA GetSeen ==
    ASSUME TreeParts, StoreHolds, NEW r \in Reader
    PROVE  /\ phase[r] = "idle" \/ exposed[r] => GetOf(r) = Map!NoGet
           /\ phase[r] = "entered" => GetOf(r) = Map!Asked(get[r].key) /\ ~exposed[r]
           /\ phase[r] = "reading" /\ ~exposed[r] =>
                 GetOf(r) = Map!Found(get[r].key,
                               IF get[r].at = 0 THEN get[r].answer
                               ELSE Meets(nodes, get[r].at, get[r].key))
<1>1. phase[r] \in {"idle", "entered", "reading"} /\ (phase[r] # "reading" => ~exposed[r])
  BY DEF StoreHolds, TypesHold, ReaderTypes
<1>2. CASE phase[r] = "idle" \/ exposed[r]
  BY <1>1, <1>2 DEF GetOf, Map!NoGet
<1>3. CASE phase[r] = "entered" /\ ~exposed[r]
  BY <1>3 DEF GetOf, Map!Asked
<1>4. CASE phase[r] = "reading" /\ ~exposed[r]
  <2>1. GetOf(r) = [step |-> "found", key |-> get[r].key,
                    answer |-> IF get[r].at = 0 THEN get[r].answer
                               ELSE Meets(nodes, get[r].at, get[r].key)]
    BY <1>4 DEF GetOf, Meets
  <2> QED  BY <1>4, <2>1 DEF Map!Found
<1> QED  BY <1>1, <1>2, <1>3, <1>4

\* A get is seen the same while its reader stays where it is and the pages
\* that it may come to, if it is not exposed, do.
LEMMA GetSeenSame ==
    ASSUME TreeParts, NEW r \in Reader,
           phase'[r] = phase[r], exposed'[r] = exposed[r], get'[r] = get[r],
           get[r].at # 0 /\ ~exposed[r] =>
               \A q \in DOMAIN snap[r] : q \in DOMAIN nodes' /\ nodes'[q] = nodes[q]
    PROVE  GetOf(r)' = GetOf(r)
<1>1. CASE get[r].at # 0 /\ ~exposed[r]
  <2>1. Walkable(nodes, snap[r]) /\ get[r].at \in DOMAIN snap[r]
    BY <1>1 DEF TreeParts, GetsWalk
  <2>2. get[r].key \in Key
    BY <1>1 DEF TreeParts, GetTypes
  <2>3. Meets(nodes', get[r].at, get[r].key) = Meets(nodes, get[r].at, get[r].key)
    BY <1>1, <2>1, <2>2, MeetsSame
  <2> QED  BY <1>1, <2>3 DEF GetOf, Meets
<1>2. CASE exposed[r]
  BY <1>2 DEF GetOf
<1>3. CASE get[r].at = 0
  BY <1>3 DEF GetOf
<1> QED  BY <1>1, <1>2, <1>3

\* No get is seen to change.
LEMMA GetsSeenSame ==
    ASSUME TreeParts, UNCHANGED <<phase, exposed, get>>,
           \A r \in Reader : get[r].at # 0 /\ ~exposed[r] =>
               \A q \in DOMAIN snap[r] : q \in DOMAIN nodes' /\ nodes'[q] = nodes[q]
    PROVE  Gets' = Gets
<1>1. ASSUME NEW r \in Reader PROVE GetOf(r)' = GetOf(r)
  BY GetSeenSame
<1> QED  BY <1>1 DEF Gets

\* The pages of a get that is not exposed stay as they are.
LEMMA PagesStay ==
    ASSUME StoreHolds, TreeParts, NEW p, OthersStay(p), p \in MayWrite,
           pc # "poisoned", ~Booting, NEW r \in Reader, get[r].at # 0, ~exposed[r]
    PROVE  \A q \in DOMAIN snap[r] : q \in DOMAIN nodes' /\ nodes'[q] = nodes[q]
<1>1. phase[r] = "reading"
  BY DEF TreeParts, GetTypes
<1>2. Clear(snap[r])
  BY <1>1 DEF StoreHolds, Sound, ReadersApart
<1>3. p \notin DOMAIN snap[r]
  BY <1>2 DEF Clear
<1>4. Walkable(nodes, snap[r])
  BY DEF TreeParts, GetsWalk
<1>5. \A q \in DOMAIN snap[r] : q \in DOMAIN nodes
  BY <1>4 DEF Walkable, IsSound
<1> QED  BY <1>3, <1>5 DEF OthersStay

\* So where the nodes that there are stay.
LEMMA GetsUnseen ==
    ASSUME TreeParts, UNCHANGED <<phase, exposed, get, nodes>>
    PROVE  Gets' = Gets
<1>1. ASSUME NEW r \in Reader, get[r].at # 0, ~exposed[r]
      PROVE  \A q \in DOMAIN snap[r] : q \in DOMAIN nodes' /\ nodes'[q] = nodes[q]
  <2>1. Walkable(nodes, snap[r])
    BY <1>1 DEF TreeParts, GetsWalk
  <2> QED  BY <2>1 DEF Walkable, IsSound
<1> QED  BY <1>1, GetsSeenSame

\* What the writer does is seen as a put that begins, ends or fails, or as
\* nothing.
MapSteps == [Map!Next]_(Map!vars)

\* Nothing is seen.
LEMMA Unseen ==
    ASSUME UNCHANGED <<map, putting>>, Gets' = Gets
    PROVE  MapSteps
BY DEF MapSteps, Map!vars, Gets

\* A put is seen to begin.
LEMMA PutSeen ==
    ASSUME TreeInv, TreeParts, NEW e \in Entry, PutEntry(e)
    PROVE  MapSteps
<1>1. putting' = {e} /\ UNCHANGED <<nodes, get, map>> /\ pc = "idle"
  BY DEF PutEntry
<1>2. UNCHANGED <<phase, exposed>>
  <2>1. PICK path \in Paths, k \in 0 .. Height : BeginPutOn(path, k)
    BY PutBegins
  <2> QED  BY <2>1 DEF BeginPutOn, readerVars
<1>3. Gets' = Gets
  BY <1>1, <1>2, GetsUnseen
<1>4. putting = {}
  BY <1>1 DEF TreeParts, PutGoesOn, InPut
<1>5. e = [key |-> e.key, val |-> e.val] /\ e.key \in Key /\ e.val \in Value
  BY DEF Entry
<1>6. Map!BeginPut(e.key, e.val)
  BY <1>1, <1>3, <1>4, <1>5 DEF Map!BeginPut, Gets
<1>7. Map!Next
  BY <1>5, <1>6 DEF Map!Next
<1> QED  BY <1>7 DEF MapSteps

\* The map after a put of an entry.
LEMMA AfterIs ==
    ASSUME NEW m, NEW e
    PROVE  Map!After(m, {e}) = Updated(m, e)
<1>1. {x.key : x \in {e}} = {e.key}
  OBVIOUS
<1>2. (CHOOSE x \in {e} : x.key = e.key) = e
  OBVIOUS
<1>3. \A k : (\E x \in {e} : x.key = k) <=> k = e.key
  OBVIOUS
<1>4. Map!After(m, {e}) =
        [k \in DOMAIN m \cup {e.key} |->
            IF k = e.key THEN (CHOOSE x \in {e} : x.key = k).val ELSE m[k]]
  BY <1>1, <1>3 DEF Map!After
<1>5. ASSUME NEW k \in DOMAIN m \cup {e.key}
      PROVE  (IF k = e.key THEN (CHOOSE x \in {e} : x.key = k).val ELSE m[k])
               = IF k = e.key THEN e.val ELSE m[k]
  BY <1>2
<1> QED  BY <1>4, <1>5 DEF Updated

\* It is seen to end when its root is stored, or to fail, and nothing between.
LEMMA CommitSeen ==
    ASSUME StoreHolds, TreeParts, Commit
    PROVE  MapSteps
<1>1. CASE WriteNode
  <2> DEFINE p == Head(txn.writes)
  <2>1. /\ UNCHANGED <<putting, get, map, phase, exposed>>
        /\ pc = "writing" /\ txn.writes # <<>> /\ nodes' = Put(nodes, p, fresh[p])
    BY <1>1 DEF WriteNode, WritePage, PagesLeft, readerVars
  <2>2. p \in MayWrite
    BY <2>1, RangeOfTail DEF StoreHolds, TypesHold, TxnTypes, MayWrite
  <2>3. OthersStay(p)
    BY <2>1 DEF OthersStay, Put
  <2>4. pc # "poisoned" /\ ~Booting
    BY <2>1 DEF Booting
  <2> HIDE DEF p
  <2>5. Gets' = Gets
    BY <2>1, <2>2, <2>3, <2>4, PagesStay, GetsSeenSame
  <2> QED  BY <2>1, <2>5, Unseen
<1>2. CASE WriteLink
  <2> DEFINE p == Head(txn.chain).page
  <2>1. /\ UNCHANGED <<putting, get, map, phase, exposed>>
        /\ pc = "chain" /\ txn.chain # <<>>
        /\ nodes' = [q \in DOMAIN nodes \ {p} |-> nodes[q]]
    BY <1>2 DEF WriteLink, WriteChainPage, ChainLeft, readerVars
  <2>2. pc # "poisoned" /\ ~Booting
    BY <2>1 DEF Booting
  <2>3. PICK k \in 0 .. PagesNeeded(free_list \o pending_free) : ChainWritten(k)
    BY <2>1, <2>2 DEF StoreHolds, Sound, ChainGoesOn
  <2>4. p \in MayWrite
    BY <2>1, <2>3, ChainPageIs DEF StoreHolds, MayWrite
  <2>5. OthersStay(p)
    BY <2>1 DEF OthersStay
  <2> HIDE DEF p
  <2>6. Gets' = Gets
    BY <2>1, <2>2, <2>4, <2>5, PagesStay, GetsSeenSame
  <2> QED  BY <2>1, <2>6, Unseen
<1>3. CASE PassGate \/ SetHeader
  <2>1. UNCHANGED <<nodes, putting, get, map, phase, exposed>>
    BY <1>3 DEF PassGate, SetHeader, FoldAndGate, WriteHeader, treeVars, readerVars
  <2> QED  BY <2>1, GetsUnseen, Unseen
<1>4. CASE EndPut
  <2>1. UNCHANGED <<nodes, get, phase, exposed>> /\ putting' = {}
    BY <1>4 DEF EndPut, Publish, readerVars
  <2>2. PICK e \in Entry : putting = {e} /\ map' = Updated(map, e)
    BY <1>4, EndKeeps
  <2>3. Gets' = Gets
    BY <2>1, GetsUnseen
  <2>4. map' = Map!After(map, putting) /\ putting # {}
    BY <2>2, AfterIs
  <2>5. Map!EndPut
    BY <2>1, <2>3, <2>4 DEF Map!EndPut, Gets
  <2> QED  BY <2>5 DEF MapSteps, Map!Next
<1>5. CASE FailPut
  <2>1. UNCHANGED <<nodes, get, map, phase, exposed>> /\ putting' = {}
        /\ pc \in {"writing", "chain"}
    BY <1>5 DEF FailPut, HitCeiling, readerVars
  <2>2. putting # {}
    BY <2>1 DEF TreeParts, PutGoesOn, InPut
  <2>3. Gets' = Gets
    BY <2>1, GetsUnseen
  <2>4. Map!FailPut
    BY <2>1, <2>2, <2>3 DEF Map!FailPut, Gets
  <2> QED  BY <2>4 DEF MapSteps, Map!Next
<1> QED  BY <1>1, <1>2, <1>3, <1>4, <1>5 DEF Commit

\* Only the get of one reader is seen to change.
LEMMA OneSeen ==
    ASSUME TreeParts, NEW r \in Reader, UNCHANGED nodes,
           \A q \in Reader : q # r =>
               phase'[q] = phase[q] /\ exposed'[q] = exposed[q] /\ get'[q] = get[q]
    PROVE  Gets' = [Gets EXCEPT ![r] = GetOf(r)']
<1>1. ASSUME NEW q \in Reader, q # r PROVE GetOf(q)' = GetOf(q)
  <2>1. get[q].at # 0 /\ ~exposed[q] =>
            \A p \in DOMAIN snap[q] : p \in DOMAIN nodes' /\ nodes'[p] = nodes[p]
    BY DEF TreeParts, GetsWalk, Walkable, IsSound
  <2> QED  BY <1>1, <2>1, GetSeenSame
<1> QED  BY <1>1 DEF Gets

\* Nor is that one.
LEMMA NoneSeen ==
    ASSUME NEW r \in Reader, Gets' = [Gets EXCEPT ![r] = GetOf(r)'], GetOf(r)' = GetOf(r),
           UNCHANGED <<map, putting>>
    PROVE  MapSteps
<1>1. Gets' = Gets
  BY DEF Gets
<1> QED  BY <1>1, Unseen

\* What the map sees of a get that ends, or that it need not hear of again.
LEMMA EndSeen ==
    ASSUME NEW r \in Reader, Gets' = [Gets EXCEPT ![r] = GetOf(r)'],
           GetOf(r) # Map!NoGet, GetOf(r)' = Map!NoGet, UNCHANGED <<map, putting>>
    PROVE  MapSteps
<1>1. Map!EndGet(r)
  BY DEF Map!EndGet, Gets
<1> QED  BY <1>1 DEF MapSteps, Map!Next

\* A get is seen to be asked,
LEMMA BeginGetSeen ==
    ASSUME StoreHolds, TreeParts, NEW r \in Reader, NEW key \in Key,
           BeginGet(r, key)
    PROVE  MapSteps
<1>1. /\ UNCHANGED <<nodes, putting, map, exposed>>
      /\ phase[r] = "idle" /\ phase' = [phase EXCEPT ![r] = "entered"]
      /\ get' = [get EXCEPT ![r].key = key]
  BY DEF BeginGet, EnterRead, treeVars
<1>2. phase \in [Reader -> {"idle", "entered", "reading"}] /\ ~exposed[r]
  BY <1>1 DEF StoreHolds, TypesHold, ReaderTypes
<1>3. DOMAIN get = Reader /\ DOMAIN get[r] = {"key", "at", "answer"}
  BY GetIs DEF TreeParts
<1>4. /\ \A q \in Reader : q # r => get'[q] = get[q] /\ phase'[q] = phase[q]
      /\ get'[r].key = key /\ phase'[r] = "entered" /\ ~exposed'[r]
  BY <1>1, <1>2, <1>3
<1>5. Gets' = [Gets EXCEPT ![r] = GetOf(r)']
  BY <1>1, <1>4, OneSeen
<1>6. GetOf(r) = Map!NoGet
  BY <1>1, GetSeen
<1>7. GetOf(r)' = Map!Asked(key)
  BY <1>4 DEF GetOf, Map!Asked
<1>8. Map!BeginGet(r)
  <2>1. Gets[r] = Map!NoGet /\ Gets' = [Gets EXCEPT ![r] = Map!Asked(key)]
    BY <1>5, <1>6, <1>7 DEF Gets
  <2> QED  BY <1>1, <2>1 DEF Map!BeginGet, Gets
<1> QED  BY <1>8 DEF MapSteps, Map!Next

\* to have its answer when it loads the root, unless that exposes it,
LEMMA GetRootSeen ==
    ASSUME StoreHolds, TreeParts, NEW r \in Reader, GetRoot(r)
    PROVE  MapSteps
<1>1. /\ UNCHANGED <<nodes, putting, map>>
      /\ phase[r] = "entered" /\ phase' = [phase EXCEPT ![r] = "reading"]
      /\ exposed' = [exposed EXCEPT ![r] = txn.promoted]
      /\ get' = [get EXCEPT ![r].at = root]
  BY DEF GetRoot, LoadRoot, treeVars
<1>2. /\ phase \in [Reader -> {"idle", "entered", "reading"}]
      /\ DOMAIN exposed = Reader
  BY DEF StoreHolds, TypesHold, ReaderTypes
<1>3. DOMAIN get = Reader /\ DOMAIN get[r] = {"key", "at", "answer"}
  BY GetIs DEF TreeParts
<1>4. /\ \A q \in Reader : q # r =>
            get'[q] = get[q] /\ phase'[q] = phase[q] /\ exposed'[q] = exposed[q]
      /\ get'[r].key = get[r].key /\ get'[r].at = root
      /\ phase'[r] = "reading" /\ exposed'[r] = txn.promoted
  BY <1>1, <1>2, <1>3
<1>5. Gets' = [Gets EXCEPT ![r] = GetOf(r)']
  BY <1>1, <1>4, OneSeen
<1> DEFINE key == get[r].key
<1>6. GetOf(r) = Map!Asked(key) /\ key \in Key
  BY <1>1, GetSeen DEF TreeParts, GetTypes
<1>7. CASE txn.promoted
  <2>1. GetOf(r)' = Map!NoGet
    BY <1>4, <1>7 DEF GetOf, Map!NoGet
  <2>2. GetOf(r) # Map!NoGet
    <3>1. GetOf(r).step = "asked" /\ Map!NoGet.step = "none"
      BY <1>6 DEF Map!Asked, Map!NoGet
    <3> QED  BY <3>1
  <2> QED  BY <1>1, <1>5, <2>1, <2>2, EndSeen
<1>8. CASE ~txn.promoted
  <2>1. IsOpen
    BY <1>1 DEF StoreHolds, Sound, Empty, IsOpen, Booting
  <2>2. root \in DOMAIN tree /\ root # 0
    BY <2>1 DEF StoreHolds, TypesHold, TreeTypes, IsTree, PageId
  <2>3. PICK u \in [DOMAIN tree -> SUBSET Key] :
                 Shape(nodes, tree, root, u) /\ Holds(map, nodes, tree, u)
    BY <2>1 DEF TreeParts, Published, HasTree
  <2>4. Meets(nodes, root, key) = IF key \in DOMAIN map THEN {map[key]} ELSE {}
    BY <1>6, <2>3, PathAnswers DEF Meets
  <2>5. Map!Lookup(map, key) = Meets(nodes, root, key)
    BY <2>4 DEF Map!Lookup
  <2>6. GetOf(r)' = Map!Found(key, Meets(nodes, root, key))
    BY <1>1, <1>4, <1>8, <2>2 DEF GetOf, Map!Found, Meets
  <2>7. Map!FindKey(r)
    <3>1. Gets[r] = Map!Asked(key)
      BY <1>6 DEF Gets
    <3>2. Gets[r].step = "asked" /\ Gets[r].key = key
      BY <3>1 DEF Map!Asked
    <3>3. Gets' = [Gets EXCEPT ![r] = Map!Found(Gets[r].key, Map!Lookup(map, Gets[r].key))]
      BY <1>5, <2>5, <2>6, <3>2
    <3> QED  BY <1>1, <3>2, <3>3 DEF Map!FindKey, Gets
  <2> QED  BY <2>7 DEF MapSteps, Map!Next
<1> QED  BY <1>7, <1>8

\* to have the same one on its whole way down,
LEMMA DescendSeen ==
    ASSUME StoreHolds, TreeParts, NEW r \in Reader, Descend(r)
    PROVE  MapSteps
<1> DEFINE at == get[r].at
           key == get[r].key
           c == ChildFor(nodes[at], key)
<1>1. /\ UNCHANGED <<nodes, putting, map, phase, exposed>>
      /\ at # 0 /\ nodes[at].kind = "internal"
      /\ get' = [get EXCEPT ![r].at = ChildFor(nodes[@], get[r].key)]
  BY DEF Descend, storeVars, vars, readerVars, treeVars
<1>2. phase[r] = "reading" /\ key \in Key
  BY <1>1, GetReads
<1>3. DOMAIN get = Reader /\ DOMAIN get[r] = {"key", "at", "answer"}
  BY GetIs DEF TreeParts
<1>4. /\ \A q \in Reader : q # r => get'[q] = get[q]
      /\ get'[r].key = key /\ get'[r].at = c
  BY <1>1, <1>3
<1>5. Gets' = [Gets EXCEPT ![r] = GetOf(r)']
  BY <1>1, <1>4, OneSeen
<1>6. GetOf(r)' = GetOf(r)
  <2>1. CASE exposed[r]
    BY <1>1, <2>1 DEF GetOf
  <2>2. CASE ~exposed[r]
    <3>1. Walkable(nodes, snap[r]) /\ at \in DOMAIN snap[r]
      BY <1>1, <2>2 DEF TreeParts, GetsWalk
    <3>2. c \in DOMAIN snap[r] /\ Meets(nodes, c, key) = Meets(nodes, at, key)
      BY <1>1, <1>2, <3>1, MeetsBelow
    <3>3. c # 0
      BY <3>1, <3>2 DEF Walkable, IsSound, PageId
    <3>4. GetOf(r) = Map!Found(key, Meets(nodes, at, key))
      BY <1>1, <1>2, <2>2, GetSeen
    <3> HIDE DEF c
    <3>5. GetOf(r)' = Map!Found(key, Meets(nodes, c, key))
      BY <1>1, <1>2, <1>4, <2>2, <3>3 DEF GetOf, Map!Found, Meets
    <3> QED  BY <3>2, <3>4, <3>5
  <2> QED  BY <2>1, <2>2
<1> QED  BY <1>1, <1>5, <1>6, NoneSeen

\* and at the leaf,
LEMMA AnswerSeen ==
    ASSUME StoreHolds, TreeParts, NEW r \in Reader, Answer(r)
    PROVE  MapSteps
<1> DEFINE at == get[r].at
           key == get[r].key
           a == LeafAnswer(nodes[at], key)
           done == [get EXCEPT ![r].at = 0]
<1>1. /\ UNCHANGED <<nodes, putting, map, phase, exposed>>
      /\ at # 0 /\ nodes[at].kind = "leaf"
      /\ get' = [done EXCEPT ![r].answer = a]
  BY DEF Answer, storeVars, vars, readerVars, treeVars
<1>2. phase[r] = "reading" /\ key \in Key
  BY <1>1, GetReads
<1>3. DOMAIN get = Reader /\ DOMAIN get[r] = {"key", "at", "answer"}
  BY GetIs DEF TreeParts
<1>4. /\ \A q \in Reader : q # r => get'[q] = get[q]
      /\ get'[r].key = key /\ get'[r].at = 0 /\ get'[r].answer = a
  <2>1. /\ DOMAIN done = Reader /\ \A q \in Reader : q # r => done[q] = get[q]
        /\ DOMAIN done[r] = {"key", "at", "answer"}
        /\ done[r].key = key /\ done[r].at = 0
    BY <1>3
  <2> HIDE DEF done, a
  <2> QED  BY <1>1, <2>1
<1>5. Gets' = [Gets EXCEPT ![r] = GetOf(r)']
  BY <1>1, <1>4, OneSeen
<1>6. GetOf(r)' = GetOf(r)
  <2>1. CASE exposed[r]
    BY <1>1, <2>1 DEF GetOf
  <2>2. CASE ~exposed[r]
    <3>1. Walkable(nodes, snap[r]) /\ at \in DOMAIN snap[r]
      BY <1>1, <2>2 DEF TreeParts, GetsWalk
    <3>2. Meets(nodes, at, key) = a
      BY <1>1, <1>2, <3>1, MeetsLeaf
    <3>3. GetOf(r) = Map!Found(key, Meets(nodes, at, key))
      BY <1>1, <1>2, <2>2, GetSeen
    <3> HIDE DEF a
    <3>4. GetOf(r)' = Map!Found(key, a)
      BY <1>1, <1>2, <1>4, <2>2 DEF GetOf, Map!Found
    <3> QED  BY <3>2, <3>3, <3>4
  <2> QED  BY <2>1, <2>2
<1> QED  BY <1>1, <1>5, <1>6, NoneSeen

\* and the map does not hear of one that misreads a page.
LEMMA MisreadSeen ==
    ASSUME StoreHolds, TreeParts, NEW r \in Reader, Misread(r)
    PROVE  MapSteps
<1>1. /\ UNCHANGED <<nodes, putting, map, phase, exposed>>
      /\ \E a : get' = [get EXCEPT ![r].at = 0, ![r].answer = a]
  BY DEF Misread, storeVars, vars, readerVars, treeVars
<1>2. exposed[r]
  BY MisreadExposed DEF Misread, StoreHolds
<1>3. \A q \in Reader : q # r => get'[q] = get[q]
  BY <1>1, GetIs DEF TreeParts
<1>4. Gets' = [Gets EXCEPT ![r] = GetOf(r)']
  BY <1>1, <1>3, OneSeen
<1>5. GetOf(r)' = GetOf(r)
  BY <1>1, <1>2 DEF GetOf
<1> QED  BY <1>1, <1>4, <1>5, NoneSeen

\* until it returns.
LEMMA EndGetSeen ==
    ASSUME StoreHolds, TreeParts, NEW r \in Reader, EndGet(r)
    PROVE  MapSteps
<1>1. /\ UNCHANGED <<nodes, putting, map>>
      /\ phase[r] = "reading" /\ phase' = [phase EXCEPT ![r] = "idle"]
      /\ exposed' = [exposed EXCEPT ![r] = FALSE]
      /\ get' = [get EXCEPT ![r] = NoGet]
  BY DEF EndGet, DropRead, treeVars
<1>2. /\ phase \in [Reader -> {"idle", "entered", "reading"}]
      /\ DOMAIN exposed = Reader
  BY DEF StoreHolds, TypesHold, ReaderTypes
<1>3. DOMAIN get = Reader
  BY GetIs DEF TreeParts
<1>4. /\ \A q \in Reader : q # r =>
            get'[q] = get[q] /\ phase'[q] = phase[q] /\ exposed'[q] = exposed[q]
      /\ phase'[r] = "idle"
  BY <1>1, <1>2, <1>3
<1>5. Gets' = [Gets EXCEPT ![r] = GetOf(r)']
  BY <1>1, <1>4, OneSeen
<1>6. GetOf(r)' = Map!NoGet
  BY <1>4 DEF GetOf, Map!NoGet
<1>7. CASE GetOf(r) = Map!NoGet
  BY <1>1, <1>5, <1>6, <1>7, NoneSeen
<1>8. CASE GetOf(r) # Map!NoGet
  BY <1>1, <1>5, <1>6, <1>8, EndSeen
<1> QED  BY <1>7, <1>8

\* While a store is made there are no gets to be seen.
LEMMA BootSeen ==
    ASSUME StoreHolds, TreeParts, MakeRoot \/ MakeHeader
    PROVE  MapSteps
<1>1. Booting /\ UNCHANGED <<putting, map, phase>>
  BY DEF MakeRoot, MakeHeader, BootRoot, BootHeader, Booting, readerVars, treeVars
<1>2. ASSUME NEW r \in Reader PROVE GetOf(r)' = GetOf(r)
  <2>1. phase[r] = "idle"
    BY <1>1, NoGetsYet
  <2> QED  BY <1>1, <2>1 DEF GetOf
<1>3. Gets' = Gets
  BY <1>2 DEF Gets
<1> QED  BY <1>1, <1>3, Unseen

\* A process that ends takes its gets along, and a put is done or it is not.
LEMMA RestartSeen ==
    ASSUME StoreHolds, TreeParts, ReopenTree \/ CrashTree
    PROVE  MapSteps
<1>1. /\ putting' = {} /\ \A r \in Reader : phase'[r] = "idle"
      /\ \/ map' = map
         \/ \E e \in Entry : putting = {e} /\ map' = Updated(map, e)
  BY RestartKeeps
<1>2. map' \in {map, Map!After(map, putting)}
  BY <1>1, AfterIs
<1>3. ASSUME NEW r \in Reader PROVE GetOf(r)' = Map!NoGet
  BY <1>1 DEF GetOf, Map!NoGet
<1>4. Gets' = [r \in Reader |-> Map!NoGet]
  BY <1>3 DEF Gets
<1>5. Map!Restart
  BY <1>1, <1>2, <1>4 DEF Map!Restart, Gets
<1> QED  BY <1>5 DEF MapSteps, Map!Next

\* Every step of the tree is one of the map.
LEMMA MapStep ==
    ASSUME TreeInv, [TreeNext]_allVars
    PROVE  MapSteps
<1>1. StoreHolds /\ TreeParts
  BY PartsAre
<1>2. CASE NextPut
  <2>1. PICK e \in Entry : PutEntry(e)
    BY <1>1, <1>2, NextPutIs DEF StoreHolds, TypesHold
  <2> QED  BY <1>1, <2>1, PutSeen
<1>3. CASE Commit
  BY <1>1, <1>3, CommitSeen
<1>4. ASSUME NEW r \in Reader, Get(r) PROVE MapSteps
  <2>1. ASSUME NEW key \in Busy, BeginGet(r, key) PROVE MapSteps
    BY <1>1, <2>1, PutsAssumption, BeginGetSeen
  <2> QED  BY <1>1, <1>4, <2>1, GetRootSeen, DescendSeen, AnswerSeen, MisreadSeen,
              EndGetSeen
           DEF Get
<1>5. CASE MakeRoot \/ MakeHeader
  BY <1>1, <1>5, BootSeen
<1>6. CASE ReopenTree \/ CrashTree
  BY <1>1, <1>6, RestartSeen
<1>7. CASE UNCHANGED allVars
  <2>1. UNCHANGED <<phase, exposed, get, nodes, map, putting>>
    BY <1>7 DEF allVars, storeVars, vars, treeVars, readerVars
  <2> QED  BY <1>1, <2>1, GetsUnseen, Unseen
<1> QED  BY <1>2, <1>3, <1>4, <1>5, <1>6, <1>7 DEF TreeNext

\* The B+tree is a map to its callers: puts take effect at once and survive the
\* process, gets answer from one moment between call and answer, in whatever
\* order their steps and those of a put come (StorageEngine::put() and get()).
THEOREM TreeImplementsMap == TreeSpec => ImplementsMap
<1>1. TreeInit => Map!Init
  <2> SUFFICES ASSUME TreeInit
               PROVE  Map!Init
    OBVIOUS
  <2>1. map = <<>> /\ putting = {} /\ \A r \in Reader : phase[r] = "idle"
    BY DEF TreeInit, Init
  <2>2. \A r \in Reader : GetOf(r) = Map!NoGet
    BY <2>1 DEF GetOf, Map!NoGet
  <2>3. Gets = [r \in Reader |-> Map!NoGet]
    BY <2>2 DEF Gets
  <2> QED  BY <2>1, <2>3 DEF Map!Init, Gets
<1>2. TreeInv /\ [TreeNext]_allVars => [Map!Next]_(Map!vars)
  BY MapStep DEF MapSteps
<1> QED  BY <1>1, <1>2, TreeInvHolds, PTL DEF TreeSpec, ImplementsMap, Map!Spec
=============================================================================
