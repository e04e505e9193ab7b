------------------------------ MODULE PageLife ------------------------------
(***************************************************************************)
(* The life of one node of the tree, over all that puts may do to it.  A   *)
(* put that reaches a leaf adds or replaces an entry; one that splits a    *)
(* child makes the node above absorb a separator; a node that splits lives *)
(* on as either half or, if it was the root, as the new root above them.   *)
(* Every node of every tree is a state of this specification, so what      *)
(* holds here holds of each page that is ever written.                     *)
(***************************************************************************)
EXTENDS Pages

CONSTANTS
    PageSizes,      \* page sizes that stores may be opened with
    AnyPage         \* a page id: which one does not matter to a single node

\* Below 49 bytes there is no room for the header (page/header.rs), above
\* 43696 the sizes of an oversized node no longer fit into a u16.
ASSUME PageSizeAssumption ==
    \A p \in PageSizes : p \in Nat /\ 49 <= p /\ p <= 43696

ASSUME AnyPageAssumption == AnyPage \in Nat \ {0}

VARIABLES
    page_size,      \* of the store that the node is in, for good
    node            \* the node, as it is written to a page

vars == <<page_size, node>>

Init ==
    /\ page_size \in PageSizes
    /\ node = EmptyLeaf

\* What the node of interest is after an InsertResult.
Becomes(r) ==
    /\ node' \in IF r.split
                 THEN {r.left, r.right, NewRoot(r.sep, AnyPage, AnyPage)}
                 ELSE {r.left}
    /\ UNCHANGED page_size

\* put() of an entry within the limits reaches this leaf.
PutEntry(e) ==
    /\ node.kind = "leaf"
    /\ CheckLimits(page_size, e.key, e.val)
    /\ Becomes(InsertLeaf(node, e, page_size))

\* A child of this node splits at a key that is not yet a separator here,
\* and that was put with some value.
AbsorbSplit(sep) ==
    /\ node.kind = "internal"
    /\ \A i \in 1 .. Len(node.keys) : node.keys[i] # sep
    /\ \E v \in Value : CheckLimits(page_size, sep, v)
    /\ Becomes(InsertInternal(node, ChildIndex(node, sep), sep,
                              AnyPage, AnyPage, page_size))

Next ==
    \/ \E e \in Entry : PutEntry(e)
    \/ \E sep \in Key : AbsorbSplit(sep)

Spec == Init /\ [][Next]_vars

---------------------------------------------------------------------------
(* What must be true of every node. *)

\* The shape of a node: an internal one has one child more than it has keys
\* (the assertion in InternalNode::to_bytes).
TypeOK ==
    /\ page_size \in PageSizes
    /\ LeafType(node) \/ InternalType(node, Nat \ {0})

\* The offsets kept while a node is built are where its entries are: lookups
\* and split points depend on it.
OffsetsTrue == Offsets(node)

\* Every node that is written fits into its page, however entries within
\* the limit are mixed: to_bytes() would otherwise panic in the middle of a
\* put, and poison the writer's mutex.
PagesFit == NBytes(node) <= page_size

\* No put leaves a node without entries or keys (the assertions m >= 1,
\* m < nkeys() and m <= np - 2 of the split functions).
NoEmptyNode == [][Pieces(node') >= 1]_vars

\* Keys are in strictly increasing order (the assertions in push() and
\* push_key()), without which searches miss keys that are there.
KeysInOrder == InOrder(node)

\* The binary searches end, and find the place that is meant.
SearchesAgree ==
    \A key \in Key :
        IF node.kind = "leaf"
        THEN LeafSearchLoop(node, key) = LeafSearch(node, key)
        ELSE ChildIndexLoop(node, key) = ChildIndex(node, key)
=============================================================================
