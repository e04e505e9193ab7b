------------------------------- MODULE Pages -------------------------------
(***************************************************************************)
(* The nodes of 01-btree (page/leaf.rs, page/internal.rs, page/mod.rs) as  *)
(* values, and what insertion and splitting make of them.  There are no    *)
(* variables: BTree.tla keeps nodes on pages, PageLife.tla follows one.    *)
(*                                                                         *)
(* A key is a natural number that stands for a byte string in its place    *)
(* among the others; its length and a value's length are constants.  An    *)
(* offset into a node is what it is in the code: an entry of entry_start   *)
(* or key_start, kept while the node is built.  Sequences count from 1,    *)
(* indices of the code (at, idx, m) and offsets from 0.                    *)
(***************************************************************************)
EXTENDS Integers, SequencesExt

CONSTANTS
    Key,            \* byte strings that serve as keys, by their order
    Value,          \* byte strings that serve as values
    KeyLen, ValLen  \* how long each is

ASSUME KeyAssumption == Key \subseteq Nat /\ KeyLen \in [Key -> Nat]
ASSUME ValueAssumption == ValLen \in [Value -> Nat]

---------------------------------------------------------------------------
(* Sizes. *)

\* Offsets and sizes are u16 when a split is computed; a release build wraps
\* (a debug build panics).
U16(n) == n % 65536

LEAF_HEADER == 11
INTERNAL_HEADER == 11

EntryBytes(e) == 4 + KeyLen[e.key] + ValLen[e.val]

SepBytes(key) == 2 + KeyLen[key]

MaxKvSize_NoHeaders(page_size) == page_size \div 2

\* max_kv_size(): the subtraction saturates.
MaxKvSize(page_size) ==
    IF page_size >= INTERNAL_HEADER + 28
    THEN (page_size - (INTERNAL_HEADER + 28)) \div 2 ELSE 0

\* check_limits() returns Ok.
CheckLimits(page_size, key, val) ==
    KeyLen[key] + ValLen[val] <= MaxKvSize(page_size)

---------------------------------------------------------------------------
(* Nodes.  start has one offset more than there are entries or keys: the   *)
(* length of all of them.                                                  *)

Entry == [key : Key, val : Value]

LeafOf(entries, start) == [kind |-> "leaf", entries |-> entries, start |-> start]

InternalOf(keys, start, children) ==
    [kind |-> "internal", keys |-> keys, start |-> start, children |-> children]

NoStart == [i \in 0 .. 0 |-> 0]

EmptyLeaf == LeafOf(<<>>, NoStart)

\* put()'s new root above one that split.
NewRoot(sep, lid, rid) ==
    InternalOf(<<sep>>, [i \in 0 .. 1 |-> IF i = 0 THEN 0 ELSE SepBytes(sep)],
               <<lid, rid>>)

LeafBytes(l) == LEAF_HEADER + l.start[Len(l.entries)]

InternalBytes(n) ==
    INTERNAL_HEADER + n.start[Len(n.keys)] + 8 * Len(n.children)

NBytes(node) ==
    IF node.kind = "leaf" THEN LeafBytes(node) ELSE InternalBytes(node)

\* push() of something of the given size before what was at idx.
Pushed(start, n, idx, bytes) ==
    [i \in 0 .. n + 1 |-> IF i <= idx THEN start[i] ELSE start[i - 1] + bytes]

\* push_range(): what lies from one index to another, alone.
Slice(start, from, to) == [i \in 0 .. to - from |-> start[from + i] - start[from]]

---------------------------------------------------------------------------
(* Searching.  LeafSearch and ChildIndex say what the binary searches      *)
(* find; the Loop forms are the searches, step by step.                    *)

LeafSearch_MissesLast(l, key) ==
    LET n  == Len(l.entries)
        at == Min({i \in 0 .. n : i = n \/ key <= l.entries[i + 1].key})
    IN  [found |-> at < n - 1 /\ l.entries[at + 1].key = key, at |-> at]

LeafSearch(l, key) ==
    LET n  == Len(l.entries)
        at == Min({i \in 0 .. n : i = n \/ key <= l.entries[i + 1].key})
    IN  [found |-> at < n /\ l.entries[at + 1].key = key, at |-> at]

ChildIndex_Strict(node, key) ==
    LET n == Len(node.keys)
    IN  Min({i \in 0 .. n : i = n \/ key <= node.keys[i + 1]})

\* internal_child_index().
ChildIndex(node, key) ==
    LET n == Len(node.keys)
    IN  Min({i \in 0 .. n : i = n \/ key < node.keys[i + 1]})

LeafSearchLoop_SkipsLast(l, key) ==
    LET n == Len(l.entries)
        look[range \in (0 .. n) \X (-1 .. n - 1)] ==
            LET lo  == range[1]
                hi  == range[2]
                mid == lo + (hi - lo) \div 2
                k   == l.entries[mid + 1].key
            IN  IF lo >= hi THEN [found |-> FALSE, at |-> lo]
                ELSE IF k = key THEN [found |-> TRUE, at |-> mid]
                ELSE IF k < key THEN look[<<mid + 1, hi>>]
                ELSE look[<<lo, mid - 1>>]
    IN  look[<<0, n - 1>>]

\* leaf_search(): lo and hi are signed, so that hi may end at -1.
LeafSearchLoop(l, key) ==
    LET n == Len(l.entries)
        look[range \in (0 .. n) \X (-1 .. n - 1)] ==
            LET lo  == range[1]
                hi  == range[2]
                mid == lo + (hi - lo) \div 2
                k   == l.entries[mid + 1].key
            IN  IF lo > hi THEN [found |-> FALSE, at |-> lo]
                ELSE IF k = key THEN [found |-> TRUE, at |-> mid]
                ELSE IF k < key THEN look[<<mid + 1, hi>>]
                ELSE look[<<lo, mid - 1>>]
    IN  look[<<0, n - 1>>]

ChildIndexLoop(node, key) ==
    LET n == Len(node.keys)
        look[range \in (0 .. n) \X (0 .. n)] ==
            LET lo  == range[1]
                hi  == range[2]
                mid == lo + (hi - lo) \div 2
            IN  IF lo >= hi THEN lo
                ELSE IF node.keys[mid + 1] <= key THEN look[<<mid + 1, hi>>]
                ELSE look[<<lo, mid>>]
    IN  look[<<0, n>>]

---------------------------------------------------------------------------
(* Leaves. *)

LeafInsert(old, idx, e) ==
    LeafOf(InsertAt(old.entries, idx + 1, e),
           Pushed(old.start, Len(old.entries), idx, EntryBytes(e)))

LeafUpdate_KeepsSize(old, idx, e) ==
    LeafOf(ReplaceAt(old.entries, idx + 1, e), old.start)

LeafUpdate(old, idx, e) ==
    LeafOf(ReplaceAt(old.entries, idx + 1, e),
           [i \in 0 .. Len(old.entries) |->
               IF i <= idx THEN old.start[i]
               ELSE old.start[i] - EntryBytes(old.entries[idx + 1])
                       + EntryBytes(e)])

\* The first loop stops at the greatest m <= n / 2 that leaves the left part
\* small enough, or at 0; the second at the least m from there on that leaves
\* the right part small enough, or at n - 1.
LeafSplitPoint_OneLoop(old, page_size) ==
    LET n       == Len(old.entries)
        left(m) == U16(LEAF_HEADER + U16(old.start[m]))
    IN  Max({m \in 0 .. n \div 2 : m = 0 \/ left(m) <= U16(page_size)})

LeafSplitPoint(old, page_size) ==
    LET n        == Len(old.entries)
        left(m)  == U16(LEAF_HEADER + U16(old.start[m]))
        right(m) == U16(LEAF_HEADER + U16(U16(old.start[n]) - U16(old.start[m])))
        first    == Max({m \in 0 .. n \div 2 :
                            m = 0 \/ left(m) <= U16(page_size)})
    IN  Min({m \in first .. n - 1 : m = n - 1 \/ right(m) <= U16(page_size)})

\* leaf_split_by_size().
LeafSplitBySize(old, page_size) ==
    LET n == Len(old.entries)
        m == LeafSplitPoint(old, page_size)
    IN  [left  |-> LeafOf(SubSeq(old.entries, 1, m), Slice(old.start, 0, m)),
         right |-> LeafOf(SubSeq(old.entries, m + 1, n), Slice(old.start, m, n))]

---------------------------------------------------------------------------
(* Internal nodes. *)

ReplaceChild_Forgets(node, idx, child) == node

\* internal_replace_child().
ReplaceChild(node, idx, child) ==
    InternalOf(node.keys, node.start, ReplaceAt(node.children, idx + 1, child))

\* internal_insert_split_child().
InsertSplitChild(node, idx, sep, lid, rid) ==
    InternalOf(InsertAt(node.keys, idx + 1, sep),
               Pushed(node.start, Len(node.keys), idx, SepBytes(sep)),
               InsertAt(ReplaceAt(node.children, idx + 1, rid), idx + 1, lid))

PromotionPoint(grown, page_size) ==
    LET np       == Len(grown.keys)
        left(m)  == U16(INTERNAL_HEADER + U16(grown.start[m]) + 8 * (m + 1))
        right(m) == U16(INTERNAL_HEADER
                        + U16(U16(grown.start[np]) - U16(grown.start[m + 1]))
                        + 8 * (np - m))
        first    == Max({m \in 0 .. np \div 2 :
                            m = 0 \/ left(m) <= U16(page_size)})
    IN  Min({m \in first .. np - 1 : m = np - 1 \/ right(m) <= U16(page_size)})

SplitWithPromotion_KeepsKey(grown, page_size) ==
    LET np == Len(grown.keys)
        m  == PromotionPoint(grown, page_size)
    IN  [left  |-> InternalOf(SubSeq(grown.keys, 1, m), Slice(grown.start, 0, m),
                              SubSeq(grown.children, 1, m + 1)),
         sep   |-> grown.keys[m + 1],
         right |-> InternalOf(SubSeq(grown.keys, m + 1, np),
                              Slice(grown.start, m, np),
                              SubSeq(grown.children, m + 2, np + 1))]

\* internal_split_with_promotion(): key m goes up and stays in neither half.
SplitWithPromotion(grown, page_size) ==
    LET np == Len(grown.keys)
        m  == PromotionPoint(grown, page_size)
    IN  [left  |-> InternalOf(SubSeq(grown.keys, 1, m), Slice(grown.start, 0, m),
                              SubSeq(grown.children, 1, m + 1)),
         sep   |-> grown.keys[m + 1],
         right |-> InternalOf(SubSeq(grown.keys, m + 2, np),
                              Slice(grown.start, m + 1, np),
                              SubSeq(grown.children, m + 2, np + 1))]

---------------------------------------------------------------------------
(* InsertResult: one node, or two with the key that separates them. *)

Single(node) == [split |-> FALSE, left |-> node, sep |-> 0, right |-> node]

Split(left, sep, right) ==
    [split |-> TRUE, left |-> left, sep |-> sep, right |-> right]

\* insert_leaf(): the separator is a copy of the right leaf's first key.
InsertLeaf(l, e, page_size) ==
    LET s     == LeafSearch(l, e.key)
        built == IF s.found THEN LeafUpdate(l, s.at, e) ELSE LeafInsert(l, s.at, e)
        half  == LeafSplitBySize(built, page_size)
    IN  IF LeafBytes(built) <= page_size THEN Single(built)
        ELSE Split(half.left, half.right.entries[1].key, half.right)

\* The end of insert_internal(): what becomes of a node when the child at
\* idx came back as two, that now are on pages lid and rid.
InsertInternal(node, idx, sep, lid, rid, page_size) ==
    LET grown == InsertSplitChild(node, idx, sep, lid, rid)
        half  == SplitWithPromotion(grown, page_size)
    IN  IF InternalBytes(grown) <= page_size THEN Single(grown)
        ELSE Split(half.left, half.sep, half.right)
---------------------------------------------------------------------------
(* What nodes look like when they are sound. *)

LeafType(n) ==
    /\ n.kind = "leaf"
    /\ n = LeafOf(n.entries, n.start)
    /\ n.entries \in Seq(Entry)
    /\ n.start \in [0 .. Len(n.entries) -> Nat]

InternalType(n, ids) ==
    /\ n.kind = "internal"
    /\ n = InternalOf(n.keys, n.start, n.children)
    /\ n.keys \in Seq(Key)
    /\ n.start \in [0 .. Len(n.keys) -> Nat]
    /\ n.children \in Seq(ids)
    /\ Len(n.children) = Len(n.keys) + 1

\* How many pieces a node is made of, the size of each, and its key.
Pieces(n) == IF n.kind = "leaf" THEN Len(n.entries) ELSE Len(n.keys)

PieceBytes(n, i) ==
    IF n.kind = "leaf" THEN EntryBytes(n.entries[i]) ELSE SepBytes(n.keys[i])

PieceKey(n, i) == IF n.kind = "leaf" THEN n.entries[i].key ELSE n.keys[i]

Offsets(n) ==
    /\ n.start[0] = 0
    /\ \A i \in 1 .. Pieces(n) : n.start[i] = n.start[i - 1] + PieceBytes(n, i)

InOrder(n) ==
    \A i, j \in 1 .. Pieces(n) : i < j => PieceKey(n, i) < PieceKey(n, j)
===========================================================================
