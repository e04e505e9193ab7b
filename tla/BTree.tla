------------------------------- MODULE BTree -------------------------------
(***************************************************************************)
(* The B+tree of 01-btree (storage/tree.rs, storage/engine.rs) on the      *)
(* copy-on-write store of CowStore.tla, with the nodes of Pages.tla on its *)
(* pages.  A put builds the nodes that replace a path, from the leaf up,   *)
(* and hands them to the store's commit; a get walks from the root that it *)
(* loaded to a leaf, a page at a time, while puts go on.                   *)
(*                                                                         *)
(* The steps of the store are those of CowStore.tla; what this module adds *)
(* to each is what it means for the nodes, and where a get is.             *)
(***************************************************************************)
EXTENDS CowStore, Pages

CONSTANTS
    PageSize,       \* of the store
    WarmUp,         \* bound of the model: what the first puts put, before
                    \* there are readers and before processes end
    Busy            \* bound of the model: keys that are put and read later

ASSUME PageSizeAssumption == PageSize \in Nat /\ 49 <= PageSize /\ PageSize <= 43696
ASSUME FreeListCapacity == Capacity = (PageSize - 19) \div 8
ASSUME PutsAssumption == WarmUp \in Seq(Entry) /\ Busy \subseteq Key

VARIABLES
    nodes,          \* the node on each page that holds one
    fresh,          \* what the transaction buffers: a node for each new page
    putting,        \* the entry of the put under way, if there is one
    get,            \* each reader's key, the page it is to read next (0 when
                    \* it is done), and its answer: {}, or one value
    map             \* history: the contents of the tree when it was published

storeVars == vars
treeVars == <<nodes, fresh, putting>>
allVars == <<storeVars, treeVars, get, map>>

---------------------------------------------------------------------------

NoGet == [key |-> 0, at |-> 0, answer |-> {}]

TreeInit ==
    /\ Init
    /\ nodes = <<>> /\ fresh = <<>> /\ putting = {}
    /\ get = [r \in Reader |-> NoGet]
    /\ map = <<>>

WarmedUp == txns >= Len(WarmUp)

---------------------------------------------------------------------------
(* What is on the pages. *)

\* debug::walk(): the pages of a tree, by how deep they are.
Layers(on, from) ==
    LET layer[d \in 0 .. MaxHeight] ==
            IF d = 0 THEN {from}
            ELSE UNION {Range(on[p].children) :
                           p \in {q \in layer[d - 1] : on[q].kind = "internal"}}
    IN  layer

\* Everything in the leaves of a tree, as a map.
Contents(on, from) ==
    LET pages   == UNION Range(Layers(on, from))
        entries == UNION {Range(on[p].entries) :
                             p \in {q \in pages : on[q].kind = "leaf"}}
    IN  [key \in {e.key : e \in entries} |->
            (CHOOSE e \in entries : e.key = key).val]

---------------------------------------------------------------------------
(* put(). *)

\* The child of a node that a key belongs under.
ChildFor(node, key) == node.children[ChildIndex(node, key) + 1]

\* The pages from the leaf a key belongs to, up to the one to start from,
\* d steps above it at most.
Ways(on, key) ==
    LET up[d \in 0 .. MaxHeight] ==
            [p \in PageId |->
                IF d = 0 \/ on[p].kind = "leaf" THEN <<p>>
                ELSE Append(up[d - 1][ChildFor(on[p], key)], p)]
    IN  up

PathUp_ForgetsRoot(on, from, key) ==
    LET path == Ways(on, key)[MaxHeight][from]
    IN  IF Len(path) = 1 THEN path ELSE Front(path)

PathUp(on, from, key) == Ways(on, key)[MaxHeight][from]

\* The nodes of an InsertResult, in the order in which they get pages.
NodesOf(r) == IF r.split THEN <<r.left, r.right>> ELSE <<r.left>>

\* insert_leaf() on a path's first page, and on each page above it what
\* insert_internal() does once it has the result from below: all the nodes
\* built so far, for which pages are taken in this order, and the result.
Inserted(path, e, pages) ==
    LET above(node, below) ==
            LET idx == ChildIndex(node, e.key)
                n   == Len(below.built)
            IN  IF below.result.split
                THEN InsertInternal(node, idx, below.result.sep, pages[n - 1],
                                    pages[n], PageSize)
                ELSE Single(ReplaceChild(node, idx, pages[n]))
        upTo[l \in 1 .. Len(path)] ==
            LET below  == upTo[l - 1]
                result == IF l = 1 THEN InsertLeaf(nodes[path[1]], e, PageSize)
                          ELSE above(nodes[path[l]], below)
            IN  [result |-> result,
                 built  |-> (IF l = 1 THEN <<>> ELSE below.built) \o NodesOf(result),
                 splits |-> (IF l = 1 THEN 0 ELSE below.splits)
                                + IF result.split THEN 1 ELSE 0]
    IN  upTo[Len(path)]

\* put(): the nodes to write; a root that split gets a new one above it.
ToWrite(top, pages) ==
    LET n == Len(top.built)
    IN  IF top.result.split
        THEN Append(top.built, NewRoot(top.result.sep, pages[n - 1], pages[n]))
        ELSE top.built

\* StorageEngine::put() up to commit().
PutEntry(e) ==
    /\ pc = "idle" /\ CheckLimits(PageSize, e.key, e.val)
    /\ LET path  == PathUp(nodes, root, e.key)
           pages == Alloc(2 * Len(path) + 1)
           top   == Inserted(path, e, pages)
           built == ToWrite(top, pages)
       IN  /\ BeginPutOn(path, top.splits)
           /\ fresh' = [p \in {pages[i] : i \in 1 .. Len(built)} |->
                          built[CHOOSE i \in 1 .. Len(built) : pages[i] = p]]
    /\ putting' = {e}
    /\ UNCHANGED <<nodes, get, map>>

NextPut ==
    IF WarmedUp THEN \E e \in Entry : e.key \in Busy /\ PutEntry(e)
    ELSE PutEntry(WarmUp[txns + 1])

WriteNode ==
    /\ WritePage
    /\ LET p == Head(txn.writes) IN nodes' = Put(nodes, p, fresh[p])
    /\ UNCHANGED <<fresh, putting, get, map>>

PassGate == FoldAndGate /\ UNCHANGED <<treeVars, get, map>>

\* A page of the chain holds no node, whatever was on it.
WriteLink ==
    /\ WriteChainPage
    /\ LET kept == DOMAIN nodes \ {Head(txn.chain).page}
       IN  nodes' = [p \in kept |-> nodes[p]]
    /\ UNCHANGED <<fresh, putting, get, map>>

SetHeader == WriteHeader /\ UNCHANGED <<treeVars, get, map>>

EndPut ==
    /\ Publish
    /\ fresh' = <<>> /\ putting' = {}
    /\ map' = Contents(nodes, root')
    /\ UNCHANGED <<nodes, get>>

FailPut ==
    /\ HitCeiling
    /\ fresh' = <<>> /\ putting' = {}
    /\ UNCHANGED <<nodes, get, map>>

---------------------------------------------------------------------------
(* get(). *)

\* StorageEngine::get(): enter_read(), with a key.
BeginGet(r, key) ==
    /\ WarmedUp /\ EnterRead(r)
    /\ get' = [get EXCEPT ![r].key = key]
    /\ UNCHANGED <<treeVars, map>>

GetRoot(r) ==
    /\ phase[r] = "entered" /\ LoadRoot(r)
    /\ get' = [get EXCEPT ![r].at = root]
    /\ UNCHANGED <<treeVars, map>>

Descend_Stays(r) ==
    /\ get[r].at # 0 /\ nodes[get[r].at].kind = "internal"
    /\ UNCHANGED allVars

\* Read an internal page: the next one is the child that covers the key.
Descend(r) ==
    /\ get[r].at # 0 /\ nodes[get[r].at].kind = "internal"
    /\ get' = [get EXCEPT ![r].at = ChildFor(nodes[@], get[r].key)]
    /\ UNCHANGED <<storeVars, treeVars, map>>

LeafAnswer(leaf, key) ==
    LET s == LeafSearch(leaf, key)
    IN  IF s.found THEN {leaf.entries[s.at + 1].val} ELSE {}

\* Read a leaf: the key is there or it is nowhere.
Answer(r) ==
    /\ get[r].at # 0 /\ nodes[get[r].at].kind = "leaf"
    /\ get' = [get EXCEPT ![r].at = 0,
                          ![r].answer = LeafAnswer(nodes[get[r].at], get[r].key)]
    /\ UNCHANGED <<storeVars, treeVars, map>>

\* Read a page that is being copied over: the bytes are a mixture, and what
\* Page::decode() and a search make of it is any answer or a panic, which
\* answers nothing.  (A get that it sends on to another page would end the
\* same way.)  Only an exposed get can come to such a page.
Misread(r) ==
    /\ get[r].at # 0 /\ get[r].at \in Copying
    /\ \E answer \in {{}} \cup {{v} : v \in Value} :
          get' = [get EXCEPT ![r].at = 0, ![r].answer = answer]
    /\ UNCHANGED <<storeVars, treeVars, map>>

\* The guard is dropped as get() returns.
EndGet(r) ==
    /\ phase[r] = "reading" /\ get[r].at = 0 /\ DropRead(r)
    /\ get' = [get EXCEPT ![r] = NoGet]
    /\ UNCHANGED <<treeVars, map>>

---------------------------------------------------------------------------
(* Processes begin and end. *)

MakeRoot ==
    /\ BootRoot
    /\ nodes' = Put(nodes, 1, EmptyLeaf)
    /\ UNCHANGED <<fresh, putting, get, map>>

MakeHeader == BootHeader /\ UNCHANGED <<treeVars, get, map>>

\* A process that ends, unless the chain was being rewritten: what follows
\* from that is CowStore's subject.  A page that was half copied is no node
\* any more.  The next process has a tree when it has opened the file.
NextProcess ==
    /\ WarmedUp /\ ~torn'
    /\ LET kept == {p \in DOMAIN nodes : disk'[p] = disk[p]}
       IN  nodes' = [p \in kept |-> nodes[p]]
    /\ fresh' = <<>> /\ putting' = {}
    /\ get' = [r \in Reader |-> NoGet]
    /\ map' = IF pc' = "idle" THEN Contents(nodes', root') ELSE map

ReopenTree == Reopen /\ NextProcess
CrashTree == Crash /\ NextProcess

---------------------------------------------------------------------------

Get(r) ==
    \/ \E key \in Busy : BeginGet(r, key)
    \/ GetRoot(r) \/ Descend(r) \/ Answer(r) \/ Misread(r) \/ EndGet(r)

Commit ==
    \/ WriteNode \/ PassGate \/ WriteLink \/ SetHeader \/ EndPut \/ FailPut

TreeNext ==
    \/ NextPut \/ Commit
    \/ \E r \in Reader : Get(r)
    \/ MakeRoot \/ MakeHeader \/ ReopenTree \/ CrashTree

\* A thread inside get() is scheduled again and again.  Nothing is assumed
\* of the writer: it may stop anywhere.
GoesOn(r) == GetRoot(r) \/ Descend(r) \/ Answer(r) \/ Misread(r) \/ EndGet(r)

TreeSpec == TreeInit /\ [][TreeNext]_allVars /\ \A r \in Reader : WF_allVars(GoesOn(r))

---------------------------------------------------------------------------
(* What must be true of the tree. *)

IsNode(n) == LeafType(n) \/ InternalType(n, Nat \ {0})

\* The page that a get is to read next is a node, as some put wrote it, and
\* is half copied at most if the get is exposed: Page::decode() of anything
\* else would panic.
TreeTypeOK ==
    /\ \A p \in DOMAIN nodes : IsNode(nodes[p])
    /\ \A p \in DOMAIN fresh : IsNode(fresh[p])
    /\ putting \in {{}} \cup {{e} : e \in Entry}
    /\ \A r \in Reader :
          /\ get[r].key \in Key \cup {0}
          /\ get[r].at \in DOMAIN nodes \cup {0}
          /\ get[r].at \in Copying => exposed[r]
          /\ get[r].answer \in {{}} \cup {{v} : v \in Value}

\* The pages that are reached from the published root, each in one way and
\* all leaves at one depth, are the pages that the store takes for its tree:
\* nothing that can be reached is free, nothing else is held.  What is in
\* them does not change from one publication to the next.
TreeIsReal ==
    IsOpen =>
        LET layers == Layers(nodes, root)
            above  == {p \in DOMAIN tree : nodes[p].kind = "internal"}
        IN  /\ UNION Range(layers) = DOMAIN tree
            /\ \A d \in 0 .. MaxHeight : \A p \in layers[d] :
                  /\ tree[p].level = Height - d
                  /\ nodes[p].kind = "leaf" <=> tree[p].level = 1
            /\ \A p, q \in above :
                  p # q => Range(nodes[p].children) \cap Range(nodes[q].children) = {}
            /\ \A p \in above : IsInjective(nodes[p].children)
            /\ map = Contents(nodes, root)

\* The convention of page/internal.rs, that child i covers the keys from
\* separator i - 1 up to separator i: whatever key is on a page of the tree,
\* a search for it from the root comes to that page.
SeparatorsCover ==
    IsOpen =>
        \A p \in DOMAIN tree :
            /\ InOrder(nodes[p])
            /\ \A i \in 1 .. Pieces(nodes[p]) :
                  p \in Range(PathUp(nodes, root, PieceKey(nodes[p], i)))

\* The store sees the tree do what CowStore.tla says any put may do: free a
\* path of the tree, and take as many pages as its splits call for.
UsesStore == Spec

\* A get as MapStore.tla sees it: from the moment it has a root, its answer
\* is the one in the leaf that its walk comes to.  A get that loaded its
\* root between a commit's gate and its publication is given up there:
\* nothing holds its pages (CowStore.tla shows what becomes of them).
GetOf(r) ==
    LET key  == get[r].key
        leaf == nodes[PathUp(nodes, get[r].at, key)[1]]
    IN  IF phase[r] = "idle" \/ exposed[r] THEN [step |-> "none"]
        ELSE IF phase[r] = "entered" THEN [step |-> "asked", key |-> key]
        ELSE [step |-> "found", key |-> key,
              answer |-> IF get[r].at = 0 THEN get[r].answer
                         ELSE LeafAnswer(leaf, key)]

\* What a caller may rely on: the store is a map.
Map == INSTANCE MapStore WITH gets <- [r \in Reader |-> GetOf(r)]

ImplementsMap == Map!Spec

\* A get ends whatever the writer does, if only its own thread goes on: it
\* "can never block on or be blocked by a writer" (storage/store.rs:155-156).
GetsEnd == \A r \in Reader : phase[r] = "entered" ~> phase[r] = "idle"
=============================================================================
