----------------------------- MODULE CowStore -----------------------------
(***************************************************************************)
(* The copy-on-write page store of 01-btree (storage/store.rs): one writer *)
(* at a time copies the path it changes to fresh pages, and commits by     *)
(* writing them, the free list's chain and the header, and then storing    *)
(* the new root; readers are counted and walk whatever root they loaded.   *)
(*                                                                         *)
(* A tree is a function from its pages to the put that wrote each and the  *)
(* level it is on, leaves being on level 1.  Which keys it holds is of no  *)
(* concern here: a put orphans one path of it, a page of each level, and   *)
(* adds the path's copies and what splitting adds.  A reader changes       *)
(* nothing while it walks, so its walk is no action: what matters is that  *)
(* every page it may yet read is still the page of its snapshot.           *)
(*                                                                         *)
(* What other threads or a crash can see between them are separate steps:  *)
(* each page write, the reader count's load, each chain page, the header,  *)
(* the root.  A page is copied into the file byte by byte, which has no    *)
(* step of its own either: the page that comes next may be half copied     *)
(* already (Copying).  Who reads it then, or dies then, finds neither what *)
(* was there nor what is to be there.                                      *)
(*                                                                         *)
(* An operator D_Something in front of D is D with a plausible bug, used   *)
(* only to check that the properties would notice.                         *)
(***************************************************************************)
EXTENDS Integers, FiniteSets, SequencesExt

CONSTANTS
    Reader,         \* threads that read
    Capacity,       \* free_list_capacity(page_size).max(1)
    MaxPages        \* pages that the reserved mapping has room for

CONSTANTS           \* bounds of the model, each a guard of one action
    MaxHeight,      \* the tree does not grow beyond this many levels
    MaxTxn,         \* how many puts there are
    MaxReopens,     \* how often the process ends between puts
    MaxCrashes,     \* how often it dies in a put, or while it makes a store
    CutCopies       \* may it die in the middle of copying a page, too?

ASSUME CapacityAssumption == Capacity \in Nat \ {0}
ASSUME MappingAssumption == MaxPages \in Nat /\ MaxPages >= 2
ASSUME BoundAssumption ==
    /\ MaxHeight \in Nat /\ MaxTxn \in Nat
    /\ MaxReopens \in Nat /\ MaxCrashes \in Nat /\ CutCopies \in BOOLEAN

VARIABLES
    \* Store: the published root, and the reader count.
    root, readers,
    \* WriterState, behind the mutex.
    next_page_id, free_list, pending_free, free_list_page_ids,
    \* The file: what is on each page written so far, the header page, how
    \* many pages long the file is, and how many of them can be reached.
    disk, header, committed, mapped,
    \* Where open_or_create() or the transaction that holds the mutex is.
    pc, txn,
    \* Each reader: where it is, and the tree of the root it loaded.
    phase, snap,
    \* History: the tree of the published root, the readers that loaded a
    \* root whose pages had been promoted already, whether a process ended
    \* while it rewrote the chain that the header points to or the header
    \* itself, and what bounds count.
    tree, exposed, torn, txns, reopens, crashes

writerVars == <<next_page_id, free_list, pending_free, free_list_page_ids>>
readerVars == <<readers, phase, snap, exposed>>
fileVars   == <<disk, header, committed, mapped>>
countVars  == <<torn, txns, reopens, crashes>>

vars == <<root, writerVars, fileVars, pc, txn, readerVars, tree, countVars>>

---------------------------------------------------------------------------
(* Values. *)

PageId == Nat \ {0}

\* A node of a tree, by the put that wrote it.
Node(t, level) == [txn |-> t, level |-> level]

\* What a page holds: a node, or a link of the free list's chain.
NodePage(node) == [node |-> node, next |-> 0, ids |-> <<>>]
FreePage(next, ids) == [node |-> Node(0, 0), next |-> next, ids |-> ids]

\* What a page holds whose copying a process did not live to end: no link,
\* and no node of any tree (leaves being on level 1 until the first put).
Scrap == NodePage(Node(0, 2))

IsLink(content) == content.node = Node(0, 0)

Content == [node : [txn : Nat, level : Nat], next : Nat, ids : Seq(PageId)]

Put(f, p, c) == [q \in DOMAIN f \cup {p} |-> IF q = p THEN c ELSE f[q]]

NoTxn == [root |-> 0, tree |-> <<>>, writes |-> <<>>, freed |-> <<>>,
          chain |-> <<>>, head |-> 0, promoted |-> FALSE, rewritten |-> FALSE]

\* What from_bytes() makes of a page that no header was written to.
NoHeader == [root |-> 0, next |-> 0, head |-> 0, tree |-> <<>>]

\* A file that was just created: long enough for the header page.
Init ==
    /\ root = 0 /\ tree = <<>>
    /\ readers = 0
    /\ next_page_id = 0
    /\ free_list = <<>> /\ pending_free = <<>> /\ free_list_page_ids = <<>>
    /\ disk = <<>> /\ header = NoHeader
    /\ committed = 1 /\ mapped = MaxPages
    /\ pc = "boot" /\ txn = NoTxn
    /\ phase = [r \in Reader |-> "idle"]
    /\ snap = [r \in Reader |-> <<>>]
    /\ exposed = [r \in Reader |-> FALSE]
    /\ torn = FALSE
    /\ txns = 0 /\ reopens = 0 /\ crashes = 0

---------------------------------------------------------------------------
(* The file. *)

\* Does page p lie within the mapping?
Writable(p) == p < mapped

\* write_page(): lengthen the file if need be, then copy the page in.
WriteAt(p, content) ==
    /\ disk' = Put(disk, p, content)
    /\ committed' = IF p < committed THEN committed ELSE p + 1

\* The pages that write_page() may be in the middle of copying.
NextPages ==
    CASE pc = "boot" -> {1}
      [] pc = "writing" /\ txn.writes # <<>> -> {Head(txn.writes)}
      [] pc = "chain" /\ txn.chain # <<>> -> {Head(txn.chain).page}
      [] OTHER -> {}

Copying == {p \in NextPages : Writable(p)}

\* The same of a page beyond the mapping, which panics: in ensure_committed()
\* if debug assertions are on, else in write_at(), after the file has grown.
WriteBeyond(p) == committed' \in {committed, p + 1}

---------------------------------------------------------------------------
(* Readers. *)

IsOpen == pc \notin {"boot", "bootHeader", "dead"}

\* enter_read().
EnterRead(r) ==
    /\ IsOpen /\ phase[r] = "idle"
    /\ readers' = readers + 1
    /\ phase' = [phase EXCEPT ![r] = "entered"]
    /\ UNCHANGED <<root, writerVars, fileVars, pc, txn, snap, exposed, tree,
                   countVars>>

\* ReadGuard.root(), from where get() walks down.  A guard may load the root
\* again and walk from there: print_tree() does.
LoadRoot(r) ==
    /\ phase[r] \in {"entered", "reading"}
    /\ phase' = [phase EXCEPT ![r] = "reading"]
    /\ snap' = [snap EXCEPT ![r] = tree]
    /\ exposed' = [exposed EXCEPT ![r] = txn.promoted]
    /\ UNCHANGED <<root, writerVars, fileVars, pc, txn, readers, tree,
                   countVars>>

DropRead_Twice(r) ==
    /\ phase[r] = "reading"
    /\ readers' = readers - 2
    /\ phase' = [phase EXCEPT ![r] = "idle"]
    /\ UNCHANGED <<root, writerVars, fileVars, pc, txn, snap, exposed, tree,
                   countVars>>

\* ReadGuard's drop.
DropRead(r) ==
    /\ phase[r] \in {"entered", "reading"}
    /\ readers' = readers - 1
    /\ phase' = [phase EXCEPT ![r] = "idle"]
    /\ snap' = [snap EXCEPT ![r] = <<>>]
    /\ exposed' = [exposed EXCEPT ![r] = FALSE]
    /\ UNCHANGED <<root, writerVars, fileVars, pc, txn, tree, countVars>>

---------------------------------------------------------------------------
(* The writer: put(), up to commit(). *)

Height == tree[root].level

\* Paths from a leaf up to the root.
Paths == {path \in [1 .. Height -> DOMAIN tree] :
             \A l \in 1 .. Height : tree[path[l]].level = l}

\* How many pages replace a path whose lowest k nodes split, and the level
\* of each, in the order they are allocated: two for a node that splits, one
\* for another, and a new root above when the old one split too.
Copies(k) == Height + k + IF k = Height THEN 1 ELSE 0

LevelOf(i, k) == IF i <= 2 * k THEN (i + 1) \div 2 ELSE i - k

\* alloc(), k times: pop from the free list's end, then extend the file.
FromFree(k) == IF k <= Len(free_list) THEN k ELSE Len(free_list)

Alloc_OffByOne(k) ==
    [i \in 1 .. k |->
        IF i <= FromFree(k) THEN free_list[Len(free_list) - i + 1]
        ELSE next_page_id + i - FromFree(k) - 2]

Alloc(k) ==
    [i \in 1 .. k |->
        IF i <= FromFree(k) THEN free_list[Len(free_list) - i + 1]
        ELSE next_page_id + i - FromFree(k) - 1]

\* begin_write() and put() before commit(), when the lowest k nodes of a path
\* split: all of it under the mutex, none of it visible.
BeginPutOn(path, k) ==
    /\ pc = "idle" /\ txns < MaxTxn
    /\ LET new  == Alloc(Copies(k))
           kept == [p \in DOMAIN tree \ Range(path) |-> tree[p]]
           place(p) == CHOOSE i \in 1 .. Len(new) : new[i] = p
           added == [p \in Range(new) |-> Node(txns + 1, LevelOf(place(p), k))]
       IN  /\ LevelOf(Len(new), k) <= MaxHeight
           /\ txn' = [NoTxn EXCEPT
                 !.root = new[Len(new)],
                 !.tree =
                    [p \in DOMAIN kept \cup DOMAIN added |->
                        IF p \in DOMAIN added THEN added[p] ELSE kept[p]],
                 !.writes = new,
                 !.freed = path]
           /\ free_list' =
                SubSeq(free_list, 1, Len(free_list) - FromFree(Len(new)))
           /\ next_page_id' = next_page_id + Len(new) - FromFree(Len(new))
    /\ txns' = txns + 1
    /\ pc' = "writing"
    /\ UNCHANGED <<root, pending_free, free_list_page_ids, fileVars,
                   readerVars, tree, torn, reopens, crashes>>

BeginPut ==
    \E path \in IF pc = "idle" THEN Paths ELSE {} :
        \E k \in 0 .. Height : BeginPutOn(path, k)

---------------------------------------------------------------------------
(* The writer: commit(). *)

PagesLeft_None == FALSE

\* Are there buffered pages that are not written yet?
PagesLeft == txn.writes # <<>>

\* Step 1: apply the buffered page writes.
WritePage ==
    /\ pc = "writing" /\ PagesLeft
    /\ LET p == Head(txn.writes)
       IN  Writable(p) /\ WriteAt(p, NodePage(txn.tree[p]))
    /\ txn' = [txn EXCEPT !.writes = Tail(@)]
    /\ UNCHANGED <<root, writerVars, header, mapped, pc, readerVars, tree,
                   countVars>>

\* persist_free_list(): the chain's pages, lengthened from the end of the
\* file when the lists need more, and what each is to hold.
PagesNeeded(payload) == (Len(payload) + Capacity - 1) \div Capacity

Missing(ids, n) == IF n > Len(ids) THEN n - Len(ids) ELSE 0

ChainPages(ids, n, next) ==
    ids \o [i \in 1 .. Missing(ids, n) |-> next + i - 1]

Chunk(payload, i) ==
    SubSeq(payload, (i - 1) * Capacity + 1,
           IF i * Capacity <= Len(payload) THEN i * Capacity ELSE Len(payload))

ChainWrites_NoEnd(payload, ids) ==
    [i \in 1 .. PagesNeeded(payload) |->
        [page |-> ids[i],
         content |-> FreePage(IF i < Len(ids) THEN ids[i + 1] ELSE 0,
                              Chunk(payload, i))]]

ChainWrites(payload, ids) ==
    LET n == PagesNeeded(payload)
    IN  [i \in 1 .. n |->
            [page |-> ids[i],
             content |-> FreePage(IF i < n THEN ids[i + 1] ELSE 0,
                                  Chunk(payload, i))]]

Quiescent_Always == TRUE

\* The quiescence gate: no reader is registered.
Quiescent == readers = 0

Folded_Forgotten == txn.freed

\* Step 2: this transaction's frees join those still pending.
Folded == pending_free \o txn.freed

\* Steps 2 to 4 up to the first chain write: fold the frees into
\* pending_free, promote them if no reader is registered, lay out the chain.
FoldAndGate ==
    /\ pc = "writing" /\ ~PagesLeft
    /\ free_list' = IF Quiescent THEN free_list \o Folded ELSE free_list
    /\ pending_free' = IF Quiescent THEN <<>> ELSE Folded
    /\ LET payload == free_list' \o pending_free'
           n       == PagesNeeded(payload)
           ids     == ChainPages(free_list_page_ids, n, next_page_id)
       IN  /\ free_list_page_ids' = ids
           /\ next_page_id' = next_page_id + Len(ids) - Len(free_list_page_ids)
           /\ txn' = [txn EXCEPT !.freed = <<>>,
                                 !.chain = ChainWrites(payload, ids),
                                 !.head = IF n > 0 THEN ids[1] ELSE 0,
                                 !.promoted = Quiescent]
    /\ pc' = "chain"
    /\ UNCHANGED <<root, fileVars, readerVars, tree, countVars>>

ChainLeft_None == FALSE

\* Are there pages of the chain that are not written yet?
ChainLeft == txn.chain # <<>>

\* Step 4: write the chain, in place.
WriteChainPage ==
    /\ pc = "chain" /\ ChainLeft
    /\ LET link == Head(txn.chain)
       IN  /\ Writable(link.page) /\ WriteAt(link.page, link.content)
           /\ txn' = [txn EXCEPT !.chain = Tail(@),
                                 !.rewritten = @ \/ link.page = header.head]
    /\ UNCHANGED <<root, writerVars, header, mapped, pc, readerVars, tree,
                   countVars>>

NewHeader == [root |-> txn.root, next |-> next_page_id, head |-> txn.head,
              tree |-> txn.tree]

\* Step 5: write the header, in place.
WriteHeader ==
    /\ pc = "chain" /\ ~ChainLeft
    /\ header' = NewHeader
    /\ txn' = [txn EXCEPT !.rewritten = FALSE]
    /\ pc' = "publish"
    /\ UNCHANGED <<root, writerVars, disk, committed, mapped, readerVars, tree,
                   countVars>>

\* Step 6: sync (which a process that stays alive does not notice), store
\* the root, and release the mutex.
Publish ==
    /\ pc = "publish"
    /\ root' = txn.root /\ tree' = txn.tree
    /\ txn' = NoTxn
    /\ pc' = "idle"
    /\ UNCHANGED <<writerVars, fileVars, readerVars, countVars>>

\* A page of the put or of the chain lies beyond the mapping: commit()
\* panics and poisons the mutex, so that no other put will ever begin.
HitCeiling ==
    /\ \/ /\ pc = "writing" /\ PagesLeft
          /\ ~Writable(Head(txn.writes)) /\ WriteBeyond(Head(txn.writes))
       \/ /\ pc = "chain" /\ ChainLeft
          /\ ~Writable(Head(txn.chain).page) /\ WriteBeyond(Head(txn.chain).page)
    /\ txn' = [NoTxn EXCEPT !.rewritten = txn.rewritten]
    /\ pc' = "poisoned"
    /\ UNCHANGED <<root, writerVars, disk, header, mapped, readerVars, tree,
                   countVars>>

---------------------------------------------------------------------------
(* Opening the file: MmapPageIo::open() and open_or_create(). *)

\* A page beyond what was ever written reads as zeros, if at all.
ReadPage(on, p) == IF p \in DOMAIN on THEN on[p] ELSE FreePage(0, <<>>)

\* load_free_list_chain(): the pages of the chain that starts at a head, and
\* the ids they hold.  A chain that never comes to its end is cut off, after
\* more pages than there are.
Chain(on, head) ==
    LET at[i \in Nat] == IF i = 0 THEN head ELSE ReadPage(on, at[i - 1]).next
        most == Cardinality(DOMAIN on) + 2
    IN  [i \in 1 .. Min({n \in 0 .. most : at[n] = 0 \/ n = most}) |-> at[i - 1]]

Ends(on, chain) == Len(chain) <= Cardinality(DOMAIN on) + 1

\* Is every page of it a link?
Linked(on, chain) == \A p \in Range(chain) : p \in DOMAIN on /\ IsLink(on[p])

Entries(on, chain) ==
    FlattenSeq([i \in 1 .. Len(chain) |-> ReadPage(on, chain[i]).ids])

\* The end of open_or_create(): the store that a header describes.
Opened(on, h) ==
    /\ root' = h.root /\ tree' = h.tree
    /\ next_page_id' = h.next
    /\ free_list_page_ids' = Chain(on, h.head)
    /\ free_list' = Entries(on, Chain(on, h.head))
    /\ pending_free' = <<>>
    /\ pc' = "idle"

\* A file without a header gets an empty leaf first,
BootRoot ==
    /\ pc = "boot"
    /\ WriteAt(1, NodePage(Node(0, 1)))
    /\ pc' = "bootHeader"
    /\ UNCHANGED <<root, writerVars, header, mapped, txn, readerVars, tree,
                   countVars>>

\* then the header.
BootHeader ==
    /\ pc = "bootHeader"
    /\ header' = [root |-> 1, next |-> 2, head |-> 0,
                  tree |-> [p \in {1} |-> Node(0, 1)]]
    /\ Opened(disk, header')
    /\ UNCHANGED <<disk, committed, mapped, txn, readerVars, countVars>>

\* A process that ends takes its readers along.
NoReaders ==
    /\ readers' = 0
    /\ phase' = [r \in Reader |-> "idle"]
    /\ snap' = [r \in Reader |-> <<>>]
    /\ exposed' = [r \in Reader |-> FALSE]

\* The next process maps the file, which the last one left with these pages
\* and this header.  It finds no header and makes a store; or opens the one
\* it finds; or it fails: the chain never ends, or comes to a page beyond the
\* mapping, or to one that is no link of it.  Of the last, a release build
\* takes one that was never written for an empty link, and decodes any other
\* all the same: it ends with lists that nobody wrote, and what it goes on
\* to do to the file is not modelled.
Restart(on, h) ==
    /\ NoReaders
    /\ mapped' = IF committed' < MaxPages THEN MaxPages ELSE committed'
    /\ txn' = NoTxn
    /\ LET chain == Chain(on, h.head)
       IN  \/ /\ h = NoHeader
             /\ pc' = "boot"
             /\ UNCHANGED <<root, writerVars, tree>>
          \/ /\ h # NoHeader /\ Ends(on, chain)
             /\ \A p \in Range(chain) : p < mapped' /\ IsLink(ReadPage(on, p))
             /\ Opened(on, h)
          \/ /\ ~Ends(on, chain) \/ ~Linked(on, chain)
             /\ pc' = "dead"
             /\ UNCHANGED <<root, writerVars, tree>>
    /\ UNCHANGED txns

\* A process ends between two of its writes: all that it wrote to the mapped
\* file stays.
EndBetween ==
    /\ UNCHANGED <<disk, header, committed>>
    /\ torn' = (torn \/ txn.rewritten)
    /\ Restart(disk, header)

\* A process dies in the middle of copying a page.
DieInPage ==
    /\ \E p \in Copying :
          /\ WriteAt(p, Scrap)
          /\ torn' = (torn \/ txn.rewritten \/ p = header.head)
    /\ UNCHANGED header
    /\ Restart(disk', header)

\* What a put's header may look like before it is copied whole: each of its
\* numbers is the old one or the new one.
HalfHeaders ==
    {[root |-> r.root, next |-> n.next, head |-> f.head, tree |-> r.tree] :
        r, n, f \in {header, NewHeader}}

\* A process dies in the middle of copying the header.  The first one of a
\* file may then be taken for none (as if it had died before), or for one of
\* another version or page size, or of a store whose root is no page.
DieInHeader ==
    /\ torn' = TRUE
    /\ UNCHANGED <<disk, committed>>
    /\ \/ /\ pc = "chain" /\ ~ChainLeft
          /\ header' \in HalfHeaders
          /\ Restart(disk, header')
       \/ /\ pc = "bootHeader"
          /\ NoReaders /\ pc' = "dead"
          /\ UNCHANGED <<root, writerVars, header, mapped, txn, tree, txns>>

\* The process ends between puts.
Reopen ==
    /\ pc \in {"idle", "poisoned"} /\ reopens < MaxReopens
    /\ reopens' = reopens + 1
    /\ EndBetween
    /\ UNCHANGED crashes

\* The process dies in the middle of something.
Crash ==
    /\ pc \in {"boot", "bootHeader", "writing", "chain", "publish"}
    /\ crashes < MaxCrashes
    /\ crashes' = crashes + 1
    /\ EndBetween \/ (CutCopies /\ (DieInPage \/ DieInHeader))
    /\ UNCHANGED reopens

---------------------------------------------------------------------------

Read(r) == EnterRead(r) \/ LoadRoot(r) \/ DropRead(r)

Write ==
    \/ BeginPut \/ WritePage \/ FoldAndGate \/ WriteChainPage
    \/ WriteHeader \/ Publish \/ HitCeiling

Next ==
    \/ \E r \in Reader : Read(r)
    \/ Write
    \/ BootRoot \/ BootHeader \/ Reopen \/ Crash

Spec == Init /\ [][Next]_vars

---------------------------------------------------------------------------
(* What must be true of the store. *)

\* All the pages of a tree are on disk as its transactions wrote them.
Intact(t) == \A p \in DOMAIN t : p \in DOMAIN disk /\ disk[p] = NodePage(t[p])

\* And none of them is being copied over.
Readable(t) == Intact(t) /\ DOMAIN t \cap Copying = {}

\* Every variable has its type, whatever a torn chain made open_or_create()
\* put into the lists, and the reader count is that of the guards alive.
TypeOK ==
    /\ root \in Nat /\ next_page_id \in Nat
    /\ committed \in PageId /\ mapped \in PageId
    /\ free_list \in Seq(PageId)
    /\ pending_free \in Seq(PageId)
    /\ free_list_page_ids \in Seq(PageId)
    /\ DOMAIN disk \subseteq PageId
    /\ \A p \in DOMAIN disk : disk[p] \in Content
    /\ pc \in {"boot", "bootHeader", "idle", "writing", "chain", "publish",
              "poisoned", "dead"}
    /\ IsOpen => root \in PageId /\ next_page_id \in PageId
    /\ phase \in [Reader -> {"idle", "entered", "reading"}]
    /\ exposed \in [Reader -> BOOLEAN]
    /\ readers = Cardinality({r \in Reader : phase[r] # "idle"})

\* README, 4.3: a reader sees the tree of its root, unchanged, until it
\* drops its guard.
SnapshotIsolation ==
    \A r \in Reader : phase[r] = "reading" => Readable(snap[r])

\* The same of every reader that did not load its root between a commit's
\* gate finding no readers and the same commit's store of the new root: no
\* page that it may read is another one, or half of one.
ProtectedIsolation ==
    ~torn => \A r \in Reader :
                phase[r] = "reading" /\ ~exposed[r] => Readable(snap[r])

\* README, 2: while a put is under way, the old version of the tree stays
\* valid and available.
OldVersionStaysValid == Readable(tree)

\* The same, unless a process ended between its first write to the chain
\* that the header points to and the end of its write of the header: every
\* other moment of a put may be its last one.
RootIsReadable == ~torn => Readable(tree)

\* With the same exception, a store that was made can always be opened.
OpensAgain == ~torn => pc # "dead"

\* The pages of the trees that the next commit would build on, or of the
\* tree and of the put under way.
Owned == IF pc = "idle" THEN DOMAIN tree
         ELSE IF pc = "writing" THEN DOMAIN tree \cup DOMAIN txn.tree
         ELSE DOMAIN txn.tree

Lists == free_list \o pending_free \o free_list_page_ids

\* No page is in two places: an id that is on a list is there once, and in
\* no tree that the next commit would build on.
OneOwner ==
    ~torn => /\ \A i, j \in 1 .. Len(Lists) : Lists[i] = Lists[j] => i = j
             /\ Range(Lists) \cap Owned = {}

\* While a store stays open, every page that was ever allocated is on a list
\* or in a tree: the free list is what README, 5, calls the reuse of the
\* space of old versions.
NoPageLostWhileOpen ==
    reopens = 0 /\ crashes = 0 /\ pc \in {"idle", "writing", "chain", "publish"} =>
        Range(Lists) \cup Owned = 1 .. next_page_id - 1

\* The trees that the header on file may lead to.
OnFile ==
    IF pc = "publish" THEN {txn.tree}
    ELSE IF pc = "chain" /\ ~ChainLeft THEN {tree, txn.tree} ELSE {tree}

\* A process that ends, in a put, in the middle of a page or of the header,
\* after a put or after one that hit the file's ceiling, leaves the tree of
\* the header it wrote last, whole (if no process before it tore the chain).
RestartKeepsCommitted ==
    [][~torn /\ (reopens' # reopens \/ crashes' # crashes) =>
        tree' \in OnFile /\ Intact(tree)']_vars
===========================================================================
