--------------------------- MODULE CowStoreProofs ---------------------------
(***************************************************************************)
(* The copy-on-write store's properties, for any number of readers, any    *)
(* page capacity and mapping, and any number of puts, restarts and         *)
(* crashes.                                                                *)
(*                                                                         *)
(* They rest on one inductive invariant, in two parts.  TypesHold gives    *)
(* every variable its type and holds always, whatever links a torn chain   *)
(* makes open_or_create() read.  Sound says whose each page is, and that   *)
(* what the header describes is on disk; it holds until a process ends     *)
(* while the chain that the header points to, or the header itself, is     *)
(* being overwritten (torn).  That a sound store is found again by the     *)
(* next process takes two facts.  LeftSound: whatever page the last one    *)
(* died copying, it is none that the header leads to.  ChainHolds:         *)
(* load_free_list_chain() reads a chain laid out by persist_free_list() as *)
(* that was meant.                                                         *)
(***************************************************************************)
EXTENDS CowStore, Extremes, SequenceTheorems

\* No element is in s twice.
Distinct(s) == \A i, j \in 1 .. Len(s) : s[i] = s[j] => i = j

\* All pages of S are below n.
Under(S, n) == \A p \in S : p < n

\* The store is being made: there is no header yet.
Booting == pc \in {"boot", "bootHeader"}

---------------------------------------------------------------------------
(* Types. *)

\* A tree's pages and nodes.
IsTree(t) ==
    /\ DOMAIN t \subseteq PageId
    /\ \A p \in DOMAIN t : t[p] \in [txn : Nat, level : PageId]

\* WriterState: the lists and the end of the file.
ListTypes ==
    /\ free_list \in Seq(PageId) /\ pending_free \in Seq(PageId)
    /\ free_list_page_ids \in Seq(PageId)
    /\ next_page_id \in Nat

\* The file; finitely many pages of it were ever written.
FileTypes ==
    /\ committed \in PageId /\ mapped \in PageId
    /\ DOMAIN disk \subseteq PageId /\ IsFiniteSet(DOMAIN disk)
    /\ \A p \in DOMAIN disk : disk[p] \in Content

\* The readers that hold a guard.
Registered == {r \in Reader : phase[r] # "idle"}

\* The reader count is that of guards, and only who loaded a root is exposed.
ReaderTypes ==
    /\ phase \in [Reader -> {"idle", "entered", "reading"}]
    /\ exposed \in [Reader -> BOOLEAN]
    /\ snap = [r \in Reader |-> snap[r]]
    /\ IsFiniteSet(Registered) /\ readers = Cardinality(Registered)
    /\ \A r \in Reader : phase[r] # "reading" => ~exposed[r]

\* A put is under way.
InPut == pc \in {"writing", "chain", "publish"}

\* The transaction; what it is to write is in its tree, and so is its root.
TxnTypes ==
    /\ txn = [root |-> txn.root, tree |-> txn.tree, writes |-> txn.writes,
              freed |-> txn.freed, chain |-> txn.chain, head |-> txn.head,
              promoted |-> txn.promoted, rewritten |-> txn.rewritten]
    /\ IsTree(txn.tree)
    /\ txn.writes \in Seq(PageId) /\ txn.freed \in Seq(PageId)
    /\ txn.chain \in Seq([page : PageId, content : Content])
    /\ txn.head \in Nat
    /\ txn.promoted \in BOOLEAN /\ txn.rewritten \in BOOLEAN
    /\ Range(txn.writes) \subseteq DOMAIN txn.tree
    /\ InPut => txn.root \in DOMAIN txn.tree

\* The published root is in its tree.
TreeTypes ==
    /\ root \in Nat /\ IsTree(tree)
    /\ IsOpen => root \in DOMAIN tree /\ next_page_id \in PageId

\* There is a header once the store was made.
HeaderTypes ==
    /\ Booting => header = NoHeader
    /\ header = NoHeader => Booting \/ pc = "dead"
    /\ header # NoHeader =>
          /\ header.root \in DOMAIN header.tree /\ header.next \in PageId
          /\ header.head \in Nat /\ IsTree(header.tree)

\* The counts of the model's bounds, and where the writer is.
StateTypes ==
    /\ txns \in Nat /\ reopens \in Nat /\ crashes \in Nat /\ torn \in BOOLEAN
    /\ pc \in {"boot", "bootHeader", "idle", "writing", "chain", "publish",
               "poisoned", "dead"}

\* All of them.
TypesHold ==
    ListTypes /\ FileTypes /\ ReaderTypes /\ TxnTypes /\ TreeTypes
    /\ HeaderTypes /\ StateTypes

---------------------------------------------------------------------------
(* Which pages belong to what. *)

\* The three lists share no page, hold none twice and none beyond the end.
ListsApart ==
    /\ Distinct(free_list) /\ Distinct(pending_free) /\ Distinct(free_list_page_ids)
    /\ Range(free_list) \cap Range(pending_free) = {}
    /\ Range(free_list) \cap Range(free_list_page_ids) = {}
    /\ Range(pending_free) \cap Range(free_list_page_ids) = {}
    /\ Under(Range(free_list), next_page_id)
    /\ Under(Range(pending_free), next_page_id)
    /\ Under(Range(free_list_page_ids), next_page_id)

\* No page of S is on a list or beyond the end.
Outside(S) ==
    /\ S \cap Range(free_list) = {}
    /\ S \cap Range(pending_free) = {}
    /\ S \cap Range(free_list_page_ids) = {}
    /\ Under(S, next_page_id)

\* The published tree is whole and the chain is written elsewhere; its pages
\* are on no list, up to the gate, and not free after one that found readers.
TreeWhole ==
    /\ Intact(tree)
    /\ DOMAIN tree \cap Range(free_list_page_ids) = {}
    /\ Under(DOMAIN tree, next_page_id)
    /\ pc \in {"idle", "writing"} => Outside(DOMAIN tree)
    /\ pc \in {"chain", "publish"} /\ ~txn.promoted =>
          DOMAIN tree \cap Range(free_list) = {}

\* While its pages are written, a put's tree has what the published one has
\* and the put did not replace, already on disk, and the pages to be written.
PutUnderWay ==
    /\ \A p \in DOMAIN txn.tree \ Range(txn.writes) :
          p \in DOMAIN disk /\ disk[p] = NodePage(txn.tree[p])
    /\ Range(txn.writes) \cap DOMAIN tree = {}
    /\ Distinct(txn.freed) /\ Range(txn.freed) \subseteq DOMAIN tree
    /\ Range(txn.freed) \cap DOMAIN txn.tree = {}
    /\ DOMAIN tree \ Range(txn.freed) \subseteq DOMAIN txn.tree

\* The tree of a put is on no list; once its pages are written it is whole.
PutApart ==
    /\ InPut => Outside(DOMAIN txn.tree)
    /\ pc = "writing" => PutUnderWay
    /\ pc \in {"chain", "publish"} => Intact(txn.tree)
    /\ pc # "writing" => txn.writes = <<>>
    /\ pc \notin {"chain", "publish"} => ~txn.promoted
    /\ pc \notin {"chain", "poisoned"} => ~txn.rewritten
    /\ ~InPut => txn.tree = <<>>

\* What page i of a chain for a payload holds.
LinkOf(payload, ids, i) ==
    FreePage(IF i < PagesNeeded(payload) THEN ids[i + 1] ELSE 0, Chunk(payload, i))

\* The first k pages of the chain are on disk.
OnDisk(on, payload, ids, k) ==
    \A i \in 1 .. k : ids[i] \in DOMAIN on /\ on[ids[i]] = LinkOf(payload, ids, i)

\* k pages of the new chain are written, the others are still to be; the
\* first page of an old chain was the first to be overwritten.
ChainWritten(k) ==
    LET payload == free_list \o pending_free
        left    == PagesNeeded(payload) - k
    IN  /\ Len(txn.chain) = left
        /\ \A i \in 1 .. left :
              /\ txn.chain[i].page = free_list_page_ids[k + i]
              /\ txn.chain[i].content = LinkOf(payload, free_list_page_ids, k + i)
        /\ OnDisk(disk, payload, free_list_page_ids, k)
        /\ k > 0 /\ header.head # 0 => txn.rewritten

\* The chain that is being written has room for the lists, and is written
\* from its first page to its last.
ChainGoesOn ==
    pc = "chain" =>
        LET n == PagesNeeded(free_list \o pending_free)
        IN  /\ n <= Len(free_list_page_ids)
            /\ txn.head = IF n > 0 THEN free_list_page_ids[1] ELSE 0
            /\ \E k \in 0 .. n : ChainWritten(k)

\* The header's chain is on disk and holds a payload of pages that belong
\* neither to it nor to the header's tree.
Saved(payload) ==
    LET n    == PagesNeeded(payload)
        used == {free_list_page_ids[i] : i \in 1 .. n}
    IN  /\ n <= Len(free_list_page_ids)
        /\ header.head = IF n > 0 THEN free_list_page_ids[1] ELSE 0
        /\ Distinct(payload)
        /\ Range(payload) \cap used = {}
        /\ Range(payload) \cap DOMAIN header.tree = {}
        /\ Under(Range(payload), header.next) /\ Under(used, header.next)
        /\ OnDisk(disk, payload, free_list_page_ids, n)

\* The header's tree is the published one or, between WriteHeader and
\* Publish, the put's; a chain that is not being overwritten is sound.
HeaderTrue ==
    /\ header.next <= next_page_id
    /\ Under(DOMAIN header.tree, header.next)
    /\ header.tree = IF pc = "publish" THEN txn.tree ELSE tree
    /\ ~txn.rewritten => \E payload \in Seq(PageId) : Saved(payload)

\* The pages that the next commit may write to, of those there are.
MayWrite == Range(free_list) \cup Range(free_list_page_ids) \cup Range(txn.writes)

\* A tree's pages are as they were written, and nothing will overwrite them.
Clear(t) ==
    /\ Intact(t)
    /\ pc # "poisoned" => DOMAIN t \cap MayWrite = {} /\ Under(DOMAIN t, next_page_id)

\* So it is with the tree of a reader that loaded its root before the gate or
\* after the store of the root.
ReadersApart ==
    \A r \in Reader : phase[r] = "reading" /\ ~exposed[r] => Clear(snap[r])

\* Nothing is there before the first header but, perhaps, a leaf.
Empty ==
    /\ tree = <<>> /\ txn = NoTxn /\ Lists = <<>>
    /\ pc = "bootHeader" => 1 \in DOMAIN disk /\ disk[1] = NodePage(Node(0, 1))
    /\ \A r \in Reader : phase[r] = "idle"

\* What holds of a store whose chain was not torn.
Sound ==
    /\ pc # "dead"
    /\ Booting => Empty
    /\ ~Booting => ListsApart /\ TreeWhole /\ PutApart /\ ChainGoesOn
                   /\ HeaderTrue /\ ReadersApart

---------------------------------------------------------------------------
(* Sequences. *)

\* The elements of a sequence are on its places.
LEMMA RangeIs ==
    ASSUME NEW S, NEW s \in Seq(S)
    PROVE  /\ Range(s) = {s[i] : i \in 1 .. Len(s)}
           /\ Range(s) \subseteq S
           /\ \A i \in 1 .. Len(s) : s[i] \in Range(s)
           /\ \A x \in Range(s) : \E i \in 1 .. Len(s) : s[i] = x
<1>1. Range(s) = {s[i] : i \in 1 .. Len(s)}
  BY RangeEquality
<1>2. Range(s) \subseteq S
  BY RangeOfSeq
<1> QED  BY <1>1, <1>2

\* Two sequences have no element twice together if neither has, nor both.
LEMMA DistinctConcat ==
    ASSUME NEW S, NEW s \in Seq(S), NEW t \in Seq(S)
    PROVE  Distinct(s \o t) <=>
              Distinct(s) /\ Distinct(t) /\ Range(s) \cap Range(t) = {}
<1>1. /\ Len(s) \in Nat /\ Len(t) \in Nat
      /\ Len(s \o t) = Len(s) + Len(t)
      /\ \A i \in 1 .. Len(s) + Len(t) :
            (s \o t)[i] = IF i <= Len(s) THEN s[i] ELSE t[i - Len(s)]
  BY LenProperties, ConcatProperties
<1>2. /\ \A i \in 1 .. Len(s) : s[i] \in Range(s)
      /\ \A x \in Range(s) : \E i \in 1 .. Len(s) : s[i] = x
      /\ \A i \in 1 .. Len(t) : t[i] \in Range(t)
      /\ \A x \in Range(t) : \E i \in 1 .. Len(t) : t[i] = x
  BY RangeIs
<1>3. ASSUME Distinct(s \o t)
      PROVE  Distinct(s) /\ Distinct(t) /\ Range(s) \cap Range(t) = {}
  <2>1. Distinct(s)
    <3> SUFFICES ASSUME NEW i \in 1 .. Len(s), NEW j \in 1 .. Len(s), s[i] = s[j]
                 PROVE  i = j
      BY DEF Distinct
    <3>1. i \in 1 .. Len(s) + Len(t) /\ j \in 1 .. Len(s) + Len(t)
      BY <1>1
    <3>2. (s \o t)[i] = (s \o t)[j]
      BY <1>1, <3>1
    <3> QED  BY <1>1, <1>3, <3>1, <3>2 DEF Distinct
  <2>2. Distinct(t)
    <3> SUFFICES ASSUME NEW i \in 1 .. Len(t), NEW j \in 1 .. Len(t), t[i] = t[j]
                 PROVE  i = j
      BY DEF Distinct
    <3>1. /\ i + Len(s) \in 1 .. Len(s) + Len(t) /\ j + Len(s) \in 1 .. Len(s) + Len(t)
          /\ ~ (i + Len(s) <= Len(s)) /\ ~ (j + Len(s) <= Len(s))
          /\ i + Len(s) - Len(s) = i /\ j + Len(s) - Len(s) = j
      BY <1>1
    <3>2. (s \o t)[i + Len(s)] = (s \o t)[j + Len(s)]
      BY <1>1, <3>1
    <3>3. i + Len(s) = j + Len(s)
      BY <1>1, <1>3, <3>1, <3>2 DEF Distinct
    <3> QED  BY <1>1, <3>3
  <2>3. Range(s) \cap Range(t) = {}
    <3> SUFFICES ASSUME NEW i \in 1 .. Len(s), NEW j \in 1 .. Len(t), s[i] = t[j]
                 PROVE  FALSE
      BY <1>2
    <3>1. /\ i \in 1 .. Len(s) + Len(t) /\ j + Len(s) \in 1 .. Len(s) + Len(t)
          /\ i <= Len(s) /\ ~ (j + Len(s) <= Len(s)) /\ j + Len(s) - Len(s) = j
          /\ i # j + Len(s)
      BY <1>1
    <3>2. (s \o t)[i] = (s \o t)[j + Len(s)]
      BY <1>1, <3>1
    <3> QED  BY <1>1, <1>3, <3>1, <3>2 DEF Distinct
  <2> QED  BY <2>1, <2>2, <2>3
<1>4. ASSUME Distinct(s), Distinct(t), Range(s) \cap Range(t) = {}
      PROVE  Distinct(s \o t)
  <2> SUFFICES ASSUME NEW i \in 1 .. Len(s) + Len(t), NEW j \in 1 .. Len(s) + Len(t),
                      (s \o t)[i] = (s \o t)[j]
               PROVE  i = j
    BY <1>1 DEF Distinct
  <2>1. /\ i <= Len(s) => i \in 1 .. Len(s)
        /\ ~ (i <= Len(s)) => i - Len(s) \in 1 .. Len(t)
        /\ j <= Len(s) => j \in 1 .. Len(s)
        /\ ~ (j <= Len(s)) => j - Len(s) \in 1 .. Len(t)
    BY <1>1
  <2>2. CASE i <= Len(s) /\ j <= Len(s)
    BY <1>1, <1>4, <2>1, <2>2 DEF Distinct
  <2>3. CASE ~ (i <= Len(s)) /\ ~ (j <= Len(s))
    <3>1. i - Len(s) = j - Len(s)
      BY <1>1, <1>4, <2>1, <2>3 DEF Distinct
    <3> QED  BY <1>1, <3>1
  <2>4. CASE i <= Len(s) /\ ~ (j <= Len(s))
    BY <1>1, <1>2, <1>4, <2>1, <2>4
  <2>5. CASE ~ (i <= Len(s)) /\ j <= Len(s)
    BY <1>1, <1>2, <1>4, <2>1, <2>5
  <2> QED  BY <2>2, <2>3, <2>4, <2>5
<1> QED  BY <1>3, <1>4

---------------------------------------------------------------------------
(* What flattening a sequence of sequences makes. *)

\* f joins the first n sequences of ss one by one.
Joins(f, ss, n) == f = [i \in 1 .. n |-> IF i = 1 THEN ss[i] ELSE f[i - 1] \o ss[i]]

\* FlattenSeq is the last of the sequences that are joined one by one.
LEMMA FlattenJoins ==
    ASSUME NEW ss, Len(ss) \in Nat, Len(ss) # 0
    PROVE  \E f : Joins(f, ss, Len(ss)) /\ FlattenSeq(ss) = f[Len(ss)]
<1> DEFINE Bad == {j \in Nat : j > 0 /\ ~ \E f : Joins(f, ss, j)}
<1>1. Bad = {}
  <2> SUFFICES ASSUME Bad # {}
               PROVE  FALSE
    OBVIOUS
  <2>1. PICK j \in Bad : \A k \in Bad : j <= k
    <3>1. Bad \subseteq Nat
      OBVIOUS
    <3> HIDE DEF Bad
    <3> QED  BY <3>1, LeastExists
  <2>2. j \in Nat /\ j > 0 /\ ~ \E f : Joins(f, ss, j)
    BY <2>1
  <2>3. CASE j = 1
    <3> DEFINE f == [i \in 1 .. 1 |-> ss[i]]
    <3>1. f = [i \in 1 .. 1 |-> IF i = 1 THEN ss[i] ELSE f[i - 1] \o ss[i]]
      OBVIOUS
    <3> HIDE DEF f
    <3> QED  BY <2>2, <2>3, <3>1 DEF Joins
  <2>4. CASE j # 1
    <3>1. j - 1 \in Nat /\ j - 1 > 0 /\ ~ (j <= j - 1)
      BY <2>2, <2>4
    <3>2. PICK e : Joins(e, ss, j - 1)
      BY <2>1, <3>1
    <3> DEFINE f == [i \in 1 .. j |-> IF i = j THEN e[j - 1] \o ss[j] ELSE e[i]]
    <3>3. /\ j \in 1 .. j /\ f[j] = e[j - 1] \o ss[j]
          /\ \A i \in 1 .. j - 1 : i \in 1 .. j /\ f[i] = e[i]
          /\ f = [i \in 1 .. j |-> f[i]]
      <4> HIDE DEF Bad
      <4>1. j \in 1 .. j /\ \A i \in 1 .. j - 1 : i \in 1 .. j /\ i # j
        BY <2>2
      <4>2. \A i \in 1 .. j : f[i] = IF i = j THEN e[j - 1] \o ss[j] ELSE e[i]
        BY Zenon
      <4>3. f = [i \in 1 .. j |-> f[i]]
        BY Zenon
      <4> HIDE DEF f
      <4> QED  BY <4>1, <4>2, <4>3
    <3> HIDE DEF f
    <3>4. ASSUME NEW i \in 1 .. j
          PROVE  f[i] = IF i = 1 THEN ss[i] ELSE f[i - 1] \o ss[i]
      <4>1. CASE i = j
        <5>1. j - 1 \in 1 .. j - 1
          BY <3>1
        <5> QED  BY <2>4, <3>3, <4>1, <5>1
      <4>2. CASE i # j
        <5>1. i \in 1 .. j - 1
          BY <2>2, <4>2
        <5>2. e[i] = IF i = 1 THEN ss[i] ELSE e[i - 1] \o ss[i]
          BY <3>2, <5>1 DEF Joins
        <5>3. i # 1 => i - 1 \in 1 .. j - 1
          BY <5>1
        <5> QED  BY <3>3, <5>1, <5>2, <5>3
      <4> QED  BY <4>1, <4>2
    <3>5. Joins(f, ss, j)
      BY <3>3, <3>4 DEF Joins
    <3> QED  BY <2>2, <3>5
  <2> QED  BY <2>3, <2>4
<1>2. \E f : Joins(f, ss, Len(ss))
  BY <1>1
<1> DEFINE Is(f) == Joins(f, ss, Len(ss))
           all == CHOOSE f : Is(f)
<1>3. FlattenSeq(ss) = all[Len(ss)]
  BY DEF FlattenSeq, Joins
<1>4. Is(all)
  <2>1. \E f : Is(f)
    BY <1>2
  <2> HIDE DEF Is
  <2> QED  BY <2>1
<1> QED  BY <1>3, <1>4

\* What is flattened has the elements of its parts.
LEMMA FlattenType ==
    ASSUME NEW S, NEW ss, Len(ss) \in Nat, \A i \in 1 .. Len(ss) : ss[i] \in Seq(S),
           Len(ss) = 0 => ss = <<>>
    PROVE  FlattenSeq(ss) \in Seq(S)
<1>1. CASE Len(ss) = 0
  BY <1>1 DEF FlattenSeq
<1>2. CASE Len(ss) # 0
  <2>1. PICK f : Joins(f, ss, Len(ss)) /\ FlattenSeq(ss) = f[Len(ss)]
    BY <1>2, FlattenJoins
  <2> DEFINE Bad == {j \in Nat : j > 0 /\ j <= Len(ss) /\ f[j] \notin Seq(S)}
  <2> SUFFICES ASSUME Bad # {}
               PROVE  FALSE
    <3>1. Len(ss) \in Nat /\ Len(ss) > 0 /\ Len(ss) <= Len(ss)
      BY <1>2
    <3> QED  BY <2>1, <3>1
  <2>2. PICK j \in Bad : \A k \in Bad : j <= k
    <3>1. Bad \subseteq Nat
      OBVIOUS
    <3> HIDE DEF Bad
    <3> QED  BY <3>1, LeastExists
  <2>3. j \in 1 .. Len(ss) /\ f[j] \notin Seq(S)
    BY <2>2
  <2>4. f[j] = IF j = 1 THEN ss[j] ELSE f[j - 1] \o ss[j]
    BY <2>1, <2>3 DEF Joins
  <2>5. j # 1
    BY <2>3, <2>4
  <2>6. j - 1 \in Nat /\ j - 1 > 0 /\ j - 1 <= Len(ss) /\ ~ (j <= j - 1)
    BY <2>3, <2>5
  <2>7. f[j - 1] \in Seq(S)
    BY <2>2, <2>6
  <2>8. f[j - 1] \o ss[j] \in Seq(S)
    BY <2>3, <2>7, ConcatProperties
  <2> QED  BY <2>3, <2>4, <2>5, <2>8
<1> QED  BY <1>1, <1>2

\* Chunk is one page's part of what the free list's chain holds.
LEMMA ChunkOf ==
    ASSUME NEW S, NEW payload \in Seq(S), NEW i \in Nat, i > 0
    PROVE  /\ (i - 1) * Capacity \in Nat /\ i * Capacity \in Nat
           /\ i * Capacity = (i - 1) * Capacity + Capacity
           /\ Chunk(payload, i) \in Seq(S)
<1>1. /\ (i - 1) * Capacity \in Nat /\ i * Capacity \in Nat
      /\ i * Capacity = (i - 1) * Capacity + Capacity
  BY CapacityAssumption
<1>2. Len(payload) \in Nat /\ \A x \in 1 .. Len(payload) : payload[x] \in S
  BY LenProperties, ElementOfSeq
<1> DEFINE first == (i - 1) * Capacity + 1
           last == IF i * Capacity <= Len(payload) THEN i * Capacity ELSE Len(payload)
<1>3. first \in Nat /\ first >= 1 /\ last \in Nat /\ last <= Len(payload)
  BY <1>1, <1>2
<1> HIDE DEF first, last
<1>4. \A x \in first .. last : payload[x] \in S
  BY <1>2, <1>3
<1>5. SubSeq(payload, first, last) \in Seq(S)
  BY <1>3, <1>4, SubSeqProperties
<1> QED  BY <1>1, <1>5 DEF Chunk, first, last

\* The chunks of n pages that have room for a payload make it up again.
LEMMA ChunksJoin ==
    ASSUME NEW S, NEW payload \in Seq(S), NEW n \in Nat, n * Capacity >= Len(payload),
           NEW ss, Len(ss) = n, \A i \in 1 .. n : ss[i] = Chunk(payload, i),
           n = 0 => ss = <<>>
    PROVE  FlattenSeq(ss) = payload
<1>0. Len(payload) \in Nat /\ Capacity \in Nat
  BY LenProperties, CapacityAssumption
<1>1. CASE n = 0
  <2>1. Len(payload) = 0
    BY <1>0, <1>1
  <2>2. payload = <<>>
    BY <2>1, EmptySeq
  <2> QED  BY <1>1, <2>2 DEF FlattenSeq
<1>2. CASE n # 0
  <2>1. PICK f : Joins(f, ss, n) /\ FlattenSeq(ss) = f[n]
    BY <1>2, FlattenJoins
  <2> DEFINE UpTo(i) == IF i * Capacity <= Len(payload) THEN i * Capacity
                        ELSE Len(payload)
             Bad == {j \in Nat : j > 0 /\ j <= n /\ f[j] # SubSeq(payload, 1, UpTo(j))}
  <2>2. Bad = {}
    <3> SUFFICES ASSUME Bad # {}
                 PROVE  FALSE
      OBVIOUS
    <3>2. PICK j \in Bad : \A k \in Bad : j <= k
      <4>1. Bad \subseteq Nat
        OBVIOUS
      <4> HIDE DEF Bad
      <4> QED  BY <4>1, LeastExists
    <3>3. j \in Nat /\ j > 0 /\ j <= n /\ f[j] # SubSeq(payload, 1, UpTo(j))
      BY <3>2
    <3>a. j - 1 > 0 => f[j - 1] = SubSeq(payload, 1, UpTo(j - 1))
      <4> SUFFICES ASSUME j - 1 > 0
                   PROVE  f[j - 1] = SubSeq(payload, 1, UpTo(j - 1))
        OBVIOUS
      <4>1. j - 1 \in Nat /\ j - 1 <= n /\ ~ (j <= j - 1)
        BY <3>3
      <4> QED  BY <3>2, <4>1
    <3>4. f[j] = IF j = 1 THEN Chunk(payload, j) ELSE f[j - 1] \o Chunk(payload, j)
      <4>1. j \in 1 .. n
        BY <3>3
      <4> QED  BY <2>1, <4>1 DEF Joins
    <3>5. /\ (j - 1) * Capacity \in Nat /\ j * Capacity \in Nat
          /\ j * Capacity = (j - 1) * Capacity + Capacity
      BY <3>3, ChunkOf
    <3> DEFINE from == (j - 1) * Capacity
               to == UpTo(j)
    <3>6. from \in Nat /\ to \in Nat /\ to <= Len(payload)
      BY <1>0, <3>5
    <3>7. Chunk(payload, j) = SubSeq(payload, from + 1, to)
      BY DEF Chunk
    <3>8. CASE j = 1
      <4>1. from = 0
        BY <3>8, <1>0
      <4> QED  BY <3>3, <3>4, <3>7, <3>8, <4>1
    <3>9. CASE j # 1
      <4>1. f[j] = SubSeq(payload, 1, UpTo(j - 1)) \o SubSeq(payload, from + 1, to)
        <5>1. j - 1 > 0
          BY <3>3, <3>9
        <5> HIDE DEF UpTo, Bad, from, to
        <5> QED  BY <3>a, <3>4, <3>7, <3>9, <5>1
      <4>2. CASE from <= Len(payload)
        <5>1. UpTo(j - 1) = from /\ from <= to
          BY <1>0, <3>5, <4>2
        <5> HIDE DEF from, to, UpTo, Bad
        <5>2. SubSeq(payload, 1, from) \o SubSeq(payload, from + 1, to)
                  = SubSeq(payload, 1, to)
          <6>1. 1 \in 1 .. Len(payload) + 1 /\ from \in 1 - 1 .. Len(payload)
                /\ to \in from .. Len(payload)
            BY <1>0, <3>6, <4>2, <5>1
          <6> QED  BY <6>1, ConcatAdjacentSubSeq
        <5> QED  BY <3>3, <4>1, <5>1, <5>2 DEF to
      <4>3. CASE ~ (from <= Len(payload))
        <5>1. UpTo(j - 1) = Len(payload) /\ to = Len(payload) /\ to < from + 1
          BY <1>0, <3>5, <4>3
        <5> HIDE DEF from, to, UpTo, Bad
        <5>2. SubSeq(payload, from + 1, to) = <<>>
          BY <3>6, <5>1, SubSeqEmpty
        <5>3. SubSeq(payload, 1, Len(payload)) = payload /\ payload \o <<>> = payload
          BY SubSeqFull, ConcatEmptySeq
        <5> QED  BY <3>3, <4>1, <5>1, <5>2, <5>3 DEF to
      <4> QED  BY <4>2, <4>3
    <3> QED  BY <3>8, <3>9
  <2>3. f[n] = SubSeq(payload, 1, UpTo(n))
    <3>1. n \in Nat /\ n > 0 /\ n <= n
      BY <1>2
    <3> QED  BY <2>2, <3>1
  <2>4. UpTo(n) = Len(payload)
    <3>1. n * Capacity \in Nat
      BY <1>0
    <3> QED  BY <1>0, <3>1
  <2>5. SubSeq(payload, 1, Len(payload)) = payload
    BY SubSeqFull
  <2> QED  BY <2>1, <2>3, <2>4, <2>5
<1> QED  BY <1>1, <1>2

\* PagesNeeded pages have room for the payload.
LEMMA PagesSuffice ==
    ASSUME NEW S, NEW payload \in Seq(S)
    PROVE  PagesNeeded(payload) \in Nat
           /\ PagesNeeded(payload) * Capacity >= Len(payload)
<1> DEFINE m == Len(payload)
           d == m + Capacity - 1
           q == d \div Capacity
<1>1. m \in Nat /\ Capacity \in Nat /\ Capacity > 0
  BY LenProperties, CapacityAssumption
<1>2. d \in Nat
  BY <1>1
<1> HIDE DEF m, d
<1>3. q \in Nat /\ d = Capacity * q + (d % Capacity) /\ (d % Capacity) \in 0 .. Capacity - 1
  BY <1>1, <1>2
<1> HIDE DEF q
<1>4. Capacity * q = q * Capacity /\ q * Capacity \in Nat
  BY <1>1, <1>3
<1>5. q * Capacity >= m
  <2> DEFINE room == q * Capacity
             left == d % Capacity
  <2>1. room \in Nat /\ left \in 0 .. Capacity - 1 /\ d = room + left
    BY <1>3, <1>4
  <2> HIDE DEF room, left
  <2>2. room >= m
    BY <1>1, <2>1 DEF d
  <2> QED  BY <2>2 DEF room
<1> QED  BY <1>3, <1>5 DEF PagesNeeded, m, d, q

---------------------------------------------------------------------------
(* What loading the free list's chain finds. *)

\* w is where n steps of load_free_list_chain() lead, from a head.
Walks(on, w, head, n) ==
    \A i \in 0 .. n : w[i] = IF i = 0 THEN head ELSE ReadPage(on, w[i - 1]).next

\* Where all its steps lead.
WalkFrom(on, head) ==
    LET at[i \in Nat] == IF i = 0 THEN head ELSE ReadPage(on, at[i - 1]).next IN at

\* Two walks from a head lead to the same pages.
LEMMA WalksAgree ==
    ASSUME NEW on, NEW head, NEW m \in Nat, NEW n \in Nat, NEW v, NEW w,
           Walks(on, v, head, m), Walks(on, w, head, n),
           NEW i \in Nat, i <= m, i <= n
    PROVE  v[i] = w[i]
<1> DEFINE Bad == {j \in Nat : j <= m /\ j <= n /\ v[j] # w[j]}
<1> SUFFICES ASSUME Bad # {}
             PROVE  FALSE
  OBVIOUS
<1>1. PICK j \in Bad : \A k \in Bad : j <= k
  <2>1. Bad \subseteq Nat
    OBVIOUS
  <2> HIDE DEF Bad
  <2> QED  BY <2>1, LeastExists
<1>2. j \in Nat /\ j \in 0 .. m /\ j \in 0 .. n /\ v[j] # w[j]
  BY <1>1
<1>3. /\ v[j] = IF j = 0 THEN head ELSE ReadPage(on, v[j - 1]).next
      /\ w[j] = IF j = 0 THEN head ELSE ReadPage(on, w[j - 1]).next
  BY <1>2 DEF Walks
<1>4. j # 0
  BY <1>2, <1>3
<1>5. j - 1 \in Nat /\ ~ (j <= j - 1) /\ j - 1 <= m /\ j - 1 <= n
  BY <1>2, <1>4
<1>6. v[j - 1] = w[j - 1]
  BY <1>1, <1>5
<1> QED  BY <1>2, <1>3, <1>4, <1>6

\* There is a walk of any length.
LEMMA WalkExists ==
    ASSUME NEW on, NEW head, NEW n \in Nat
    PROVE  \E w : Walks(on, w, head, n)
<1> DEFINE Bad == {j \in Nat : ~ \E w : Walks(on, w, head, j)}
<1> SUFFICES ASSUME Bad # {}
             PROVE  FALSE
  OBVIOUS
<1>1. PICK j \in Bad : \A k \in Bad : j <= k
  <2>1. Bad \subseteq Nat
    OBVIOUS
  <2> HIDE DEF Bad
  <2> QED  BY <2>1, LeastExists
<1>2. j \in Nat /\ ~ \E w : Walks(on, w, head, j)
  BY <1>1
<1>3. CASE j = 0
  <2> DEFINE w == [i \in 0 .. 0 |-> head]
  <2>1. \A i \in 0 .. 0 : w[i] = head /\ i = 0
    OBVIOUS
  <2> HIDE DEF w
  <2>2. Walks(on, w, head, j)
    BY <1>3, <2>1 DEF Walks
  <2> QED  BY <1>2, <2>2
<1>4. CASE j # 0
  <2>1. j - 1 \in Nat /\ ~ (j <= j - 1)
    BY <1>2, <1>4
  <2>2. PICK v : Walks(on, v, head, j - 1)
    BY <1>1, <2>1
  <2> DEFINE last == ReadPage(on, v[j - 1]).next
             w == [i \in 0 .. j |-> IF i = j THEN last ELSE v[i]]
  <2> HIDE DEF last
  <2>3. w[j] = last /\ \A i \in 0 .. j - 1 : w[i] = v[i]
    BY <1>2, <1>4
  <2> HIDE DEF w
  <2>4. Walks(on, w, head, j)
    <3> SUFFICES ASSUME NEW i \in 0 .. j
                 PROVE  w[i] = IF i = 0 THEN head ELSE ReadPage(on, w[i - 1]).next
      BY DEF Walks
    <3>1. CASE i = j
      <4>1. j - 1 \in 0 .. j - 1
        BY <2>1
      <4>2. w[j - 1] = v[j - 1]
        BY <2>3, <4>1
      <4> QED  BY <1>4, <2>3, <3>1, <4>2 DEF last
    <3>2. CASE i # j
      <4>1. i \in 0 .. j - 1
        BY <1>2, <3>2
      <4>2. v[i] = IF i = 0 THEN head ELSE ReadPage(on, v[i - 1]).next
        BY <2>2, <4>1 DEF Walks
      <4>3. i # 0 => i - 1 \in 0 .. j - 1
        BY <4>1
      <4>4. w[i] = v[i] /\ (i # 0 => w[i - 1] = v[i - 1])
        BY <2>3, <4>1, <4>3
      <4> QED  BY <4>2, <4>4
    <3> QED  BY <3>1, <3>2
  <2> QED  BY <1>2, <2>4
<1> QED  BY <1>3, <1>4

\* The walk is what its recursion says.
LEMMA WalkDefined ==
    ASSUME NEW on, NEW head
    PROVE  \A i \in Nat : WalkFrom(on, head)[i] =
              IF i = 0 THEN head ELSE ReadPage(on, WalkFrom(on, head)[i - 1]).next
<1> DEFINE Up(w, n) == Walks(on, w, head, n)
           upTo(n) == CHOOSE w : Up(w, n)
           r == [n \in Nat |-> upTo(n)[n]]
<1>1. \A n \in Nat : Up(upTo(n), n)
  <2>1. \A n \in Nat : \E w : Up(w, n)
    BY WalkExists
  <2> HIDE DEF Up
  <2> QED  BY <2>1
<1>2. \A n \in Nat : r[n] = upTo(n)[n]
  OBVIOUS
<1>3. r = [n \in Nat |-> r[n]]
  OBVIOUS
<1> HIDE DEF r, upTo
<1>4. ASSUME NEW n \in Nat
      PROVE  r[n] = IF n = 0 THEN head ELSE ReadPage(on, r[n - 1]).next
  <2>1. n \in 0 .. n
    OBVIOUS
  <2>2. r[n] = IF n = 0 THEN head ELSE ReadPage(on, upTo(n)[n - 1]).next
    BY <1>1, <1>2, <2>1 DEF Walks
  <2>3. CASE n # 0
    <3>1. n - 1 \in Nat /\ n - 1 <= n /\ n - 1 <= n - 1
      BY <2>3
    <3>2. Up(upTo(n), n) /\ Up(upTo(n - 1), n - 1)
      BY <1>1, <3>1
    <3>3. upTo(n)[n - 1] = upTo(n - 1)[n - 1]
      BY <3>1, <3>2, WalksAgree
    <3>4. r[n - 1] = upTo(n)[n - 1]
      BY <1>2, <3>1, <3>3
    <3> QED  BY <2>2, <3>4
  <2> QED  BY <2>2, <2>3
<1> DEFINE Is(a) == a = [i \in Nat |-> IF i = 0 THEN head ELSE ReadPage(on, a[i - 1]).next]
<1>5. Is(r)
  BY <1>3, <1>4
<1>6. WalkFrom(on, head) = CHOOSE a : Is(a)
  BY DEF WalkFrom
<1> HIDE DEF Is
<1>7. Is(WalkFrom(on, head))
  BY <1>5, <1>6
<1> QED  BY <1>7 DEF Is

\* After n pages the walk comes to its end, or to where it is cut off.
Stops(on, head, n) ==
    LET w == WalkFrom(on, head)
    IN  /\ w[n] = 0 \/ n = Cardinality(DOMAIN on) + 2
        /\ \A i \in 0 .. n - 1 : w[i] # 0
        /\ Chain(on, head) = [i \in 1 .. n |-> w[i - 1]]

\* The chain is the pages on the way there.
LEMMA ChainWalks ==
    ASSUME NEW on, NEW head, IsFiniteSet(DOMAIN on)
    PROVE  /\ Cardinality(DOMAIN on) + 2 \in Nat
           /\ \E n \in 0 .. Cardinality(DOMAIN on) + 2 : Stops(on, head, n)
<1> DEFINE most == Cardinality(DOMAIN on) + 2
           w == WalkFrom(on, head)
           ends == {n \in 0 .. most : w[n] = 0 \/ n = most}
<1>1. most \in Nat
  BY FS_CardinalityType
<1>2. Chain(on, head) = [i \in 1 .. Min(ends) |-> w[i - 1]]
  BY DEF Chain, WalkFrom
<1> HIDE DEF most, w
<1>3. ends \subseteq Nat /\ most \in ends
  BY <1>1
<1>4. Min(ends) \in ends /\ \A j \in ends : Min(ends) <= j
  <2> HIDE DEF ends
  <2> QED  BY <1>3, MinIsLeast
<1> DEFINE n == Min(ends)
<1>5. n \in 0 .. most /\ (w[n] = 0 \/ n = most)
  BY <1>4
<1>6. ASSUME NEW i \in 0 .. n - 1
      PROVE  w[i] # 0
  <2>1. i \in 0 .. most /\ ~ (n <= i)
    BY <1>1, <1>5
  <2> HIDE DEF n
  <2> QED  BY <1>4, <2>1 DEF n
<1> HIDE DEF n
<1> QED  BY <1>1, <1>2, <1>5, <1>6 DEF Stops, most, w, n

\* What may be on a page: all that a chain and its ids are made of.
LEMMA ReadType ==
    ASSUME NEW on, \A p \in DOMAIN on : on[p] \in Content, NEW p
    PROVE  ReadPage(on, p).next \in Nat /\ ReadPage(on, p).ids \in Seq(PageId)
<1>1. <<>> \in Seq(PageId)
  BY EmptySeq
<1> QED  BY <1>1 DEF ReadPage, FreePage, Content

\* Whatever is on a file, a chain is a sequence of pages, and so is what it holds.
LEMMA ChainTypes ==
    ASSUME NEW on, IsFiniteSet(DOMAIN on), \A p \in DOMAIN on : on[p] \in Content,
           NEW head \in Nat
    PROVE  Chain(on, head) \in Seq(PageId) /\ Entries(on, Chain(on, head)) \in Seq(PageId)
<1> DEFINE most == Cardinality(DOMAIN on) + 2
           w == WalkFrom(on, head)
<1>1. \A i \in Nat : w[i] = IF i = 0 THEN head ELSE ReadPage(on, w[i - 1]).next
  BY WalkDefined
<1>a. most \in Nat /\ \E n \in 0 .. most : Stops(on, head, n)
  BY ChainWalks
<1>2. PICK n \in 0 .. most : /\ most \in Nat
                             /\ \A i \in 0 .. n - 1 : w[i] # 0
                             /\ Chain(on, head) = [i \in 1 .. n |-> w[i - 1]]
  BY <1>a DEF Stops
<1> HIDE DEF most, w
<1>3. n \in Nat
  BY <1>2
<1>4. ASSUME NEW i \in 1 .. n
      PROVE  w[i - 1] \in PageId
  <2>1. i - 1 \in 0 .. n - 1 /\ i - 1 \in Nat
    BY <1>3
  <2>2. w[i - 1] \in Nat
    BY <1>1, <2>1, ReadType
  <2> QED  BY <1>2, <2>1, <2>2 DEF PageId
<1>5. /\ Chain(on, head) \in Seq(PageId) /\ Len(Chain(on, head)) = n
  BY <1>2, <1>3, <1>4
<1> DEFINE parts == [i \in 1 .. Len(Chain(on, head)) |-> ReadPage(on, Chain(on, head)[i]).ids]
<1>6. /\ Len(parts) = n /\ (n = 0 => parts = <<>>)
      /\ \A i \in 1 .. n : parts[i] \in Seq(PageId)
  <2>1. parts = [i \in 1 .. n |-> ReadPage(on, Chain(on, head)[i]).ids]
    BY <1>5
  <2>2. \A i \in 1 .. n : ReadPage(on, Chain(on, head)[i]).ids \in Seq(PageId)
    BY ReadType
  <2> HIDE DEF parts
  <2>3. parts \in Seq(Seq(PageId)) /\ Len(parts) = n
    BY <1>3, <2>1, <2>2
  <2>4. n = 0 => parts = <<>>
    BY <2>3, EmptySeq
  <2> QED  BY <2>1, <2>2, <2>3, <2>4
<1> HIDE DEF parts
<1>7. FlattenSeq(parts) \in Seq(PageId)
  BY <1>3, <1>6, FlattenType
<1> QED  BY <1>5, <1>7 DEF Entries, parts

\* The first m ids are of pages on a file, each linked to the next.
Follow(on, ids, m) ==
    /\ \A i \in 1 .. m : ids[i] \in PageId /\ ids[i] \in DOMAIN on
    /\ \A i \in 1 .. m : on[ids[i]].next = IF i < m THEN ids[i + 1] ELSE 0
    /\ \A i, j \in 1 .. m : ids[i] = ids[j] => i = j

\* They are the chain that starts at the first.
LEMMA ChainFollows ==
    ASSUME NEW on, IsFiniteSet(DOMAIN on), NEW m \in Nat, NEW ids, Follow(on, ids, m)
    PROVE  LET chain == Chain(on, IF m > 0 THEN ids[1] ELSE 0)
           IN  /\ chain = [i \in 1 .. m |-> ids[i]]
               /\ Ends(on, chain) /\ Len(chain) = m
<1> USE DEF Follow
<1> DEFINE head == IF m > 0 THEN ids[1] ELSE 0
           most == Cardinality(DOMAIN on) + 2
           w == WalkFrom(on, head)
<1>1. \A i \in Nat : w[i] = IF i = 0 THEN head ELSE ReadPage(on, w[i - 1]).next
  BY WalkDefined
<1> HIDE DEF head
<1>a. most \in Nat /\ \E n \in 0 .. most : Stops(on, head, n)
  BY ChainWalks
<1>2. PICK n \in 0 .. most : /\ most \in Nat
                             /\ w[n] = 0 \/ n = most
                             /\ \A i \in 0 .. n - 1 : w[i] # 0
                             /\ Chain(on, head) = [i \in 1 .. n |-> w[i - 1]]
  BY <1>a DEF Stops
<1>3. m <= Cardinality(DOMAIN on) /\ Cardinality(DOMAIN on) \in Nat
  <2> DEFINE f == [i \in 1 .. m |-> ids[i]]
  <2>1. f \in Injection(1 .. m, DOMAIN on)
    BY DEF Injection, IsInjective
  <2> HIDE DEF f
  <2>3. Cardinality(1 .. m) = m /\ IsFiniteSet(1 .. m)
    BY FS_Interval
  <2>4. Cardinality(1 .. m) <= Cardinality(DOMAIN on)
    BY <2>1, FS_Injection
  <2> QED  BY <2>3, <2>4, FS_CardinalityType
<1> HIDE DEF w
<1>4. \A i \in 0 .. m : w[i] = IF i < m THEN ids[i + 1] ELSE 0
  <2> DEFINE Bad == {j \in Nat : j <= m /\ w[j] # IF j < m THEN ids[j + 1] ELSE 0}
  <2> SUFFICES ASSUME Bad # {}
               PROVE  FALSE
    OBVIOUS
  <2>1. PICK j \in Bad : \A k \in Bad : j <= k
    <3>1. Bad \subseteq Nat
      OBVIOUS
    <3> HIDE DEF Bad
    <3> QED  BY <3>1, LeastExists
  <2>2. j \in Nat /\ j <= m /\ w[j] # IF j < m THEN ids[j + 1] ELSE 0
    BY <2>1
  <2>3. CASE j = 0
    <3>1. w[0] = head
      BY <1>1
    <3> QED  BY <2>2, <2>3, <3>1 DEF head
  <2>4. CASE j # 0
    <3>1. j - 1 \in Nat /\ j - 1 <= m /\ j - 1 < m /\ ~ (j <= j - 1) /\ j - 1 + 1 = j
          /\ j \in 1 .. m
      BY <2>2, <2>4
    <3>2. w[j - 1] = ids[j]
      BY <2>1, <3>1
    <3>3. w[j] = ReadPage(on, ids[j]).next
      BY <1>1, <2>2, <2>4, <3>2
    <3>4. ReadPage(on, ids[j]) = on[ids[j]]
      BY <3>1 DEF ReadPage
    <3> QED  BY <2>2, <3>1, <3>3, <3>4
  <2> QED  BY <2>3, <2>4
<1>5. n = m
  <2>1. ASSUME n < m PROVE FALSE
    <3>1. n \in 0 .. m /\ n + 1 \in 1 .. m /\ n # most
      BY <1>2, <1>3, <2>1
    <3>2. w[n] = ids[n + 1]
      BY <1>4, <2>1, <3>1
    <3> QED  BY <1>2, <3>1, <3>2 DEF PageId
  <2>2. ASSUME m < n PROVE FALSE
    <3>1. m \in 0 .. n - 1 /\ m \in 0 .. m /\ ~ (m < m)
      BY <1>2, <2>2
    <3> QED  BY <1>2, <1>4, <3>1
  <2>3. n \in Nat
    BY <1>2
  <2> QED  BY <2>1, <2>2, <2>3
<1>6. Chain(on, head) = [i \in 1 .. m |-> ids[i]]
  <2>1. \A i \in 1 .. m : i - 1 \in 0 .. m /\ i - 1 < m /\ i - 1 + 1 = i
    OBVIOUS
  <2>2. \A i \in 1 .. m : w[i - 1] = ids[i]
    BY <1>4, <2>1
  <2> QED  BY <1>2, <1>5, <2>2
<1>7. Len(Chain(on, head)) = m
  BY <1>6
<1> QED  BY <1>3, <1>6, <1>7 DEF Ends, head

\* A chain as persist_free_list() lays it out is read as it is, links to the
\* end, and holds what it was made for.
LEMMA ChainHolds ==
    ASSUME NEW on, IsFiniteSet(DOMAIN on),
           NEW payload \in Seq(PageId), NEW ids \in Seq(PageId),
           Distinct(ids), PagesNeeded(payload) <= Len(ids),
           OnDisk(on, payload, ids, PagesNeeded(payload))
    PROVE  LET n     == PagesNeeded(payload)
               chain == Chain(on, IF n > 0 THEN ids[1] ELSE 0)
           IN  /\ n \in Nat
               /\ chain = [i \in 1 .. n |-> ids[i]] /\ Len(chain) = n
               /\ Linked(on, chain)
               /\ Ends(on, chain)
               /\ Entries(on, chain) = payload
<1> DEFINE n == PagesNeeded(payload)
           chain == Chain(on, IF n > 0 THEN ids[1] ELSE 0)
<1>1. n \in Nat /\ n * Capacity >= Len(payload)
  BY PagesSuffice
<1>3. Len(ids) \in Nat /\ n <= Len(ids) /\ \A i \in 1 .. Len(ids) : ids[i] \in PageId
  BY LenProperties, ElementOfSeq
<1>a. \A i \in 1 .. n : ids[i] \in DOMAIN on
            /\ on[ids[i]] = FreePage(IF i < n THEN ids[i + 1] ELSE 0, Chunk(payload, i))
  BY DEF OnDisk, LinkOf
<1> HIDE DEF n
<1>4. ASSUME NEW i \in 1 .. n
      PROVE  /\ ids[i] \in PageId /\ ids[i] \in DOMAIN on
             /\ on[ids[i]] = FreePage(IF i < n THEN ids[i + 1] ELSE 0, Chunk(payload, i))
  <2>1. i \in 1 .. Len(ids)
    BY <1>1, <1>3
  <2> QED  BY <1>a, <1>3, <2>1
<1>5. \A i \in 1 .. n : /\ on[ids[i]].next = IF i < n THEN ids[i + 1] ELSE 0
                        /\ on[ids[i]].ids = Chunk(payload, i)
  <2>1. \A q, c : FreePage(q, c).next = q /\ FreePage(q, c).ids = c
    BY DEF FreePage
  <2> QED  BY <1>4, <2>1
<1>6. \A i, j \in 1 .. n : ids[i] = ids[j] => i = j
  BY <1>1, <1>3 DEF Distinct
<1>7. chain = [i \in 1 .. n |-> ids[i]] /\ Ends(on, chain) /\ Len(chain) = n
  <2>1. Follow(on, ids, n)
    BY <1>4, <1>5, <1>6 DEF Follow
  <2> QED  BY <1>1, <2>1, ChainFollows
<1> HIDE DEF chain
<1>8. Linked(on, chain)
  <2>1. \A q, c : IsLink(FreePage(q, c))
    BY DEF FreePage, IsLink
  <2>2. \A i \in 1 .. n : ids[i] \in DOMAIN on /\ IsLink(on[ids[i]])
    BY <1>4, <2>1
  <2>3. Range(chain) = {ids[i] : i \in 1 .. n}
    BY <1>1, <1>7 DEF Range
  <2> QED  BY <2>2, <2>3 DEF Linked
<1>9. Entries(on, chain) = payload
  <2> DEFINE parts == [i \in 1 .. Len(chain) |-> ReadPage(on, chain[i]).ids]
  <2>1. parts = [i \in 1 .. n |-> ReadPage(on, chain[i]).ids]
    BY <1>7
  <2>2. \A i \in 1 .. n : parts[i] = Chunk(payload, i)
    BY <1>4, <1>5, <1>7, <2>1 DEF ReadPage
  <2> HIDE DEF parts
  <2>3. \A i \in 1 .. n : parts[i] \in Seq(PageId)
    <3> SUFFICES ASSUME NEW i \in 1 .. n
                 PROVE  Chunk(payload, i) \in Seq(PageId)
      BY <2>2
    <3>1. i \in Nat /\ i > 0
      BY <1>1
    <3> QED  BY <3>1, ChunkOf
  <2>4. parts \in Seq(Seq(PageId)) /\ Len(parts) = n
    BY <1>1, <2>1, <2>3
  <2>5. n = 0 => parts = <<>>
    BY <2>4, EmptySeq
  <2>6. FlattenSeq(parts) = payload
    BY <1>1, <2>2, <2>4, <2>5, ChunksJoin
  <2> QED  BY <2>6 DEF Entries, parts
<1> QED  BY <1>1, <1>7, <1>8, <1>9 DEF n, chain

---------------------------------------------------------------------------
(* Types hold. *)

\* A new file.
LEMMA InitTypes == Init => TypesHold
<1> SUFFICES ASSUME Init
             PROVE  TypesHold
  OBVIOUS
<1>1. <<>> \in Seq(PageId) /\ <<>> \in Seq([page : PageId, content : Content])
      /\ DOMAIN <<>> = {} /\ Range(<<>>) = {}
  BY EmptySeq DEF Range
<1>2. IsTree(<<>>)
  BY <1>1 DEF IsTree
<1>3. ListTypes /\ TreeTypes /\ HeaderTypes /\ StateTypes
  BY <1>1, <1>2, BoundAssumption
     DEF Init, ListTypes, TreeTypes, HeaderTypes, StateTypes, IsOpen, Booting
<1>4. FileTypes
  BY <1>1, MappingAssumption, FS_EmptySet DEF Init, FileTypes, PageId
<1>5. ReaderTypes
  <2>1. Registered = {}
    BY DEF Init, Registered
  <2> QED  BY <2>1, FS_EmptySet DEF Init, ReaderTypes
<1>6. TxnTypes
  BY <1>1, <1>2 DEF Init, TxnTypes, NoTxn, InPut
<1> QED  BY <1>3, <1>4, <1>5, <1>6 DEF TypesHold

\* What a step does to the readers.
LEMMA ReadersUnmoved ==
    ASSUME Write \/ BootRoot \/ BootHeader
    PROVE  UNCHANGED <<readers, phase, snap, exposed>>
<1>1. CASE BeginPut
  BY <1>1 DEF BeginPut, BeginPutOn, readerVars
<1>2. CASE WritePage \/ FoldAndGate \/ WriteChainPage
  BY <1>2 DEF WritePage, FoldAndGate, WriteChainPage, readerVars
<1>3. CASE WriteHeader \/ Publish \/ HitCeiling
  BY <1>3 DEF WriteHeader, Publish, HitCeiling, readerVars
<1>4. CASE BootRoot \/ BootHeader
  BY <1>4 DEF BootRoot, BootHeader, readerVars
<1> QED  BY <1>1, <1>2, <1>3, <1>4 DEF Write

\* No step miscounts readers: enter_read() adds one, a drop takes one, and a
\* process that ends takes all.
LEMMA ReaderTypesStep ==
    ASSUME ReaderTypes, TxnTypes, [Next]_vars
    PROVE  ReaderTypes'
<1>1. ASSUME NEW r \in Reader, EnterRead(r)
      PROVE  ReaderTypes'
  <2>1. r \notin Registered /\ Registered' = Registered \cup {r}
    BY <1>1 DEF EnterRead, ReaderTypes, Registered
  <2>2. /\ IsFiniteSet(Registered \cup {r})
        /\ Cardinality(Registered \cup {r}) = Cardinality(Registered) + 1
    BY <2>1, FS_AddElement DEF ReaderTypes
  <2>3. readers' = Cardinality(Registered') /\ IsFiniteSet(Registered')
    BY <1>1, <2>1, <2>2 DEF EnterRead, ReaderTypes
  <2> QED  BY <1>1, <2>3 DEF EnterRead, ReaderTypes
<1>2. ASSUME NEW r \in Reader, LoadRoot(r)
      PROVE  ReaderTypes'
  <2>1. Registered' = Registered
    BY <1>2 DEF LoadRoot, ReaderTypes, Registered
  <2>2. readers' = Cardinality(Registered') /\ IsFiniteSet(Registered')
    BY <1>2, <2>1 DEF LoadRoot, ReaderTypes
  <2>3. txn.promoted \in BOOLEAN
    BY DEF TxnTypes
  <2> QED  BY <1>2, <2>2, <2>3 DEF LoadRoot, ReaderTypes
<1>3. ASSUME NEW r \in Reader, DropRead(r)
      PROVE  ReaderTypes'
  <2>1. r \in Registered /\ Registered' = Registered \ {r}
    BY <1>3 DEF DropRead, ReaderTypes, Registered
  <2>2. /\ IsFiniteSet(Registered \ {r})
        /\ Cardinality(Registered \ {r}) = Cardinality(Registered) - 1
    BY <2>1, FS_RemoveElement DEF ReaderTypes
  <2>3. readers' = Cardinality(Registered') /\ IsFiniteSet(Registered')
    BY <1>3, <2>1, <2>2 DEF DropRead, ReaderTypes
  <2> QED  BY <1>3, <2>3 DEF DropRead, ReaderTypes
<1>4. CASE Write \/ BootRoot \/ BootHeader
  <2>1. UNCHANGED <<readers, phase, snap, exposed>>
    BY <1>4, ReadersUnmoved
  <2> QED  BY <2>1 DEF ReaderTypes, Registered
<1>5. CASE Reopen \/ Crash
  <2>1. NoReaders
    BY <1>5 DEF Reopen, Crash, EndBetween, DieInPage, DieInHeader, Restart
  <2>2. Registered' = {}
    BY <2>1 DEF NoReaders, Registered
  <2>3. readers' = Cardinality(Registered') /\ IsFiniteSet(Registered')
    BY <2>1, <2>2, FS_EmptySet DEF NoReaders
  <2> QED  BY <2>1, <2>3 DEF NoReaders, ReaderTypes
<1>6. CASE UNCHANGED vars
  BY <1>6 DEF vars, readerVars, ReaderTypes, Registered
<1> QED  BY <1>1, <1>2, <1>3, <1>4, <1>5, <1>6 DEF Next, Read

\* What a page write does to the file.
LEMMA WriteTypes ==
    ASSUME FileTypes, NEW p \in PageId, NEW c \in Content, WriteAt(p, c),
           mapped' = mapped
    PROVE  FileTypes'
<1>1. disk' = Put(disk, p, c) /\ committed' = IF p < committed THEN committed ELSE p + 1
  BY DEF WriteAt
<1>2. DOMAIN disk' = DOMAIN disk \cup {p}
      /\ \A q \in DOMAIN disk \cup {p} : disk'[q] = IF q = p THEN c ELSE disk[q]
  BY <1>1 DEF Put
<1>3. IsFiniteSet(DOMAIN disk \cup {p})
  BY FS_AddElement DEF FileTypes
<1>4. committed' \in PageId
  BY <1>1 DEF FileTypes, PageId
<1> QED  BY <1>2, <1>3, <1>4 DEF FileTypes

\* A node of a tree may be on a page.
LEMMA NodePageType ==
    ASSUME NEW n \in [txn : Nat, level : Nat]
    PROVE  NodePage(n) \in Content
BY EmptySeq DEF NodePage, Content

\* The chain of no pages.
LEMMA NoChain ==
    ASSUME NEW on, IsFiniteSet(DOMAIN on)
    PROVE  /\ Chain(on, 0) = <<>> /\ Entries(on, <<>>) = <<>>
           /\ Ends(on, <<>>) /\ Linked(on, <<>>)
<1> DEFINE m == 0
           ids == [i \in 1 .. m |-> 0]
<1>1. Follow(on, ids, m)
  BY DEF Follow
<1>2. m \in Nat /\ [i \in 1 .. m |-> ids[i]] = <<>>
      /\ (IF m > 0 THEN ids[1] ELSE 0) = 0
  OBVIOUS
<1> HIDE DEF m, ids
<1>3. LET chain == Chain(on, IF m > 0 THEN ids[1] ELSE 0)
      IN  chain = [i \in 1 .. m |-> ids[i]] /\ Ends(on, chain) /\ Len(chain) = m
  BY <1>1, <1>2, ChainFollows
<1>5. Chain(on, 0) = <<>> /\ Ends(on, <<>>)
  BY <1>2, <1>3
<1> DEFINE parts == [i \in 1 .. Len(<<>>) |-> ReadPage(on, <<>>[i]).ids]
<1>6. parts = <<>> /\ Len(parts) = 0
  BY EmptySeq
<1> HIDE DEF parts
<1>7. FlattenSeq(parts) = <<>>
  BY <1>6 DEF FlattenSeq
<1>8. Linked(on, <<>>)
  BY DEF Linked, Range
<1> QED  BY <1>5, <1>7, <1>8 DEF Entries, parts

\* What may have become of the file when a process ends: nothing, or a page
\* that is half copied, or a header that is.
FileLeft ==
    \/ UNCHANGED <<disk, header>> /\ torn' = (torn \/ txn.rewritten)
    \/ \E p \in Copying : /\ disk' = Put(disk, p, Scrap) /\ UNCHANGED header
                          /\ torn' = (torn \/ txn.rewritten \/ p = header.head)
    \/ UNCHANGED disk /\ pc = "chain" /\ ~ChainLeft
       /\ header' \in HalfHeaders /\ torn' = TRUE

\* What may become of a file that is opened: a store,
OpensAgainWith(chain) ==
    /\ header' # NoHeader /\ pc' = "idle"
    /\ root' = header'.root /\ tree' = header'.tree /\ next_page_id' = header'.next
    /\ free_list_page_ids' = chain /\ free_list' = Entries(disk', chain)
    /\ pending_free' = <<>>

\* or a failure at the chain,
FailsToOpen(chain) ==
    /\ header' # NoHeader /\ pc' = "dead"
    /\ ~Ends(disk', chain) \/ ~Linked(disk', chain)
    /\ UNCHANGED <<root, tree, free_list, pending_free, free_list_page_ids, next_page_id>>

\* or no header is found,
StartsAfresh ==
    /\ header' = NoHeader /\ pc' = "boot"
    /\ UNCHANGED <<root, tree, free_list, pending_free, free_list_page_ids, next_page_id>>

\* or the file's first header is half of one.
FailsAtHeader ==
    /\ pc = "bootHeader" /\ pc' = "dead" /\ torn' = TRUE
    /\ NoReaders /\ UNCHANGED <<txns, disk, committed, mapped, header, txn>>
    /\ UNCHANGED <<root, tree, free_list, pending_free, free_list_page_ids, next_page_id>>

\* What is written when a process dies is scrap.
LEMMA ScrapType == Scrap \in Content
<1>1. Node(0, 2) \in [txn : Nat, level : Nat]
  BY DEF Node
<1> QED  BY <1>1, EmptySeq DEF Scrap, NodePage, Content

\* The pages that may be half copied are pages that are to be written.
LEMMA CopyingIs ==
    ASSUME TxnTypes, NEW p \in Copying
    PROVE  /\ p \in PageId
           /\ \/ pc = "boot" /\ p = 1
              \/ pc = "writing" /\ p \in Range(txn.writes)
              \/ pc = "chain" /\ txn.chain # <<>> /\ p = txn.chain[1].page
<1>1. p \in NextPages
  BY DEF Copying
<1>2. CASE pc = "boot"
  BY <1>1, <1>2 DEF NextPages, PageId
<1>3. CASE pc = "writing"
  <2>1. txn.writes # <<>> /\ p = Head(txn.writes)
    BY <1>1, <1>3 DEF NextPages
  <2>2. txn.writes \in Seq(PageId)
    BY DEF TxnTypes
  <2>3. Len(txn.writes) \in Nat \ {0} /\ p = txn.writes[1]
    BY <2>1, <2>2, EmptySeq
  <2>4. p \in Range(txn.writes) /\ p \in PageId
    BY <2>2, <2>3, RangeIs
  <2> QED  BY <1>3, <2>4
<1>4. CASE pc = "chain"
  <2>1. txn.chain # <<>> /\ p = Head(txn.chain).page
    BY <1>1, <1>4 DEF NextPages
  <2>2. txn.chain \in Seq([page : PageId, content : Content])
    BY DEF TxnTypes
  <2> DEFINE Link == [page : PageId, content : Content]
  <2> HIDE DEF Link
  <2>3. Len(txn.chain) \in Nat /\ Len(txn.chain) # 0 /\ Head(txn.chain) = txn.chain[1]
    BY <2>1, <2>2, LenProperties, EmptySeq DEF Link
  <2>4. txn.chain[1] \in Link
    <3>1. txn.chain \in Seq(Link) /\ 1 \in 1 .. Len(txn.chain)
      BY <2>2, <2>3 DEF Link
    <3> QED  BY <3>1, ElementOfSeq
  <2>5. txn.chain[1].page \in PageId
    BY <2>4 DEF Link
  <2> QED  BY <1>4, <2>1, <2>3, <2>5
<1> QED  BY <1>1, <1>2, <1>3, <1>4 DEF NextPages

\* A page that is cut off leaves a file of pages as any other does.
LEMMA FileLeftTypes ==
    ASSUME FileTypes, TxnTypes, FileLeft
    PROVE  /\ DOMAIN disk' \subseteq PageId /\ IsFiniteSet(DOMAIN disk')
           /\ \A p \in DOMAIN disk' : disk'[p] \in Content
<1>1. CASE disk' = disk
  BY <1>1 DEF FileTypes
<1>2. ASSUME NEW p \in Copying, disk' = Put(disk, p, Scrap)
      PROVE  /\ DOMAIN disk' \subseteq PageId /\ IsFiniteSet(DOMAIN disk')
             /\ \A q \in DOMAIN disk' : disk'[q] \in Content
  <2>1. DOMAIN disk' = DOMAIN disk \cup {p}
        /\ \A q \in DOMAIN disk \cup {p} : disk'[q] = IF q = p THEN Scrap ELSE disk[q]
    BY <1>2 DEF Put
  <2>2. IsFiniteSet(DOMAIN disk \cup {p})
    BY FS_AddElement DEF FileTypes
  <2>3. p \in PageId
    BY CopyingIs
  <2> QED  BY <2>1, <2>2, <2>3, ScrapType DEF FileTypes
<1> QED  BY <1>1, <1>2 DEF FileLeft

\* What a header says.
HeaderType(h) ==
    /\ h.root \in DOMAIN h.tree /\ h.next \in PageId
    /\ h.head \in Nat /\ IsTree(h.tree)

\* A put's header describes its tree.
LEMMA NewHeaderType ==
    ASSUME TxnTypes, TreeTypes, InPut
    PROVE  NewHeader # NoHeader /\ HeaderType(NewHeader)
<1>1. /\ txn.root \in DOMAIN txn.tree /\ IsTree(txn.tree) /\ txn.head \in Nat
      /\ next_page_id \in PageId /\ txn.root # 0
  BY DEF TxnTypes, TreeTypes, InPut, IsOpen, IsTree, PageId
<1>2. /\ NewHeader.root = txn.root /\ NewHeader.next = next_page_id
      /\ NewHeader.head = txn.head /\ NewHeader.tree = txn.tree
  BY DEF NewHeader
<1> QED  BY <1>1, <1>2 DEF NoHeader, HeaderType

\* So does one that is half copied: its root and its tree are of one header.
LEMMA HeaderLeftTypes ==
    ASSUME TypesHold, FileLeft
    PROVE  /\ header' = header \/ HeaderType(header')
           /\ header' # NoHeader =>
                 /\ header'.root \in DOMAIN header'.tree /\ header'.next \in PageId
                 /\ header'.head \in Nat /\ IsTree(header'.tree)
<1>1. CASE header' = header
  BY <1>1 DEF TypesHold, HeaderTypes
<1>2. CASE pc = "chain" /\ header' \in HalfHeaders
  <2>1. HeaderType(header)
    BY <1>2 DEF TypesHold, HeaderTypes, HeaderType, Booting
  <2>2. HeaderType(NewHeader)
    BY <1>2, NewHeaderType DEF TypesHold, InPut
  <2>3. PICK r \in {header, NewHeader}, n \in {header, NewHeader}, f \in {header, NewHeader} :
             header' = [root |-> r.root, next |-> n.next, head |-> f.head, tree |-> r.tree]
    BY <1>2 DEF HalfHeaders
  <2>4. /\ header'.root = r.root /\ header'.next = n.next
        /\ header'.head = f.head /\ header'.tree = r.tree
    BY <2>3
  <2> QED  BY <2>1, <2>2, <2>4 DEF HeaderType
<1> QED  BY <1>1, <1>2 DEF FileLeft

\* The next process, and how it finds the file.
LEMMA Reopened ==
    ASSUME FileTypes, TxnTypes, FileLeft, Restart(disk', header')
    PROVE  /\ NoReaders /\ txn' = NoTxn /\ txns' = txns
           /\ mapped' = IF committed' < MaxPages THEN MaxPages ELSE committed'
           /\ \/ OpensAgainWith(Chain(disk', header'.head))
              \/ FailsToOpen(Chain(disk', header'.head))
              \/ StartsAfresh
<1> DEFINE chain == Chain(disk', header'.head)
<1>1. /\ NoReaders /\ txn' = NoTxn /\ txns' = txns
      /\ mapped' = IF committed' < MaxPages THEN MaxPages ELSE committed'
  BY DEF Restart
<1>2. CASE header' = NoHeader /\ pc' = "boot" /\ UNCHANGED <<root, writerVars, tree>>
  BY <1>1, <1>2 DEF StartsAfresh, writerVars
<1>3. CASE header' # NoHeader /\ Opened(disk', header')
  BY <1>1, <1>3 DEF Opened, OpensAgainWith
<1>4. CASE /\ ~Ends(disk', chain) \/ ~Linked(disk', chain)
           /\ pc' = "dead" /\ UNCHANGED <<root, writerVars, tree>>
  <2>1. header' # NoHeader
    <3> SUFFICES ASSUME header' = NoHeader
                 PROVE  FALSE
      OBVIOUS
    <3>1. header'.head = 0
      BY DEF NoHeader
    <3>2. IsFiniteSet(DOMAIN disk')
      BY FileLeftTypes
    <3>3. chain = <<>> /\ Ends(disk', <<>>) /\ Linked(disk', <<>>)
      BY <3>1, <3>2, NoChain
    <3> QED  BY <1>4, <3>3
  <2> QED  BY <1>1, <1>4, <2>1 DEF FailsToOpen, writerVars
<1>5. \/ header' = NoHeader /\ pc' = "boot" /\ UNCHANGED <<root, writerVars, tree>>
      \/ header' # NoHeader /\ Opened(disk', header')
      \/ /\ ~Ends(disk', chain) \/ ~Linked(disk', chain)
         /\ pc' = "dead" /\ UNCHANGED <<root, writerVars, tree>>
  BY DEF Restart
<1> QED  BY <1>1, <1>2, <1>3, <1>4, <1>5

\* The end of a process and what the next one finds.
LEMMA RestartDone ==
    ASSUME FileTypes, TxnTypes, Reopen \/ Crash
    PROVE  \/ FailsAtHeader
           \/ /\ FileLeft /\ committed' \in PageId
              /\ NoReaders /\ txn' = NoTxn /\ txns' = txns
              /\ mapped' = IF committed' < MaxPages THEN MaxPages ELSE committed'
              /\ \/ OpensAgainWith(Chain(disk', header'.head))
                 \/ FailsToOpen(Chain(disk', header'.head))
                 \/ StartsAfresh
<1>1. CASE EndBetween
  <2>1. FileLeft /\ committed' \in PageId
    BY <1>1 DEF EndBetween, FileLeft, FileTypes
  <2>2. Restart(disk', header')
    BY <1>1 DEF EndBetween
  <2> QED  BY <2>1, <2>2, Reopened
<1>2. CASE DieInPage
  <2>1. PICK p \in Copying : WriteAt(p, Scrap)
                             /\ torn' = (torn \/ txn.rewritten \/ p = header.head)
    BY <1>2 DEF DieInPage
  <2>2. p \in PageId
    BY CopyingIs
  <2>3. FileLeft
    BY <1>2, <2>1 DEF DieInPage, WriteAt, FileLeft
  <2>4. committed' \in PageId
    BY <2>1, <2>2 DEF WriteAt, FileTypes, PageId
  <2>5. Restart(disk', header')
    BY <1>2 DEF DieInPage
  <2> QED  BY <2>3, <2>4, <2>5, Reopened
<1>3. CASE DieInHeader
  <2>1. CASE pc = "chain" /\ ~ChainLeft /\ header' \in HalfHeaders /\ Restart(disk, header')
    <3>1. FileLeft /\ committed' \in PageId
      BY <1>3, <2>1 DEF DieInHeader, FileLeft, FileTypes
    <3>2. Restart(disk', header')
      BY <1>3, <2>1 DEF DieInHeader
    <3> QED  BY <3>1, <3>2, Reopened
  <2>2. CASE /\ pc = "bootHeader" /\ NoReaders /\ pc' = "dead"
             /\ UNCHANGED <<root, writerVars, header, mapped, txn, tree, txns>>
    BY <1>3, <2>2 DEF DieInHeader, FailsAtHeader, writerVars
  <2> QED  BY <1>3, <2>1, <2>2 DEF DieInHeader
<1> QED  BY <1>1, <1>2, <1>3 DEF Reopen, Crash

\* Each step writes nodes and links, or dies writing one.
LEMMA FileTypesStep ==
    ASSUME FileTypes, TxnTypes, [Next]_vars
    PROVE  FileTypes'
<1>1. CASE WritePage
  <2> DEFINE p == Head(txn.writes)
  <2>1. p \in Range(txn.writes) /\ p \in PageId
    <3>1. txn.writes \in Seq(PageId) /\ txn.writes # <<>>
      BY <1>1 DEF WritePage, PagesLeft, TxnTypes
    <3>2. Len(txn.writes) \in Nat \ {0} /\ p = txn.writes[1]
      BY <3>1, EmptySeq
    <3> QED  BY <3>1, <3>2, RangeIs
  <2>2. txn.tree[p] \in [txn : Nat, level : Nat]
    <3>1. txn.tree[p] \in [txn : Nat, level : PageId]
      BY <2>1 DEF TxnTypes, IsTree
    <3> QED  BY <3>1 DEF PageId
  <2>3. NodePage(txn.tree[p]) \in Content
    BY <2>2, NodePageType
  <2>4. WriteAt(p, NodePage(txn.tree[p])) /\ mapped' = mapped
    BY <1>1 DEF WritePage
  <2> HIDE DEF p
  <2> QED  BY <2>1, <2>3, <2>4, WriteTypes
<1>2. CASE WriteChainPage
  <2> DEFINE link == Head(txn.chain)
  <2>1. link \in [page : PageId, content : Content]
    BY <1>2, HeadTailProperties DEF WriteChainPage, ChainLeft, TxnTypes
  <2>2. WriteAt(link.page, link.content) /\ mapped' = mapped
    BY <1>2 DEF WriteChainPage
  <2> HIDE DEF link
  <2>3. link.page \in PageId /\ link.content \in Content
    BY <2>1
  <2> QED  BY <2>2, <2>3, WriteTypes
<1>3. CASE BootRoot
  <2>1. WriteAt(1, NodePage(Node(0, 1))) /\ mapped' = mapped
    BY <1>3 DEF BootRoot
  <2>2. Node(0, 1) \in [txn : Nat, level : Nat] /\ 1 \in PageId
    BY DEF Node, PageId
  <2> QED  BY <2>1, <2>2, NodePageType, WriteTypes
<1>4. CASE HitCeiling
  <2>1. PICK p \in PageId : WriteBeyond(p)
    <3>1. CASE PagesLeft /\ WriteBeyond(Head(txn.writes))
      BY <3>1, HeadTailProperties DEF PagesLeft, TxnTypes
    <3>2. CASE ChainLeft /\ WriteBeyond(Head(txn.chain).page)
      <4>1. Head(txn.chain) \in [page : PageId, content : Content]
        BY <3>2, HeadTailProperties DEF ChainLeft, TxnTypes
      <4> QED  BY <3>2, <4>1
    <3> QED  BY <1>4, <3>1, <3>2 DEF HitCeiling
  <2>2. committed' \in PageId
    BY <2>1 DEF WriteBeyond, FileTypes, PageId
  <2> QED  BY <1>4, <2>2 DEF HitCeiling, FileTypes
<1>5. CASE Reopen \/ Crash
  <2>1. CASE FailsAtHeader
    BY <2>1 DEF FailsAtHeader, FileTypes
  <2>2. CASE /\ FileLeft /\ committed' \in PageId
             /\ mapped' = IF committed' < MaxPages THEN MaxPages ELSE committed'
    <3>1. mapped' \in PageId
      BY <2>2, MappingAssumption DEF PageId
    <3> QED  BY <2>2, <3>1, FileLeftTypes DEF FileTypes
  <2> QED  BY <1>5, <2>1, <2>2, RestartDone
<1>6. CASE BeginPut \/ FoldAndGate \/ WriteHeader
  <2>1. UNCHANGED <<disk, committed, mapped>>
    BY <1>6 DEF BeginPut, BeginPutOn, FoldAndGate, WriteHeader, fileVars
  <2> QED  BY <2>1 DEF FileTypes
<1>7. CASE Publish \/ BootHeader \/ UNCHANGED vars \/ \E r \in Reader : Read(r)
  <2>1. UNCHANGED <<disk, committed, mapped>>
    BY <1>7 DEF Publish, BootHeader, Read, EnterRead, LoadRoot, DropRead, fileVars, vars
  <2> QED  BY <2>1 DEF FileTypes
<1> QED  BY <1>1, <1>2, <1>3, <1>4, <1>5, <1>6, <1>7 DEF Next, Write

\* A path has a page of each level, and so none of them twice.
LEMMA PathIs ==
    ASSUME ListTypes, TreeTypes, IsOpen, NEW path \in Paths
    PROVE  /\ Height \in Nat /\ Height >= 1
           /\ path \in Seq(PageId) /\ Len(path) = Height
           /\ Distinct(path) /\ Range(path) \subseteq DOMAIN tree
<1>1. Height \in Nat /\ Height >= 1
  BY DEF TreeTypes, IsTree, Height, PageId
<1>2. path \in [1 .. Height -> DOMAIN tree] /\ \A l \in 1 .. Height : tree[path[l]].level = l
  BY DEF Paths
<1>3. DOMAIN tree \subseteq PageId
  BY DEF TreeTypes, IsTree
<1> DEFINE h == Height
<1> HIDE DEF h
<1>4. h \in Nat /\ path \in [1 .. h -> DOMAIN tree] /\ \A l \in 1 .. h : tree[path[l]].level = l
  BY <1>1, <1>2 DEF h
<1>5. path \in Seq(DOMAIN tree) /\ Len(path) = h
  BY <1>4
<1>6. path \in Seq(PageId)
  BY <1>3, <1>5, SeqMonotonic
<1>7. Distinct(path)
  BY <1>4, <1>5 DEF Distinct
<1>8. Range(path) \subseteq DOMAIN tree
  BY <1>5, RangeIs
<1> QED  BY <1>1, <1>5, <1>6, <1>7, <1>8 DEF h

\* What alloc() hands out: ids from the end of the free list, then new ones.
LEMMA AllocIs ==
    ASSUME ListTypes, NEW n \in Nat
    PROVE  /\ Alloc(n) = [i \in 1 .. n |-> Alloc(n)[i]] /\ Len(Alloc(n)) = n
           /\ FromFree(n) \in Nat /\ FromFree(n) <= n /\ FromFree(n) <= Len(free_list)
           /\ \A i \in 1 .. n : i <= FromFree(n) =>
                 /\ Len(free_list) - i + 1 \in 1 .. Len(free_list)
                 /\ Alloc(n)[i] = free_list[Len(free_list) - i + 1]
           /\ \A i \in 1 .. n : ~ (i <= FromFree(n)) =>
                 Alloc(n)[i] = next_page_id + (i - FromFree(n)) - 1
<1>1. Len(free_list) \in Nat /\ next_page_id \in Nat
  BY LenProperties DEF ListTypes
<1>2. FromFree(n) \in Nat /\ FromFree(n) <= n /\ FromFree(n) <= Len(free_list)
  BY <1>1 DEF FromFree
<1> DEFINE f == FromFree(n)
           new == Alloc(n)
<1>3. new = [i \in 1 .. n |-> IF i <= f THEN free_list[Len(free_list) - i + 1]
                              ELSE next_page_id + i - f - 1]
  BY DEF Alloc
<1> HIDE DEF f, new
<1>4. new = [i \in 1 .. n |-> new[i]] /\ Len(new) = n
  BY <1>3
<1>5. ASSUME NEW i \in 1 .. n, ~ (i <= f)
      PROVE  new[i] = next_page_id + (i - f) - 1
  <2>1. new[i] = next_page_id + i - f - 1
    BY <1>3, <1>5
  <2> QED  BY <1>1, <1>2, <2>1 DEF f
<1>6. ASSUME NEW i \in 1 .. n, i <= f
      PROVE  /\ Len(free_list) - i + 1 \in 1 .. Len(free_list)
             /\ new[i] = free_list[Len(free_list) - i + 1]
  BY <1>1, <1>2, <1>3, <1>6 DEF f
<1> QED  BY <1>2, <1>4, <1>5, <1>6 DEF f, new

\* The pages that a put gets.
LEMMA AllocTypes ==
    ASSUME ListTypes, next_page_id \in PageId, NEW n \in Nat
    PROVE  /\ Alloc(n) \in Seq(PageId)
           /\ \A p \in Range(Alloc(n)) : \E i \in 1 .. n : Alloc(n)[i] = p
<1> DEFINE f == FromFree(n)
           new == Alloc(n)
<1> HIDE DEF f, new
<1>1. /\ new = [i \in 1 .. n |-> new[i]] /\ Len(new) = n
      /\ f \in Nat
      /\ \A i \in 1 .. n : i <= f =>
            /\ Len(free_list) - i + 1 \in 1 .. Len(free_list)
            /\ new[i] = free_list[Len(free_list) - i + 1]
      /\ \A i \in 1 .. n : ~ (i <= f) => new[i] = next_page_id + (i - f) - 1
  BY AllocIs DEF f, new
<1>2. \A i \in 1 .. Len(free_list) : free_list[i] \in PageId
  BY ElementOfSeq DEF ListTypes
<1>3. ASSUME NEW i \in 1 .. n
      PROVE  new[i] \in PageId
  <2>1. CASE i <= f
    BY <1>1, <1>2, <2>1
  <2>2. CASE ~ (i <= f)
    BY <1>1, <2>2 DEF PageId
  <2> QED  BY <2>1, <2>2
<1>4. new \in Seq(PageId)
  BY <1>1, <1>3
<1>5. \A p \in Range(new) : \E i \in 1 .. n : new[i] = p
  <2>1. Range(new) = {new[i] : i \in 1 .. n}
    BY <1>1, <1>4, RangeIs
  <2> QED  BY <2>1
<1> QED  BY <1>4, <1>5 DEF new

\* All that begin_write() and put() do, up to commit().
LEMMA PutBegun ==
    ASSUME ListTypes, TreeTypes, StateTypes, NEW path \in Paths, NEW k \in 0 .. Height,
           BeginPutOn(path, k)
    PROVE  LET n    == Copies(k)
               new  == Alloc(n)
               left == Len(free_list) - FromFree(n)
           IN  /\ n \in Nat \ {0} /\ new \in Seq(PageId) /\ Len(new) = n
               /\ txn'.root \in Range(new)
               /\ DOMAIN txn'.tree = (DOMAIN tree \ Range(path)) \cup Range(new)
               /\ \A p \in DOMAIN tree \ Range(path) : p \notin Range(new) =>
                     txn'.tree[p] = tree[p]
               /\ IsTree(txn'.tree)
               /\ txn' = [root |-> txn'.root, tree |-> txn'.tree, writes |-> new,
                          freed |-> path, chain |-> <<>>, head |-> 0,
                          promoted |-> FALSE, rewritten |-> FALSE]
               /\ left \in 0 .. Len(free_list)
               /\ free_list' = SubSeq(free_list, 1, left)
               /\ next_page_id' = next_page_id + (n - FromFree(n))
<1> DEFINE n == Copies(k)
           new == Alloc(n)
           left == Len(free_list) - FromFree(n)
<1>0. pc = "idle"
  BY DEF BeginPutOn
<1>1. IsOpen
  BY <1>0 DEF IsOpen
<1>2. /\ Height \in Nat /\ Height >= 1 /\ path \in Seq(PageId)
      /\ Range(path) \subseteq DOMAIN tree
  BY <1>1, PathIs
<1>3. n \in Nat \ {0} /\ k \in Nat
  <2> DEFINE h == Height
  <2> HIDE DEF h
  <2>1. h \in Nat /\ h >= 1 /\ k \in 0 .. h
    BY <1>2 DEF h
  <2>2. h + k + (IF k = h THEN 1 ELSE 0) \in Nat \ {0}
    BY <2>1
  <2> QED  BY <2>1, <2>2 DEF h, Copies
<1> HIDE DEF n
<1>4. /\ new \in Seq(PageId) /\ Len(new) = n
      /\ \A p \in Range(new) : \E i \in 1 .. n : new[i] = p
  BY <1>1, <1>3, AllocTypes, AllocIs DEF TreeTypes
<1>5. left \in 0 .. Len(free_list) /\ FromFree(n) \in Nat
  <2>1. Len(free_list) \in Nat
    BY LenProperties DEF ListTypes
  <2>2. FromFree(n) \in Nat /\ FromFree(n) <= Len(free_list)
    BY <1>3, AllocIs
  <2> QED  BY <2>1, <2>2
<1> DEFINE kept == [p \in DOMAIN tree \ Range(path) |-> tree[p]]
           place(p) == CHOOSE i \in 1 .. Len(new) : new[i] = p
           added == [p \in Range(new) |-> Node(txns + 1, LevelOf(place(p), k))]
           t == [p \in DOMAIN kept \cup DOMAIN added |->
                    IF p \in DOMAIN added THEN added[p] ELSE kept[p]]
<1>6. /\ txn' = [NoTxn EXCEPT !.root = new[Len(new)], !.tree = t,
                              !.writes = new, !.freed = path]
      /\ free_list' = SubSeq(free_list, 1, Len(free_list) - FromFree(Len(new)))
      /\ next_page_id' = next_page_id + Len(new) - FromFree(Len(new))
  BY DEF BeginPutOn, n
<1>7. ASSUME NEW p \in Range(new)
      PROVE  added[p] \in [txn : Nat, level : PageId]
  <2>1. place(p) \in 1 .. n
    BY <1>4
  <2> HIDE DEF place
  <2>2. LevelOf(place(p), k) \in PageId
    BY <1>3, <2>1 DEF LevelOf, PageId
  <2>3. txns + 1 \in Nat
    BY DEF StateTypes
  <2> QED  BY <2>2, <2>3 DEF Node
<1> HIDE DEF new
<1>8. /\ DOMAIN t = (DOMAIN tree \ Range(path)) \cup Range(new)
      /\ \A p \in DOMAIN tree \ Range(path) : p \notin Range(new) => t[p] = tree[p]
  OBVIOUS
<1>9. IsTree(t)
  <2>1. Range(new) \subseteq PageId
    BY <1>4, RangeIs
  <2>2. \A p \in Range(new) : t[p] = added[p]
    OBVIOUS
  <2> HIDE DEF t, added
  <2> QED  BY <1>7, <1>8, <2>1, <2>2 DEF TreeTypes, IsTree
<1> HIDE DEF t
<1>10. txn' = [root |-> new[n], tree |-> t, writes |-> new,
               freed |-> path, chain |-> <<>>, head |-> 0,
               promoted |-> FALSE, rewritten |-> FALSE]
  BY <1>4, <1>6 DEF NoTxn
<1>11. new[n] \in Range(new)
  BY <1>3, <1>4, RangeIs
<1>12. next_page_id' = next_page_id + (n - FromFree(n))
  BY <1>1, <1>3, <1>4, <1>5, <1>6 DEF TreeTypes, PageId
<1>13. free_list' = SubSeq(free_list, 1, left)
  BY <1>4, <1>6
<1>14. /\ txn'.root = new[n] /\ txn'.tree = t
  BY <1>10
<1> QED  BY <1>3, <1>4, <1>5, <1>8, <1>9, <1>10, <1>11, <1>12, <1>13, <1>14 DEF n, new

\* The pages that persist_free_list() has, after it took new ones if need be.
LEMMA ChainPagesIs ==
    ASSUME NEW ids \in Seq(PageId), NEW n \in Nat, NEW next \in PageId
    PROVE  LET all  == ChainPages(ids, n, next)
               more == Missing(ids, n)
           IN  /\ all \in Seq(PageId) /\ more \in Nat
               /\ Len(all) = Len(ids) + more /\ n <= Len(all)
               /\ \A i \in 1 .. Len(ids) : all[i] = ids[i]
               /\ \A i \in 1 .. Len(all) : ~ (i <= Len(ids)) =>
                     all[i] = next + (i - Len(ids)) - 1
<1> DEFINE more == Missing(ids, n)
           new == [i \in 1 .. more |-> next + i - 1]
           all == ids \o new
<1>1. Len(ids) \in Nat /\ more \in Nat /\ n <= Len(ids) + more /\ next \in Nat /\ next >= 1
  BY LenProperties DEF Missing, PageId
<1> HIDE DEF more
<1>2. /\ new \in Seq(PageId) /\ Len(new) = more
      /\ \A i \in 1 .. more : new[i] = next + i - 1
  BY <1>1 DEF PageId
<1> HIDE DEF new
<1>3. /\ all \in Seq(PageId) /\ Len(all) = Len(ids) + more
      /\ \A i \in 1 .. Len(ids) + more :
            all[i] = IF i <= Len(ids) THEN ids[i] ELSE new[i - Len(ids)]
  BY <1>2, ConcatProperties
<1>4. all = ChainPages(ids, n, next)
  BY DEF ChainPages, new, more
<1> HIDE DEF all
<1>5. \A i \in 1 .. Len(ids) : all[i] = ids[i]
  BY <1>1, <1>3
<1>6. ASSUME NEW i \in 1 .. Len(all), ~ (i <= Len(ids))
      PROVE  all[i] = next + (i - Len(ids)) - 1
  <2>1. i - Len(ids) \in 1 .. more
    BY <1>1, <1>3, <1>6
  <2> QED  BY <1>2, <1>3, <1>6, <2>1
<1> QED  BY <1>1, <1>3, <1>4, <1>5, <1>6 DEF more

\* What persist_free_list() is going to write.
LEMMA ChainWritesIs ==
    ASSUME NEW payload \in Seq(PageId), NEW ids \in Seq(PageId),
           PagesNeeded(payload) <= Len(ids)
    PROVE  LET links == ChainWrites(payload, ids)
               n     == PagesNeeded(payload)
           IN  /\ links \in Seq([page : PageId, content : Content])
               /\ Len(links) = n /\ n \in Nat
               /\ \A i \in 1 .. n :
                     /\ links[i].page = ids[i]
                     /\ links[i].content = FreePage(IF i < n THEN ids[i + 1] ELSE 0,
                                                    Chunk(payload, i))
<1> DEFINE n == PagesNeeded(payload)
           links == ChainWrites(payload, ids)
           content(i) == FreePage(IF i < n THEN ids[i + 1] ELSE 0, Chunk(payload, i))
<1>1. n \in Nat
  BY PagesSuffice
<1>2. links = [i \in 1 .. n |-> [page |-> ids[i], content |-> content(i)]]
  BY DEF ChainWrites
<1>3. Len(ids) \in Nat /\ n <= Len(ids) /\ \A i \in 1 .. Len(ids) : ids[i] \in PageId
  BY LenProperties, ElementOfSeq
<1> HIDE DEF n, links
<1>4. ASSUME NEW i \in 1 .. n
      PROVE  ids[i] \in PageId /\ content(i) \in Content
  <2>1. Chunk(payload, i) \in Seq(PageId)
    <3>1. i \in Nat /\ i > 0
      BY <1>1
    <3> QED  BY <3>1, ChunkOf
  <2> DEFINE next == IF i < n THEN ids[i + 1] ELSE 0
  <2>2. next \in Nat
    <3>1. i < n => i + 1 \in 1 .. Len(ids)
      BY <1>1, <1>3
    <3> QED  BY <1>3, <3>1 DEF PageId
  <2> HIDE DEF next
  <2>3. FreePage(next, Chunk(payload, i)) \in Content
    BY <2>1, <2>2 DEF FreePage, Content, Node
  <2>4. ids[i] \in PageId
    BY <1>1, <1>3
  <2> QED  BY <2>3, <2>4 DEF next
<1> HIDE DEF content
<1>5. links \in Seq([page : PageId, content : Content]) /\ Len(links) = n
  <2> DEFINE Link == [page : PageId, content : Content]
  <2>1. \A i \in 1 .. n : [page |-> ids[i], content |-> content(i)] \in Link
    BY <1>4
  <2> HIDE DEF Link
  <2>2. links \in Seq(Link) /\ Len(links) = n
    BY <1>1, <1>2, <2>1
  <2> QED  BY <2>2 DEF Link
<1>6. \A i \in 1 .. n : links[i].page = ids[i] /\ links[i].content = content(i)
  BY <1>2
<1> QED  BY <1>1, <1>5, <1>6 DEF n, links, content

\* All that happens between the last page write and the chain's first.
LEMMA FoldDone ==
    ASSUME ListTypes, TreeTypes, TxnTypes, FoldAndGate
    PROVE  LET payload == free_list' \o pending_free'
               n       == PagesNeeded(payload)
           IN  /\ free_list' \in Seq(PageId) /\ pending_free' \in Seq(PageId)
               /\ IF readers = 0
                  THEN free_list' = free_list \o (pending_free \o txn.freed)
                       /\ pending_free' = <<>>
                  ELSE free_list' = free_list
                       /\ pending_free' = pending_free \o txn.freed
               /\ payload \in Seq(PageId) /\ n \in Nat
               /\ free_list_page_ids' = ChainPages(free_list_page_ids, n, next_page_id)
               /\ n <= Len(free_list_page_ids') /\ free_list_page_ids' \in Seq(PageId)
               /\ next_page_id' = next_page_id + Missing(free_list_page_ids, n)
               /\ txn' = [root |-> txn.root, tree |-> txn.tree, writes |-> txn.writes,
                          freed |-> <<>>, chain |-> ChainWrites(payload, free_list_page_ids'),
                          head |-> IF n > 0 THEN free_list_page_ids'[1] ELSE 0,
                          promoted |-> (readers = 0), rewritten |-> txn.rewritten]
<1> DEFINE payload == free_list' \o pending_free'
           n == PagesNeeded(payload)
           ids == ChainPages(free_list_page_ids, n, next_page_id)
<1>1. next_page_id \in PageId
  BY DEF FoldAndGate, TreeTypes, IsOpen
<1>2. free_list \in Seq(PageId) /\ pending_free \in Seq(PageId) /\ txn.freed \in Seq(PageId)
      /\ free_list_page_ids \in Seq(PageId)
  BY DEF ListTypes, TxnTypes
<1>3. /\ pending_free \o txn.freed \in Seq(PageId)
      /\ free_list \o (pending_free \o txn.freed) \in Seq(PageId)
      /\ <<>> \in Seq(PageId)
  BY <1>2, ConcatProperties, EmptySeq
<1>4. IF readers = 0
      THEN free_list' = free_list \o (pending_free \o txn.freed) /\ pending_free' = <<>>
      ELSE free_list' = free_list /\ pending_free' = pending_free \o txn.freed
  BY DEF FoldAndGate, Quiescent, Folded
<1>5. free_list' \in Seq(PageId) /\ pending_free' \in Seq(PageId)
  BY <1>2, <1>3, <1>4
<1>6. payload \in Seq(PageId)
  BY <1>5, ConcatProperties
<1>7. n \in Nat
  BY <1>6, PagesSuffice
<1>8. /\ free_list_page_ids' = ids
      /\ next_page_id' = next_page_id + Len(ids) - Len(free_list_page_ids)
      /\ txn' = [txn EXCEPT !.freed = <<>>, !.chain = ChainWrites(payload, ids),
                            !.head = IF n > 0 THEN ids[1] ELSE 0,
                            !.promoted = Quiescent]
  BY DEF FoldAndGate
<1> HIDE DEF payload
<1>9. /\ ids \in Seq(PageId) /\ n <= Len(ids)
      /\ Len(ids) = Len(free_list_page_ids) + Missing(free_list_page_ids, n)
      /\ Missing(free_list_page_ids, n) \in Nat
  BY <1>1, <1>2, <1>7, ChainPagesIs
<1> HIDE DEF n, ids
<1>10. next_page_id' = next_page_id + Missing(free_list_page_ids, n)
  <2>1. Len(free_list_page_ids) \in Nat
    BY <1>2, LenProperties
  <2> QED  BY <1>1, <1>8, <1>9, <2>1 DEF PageId
<1>11. txn' = [root |-> txn.root, tree |-> txn.tree, writes |-> txn.writes,
               freed |-> <<>>, chain |-> ChainWrites(payload, ids),
               head |-> IF n > 0 THEN ids[1] ELSE 0,
               promoted |-> (readers = 0), rewritten |-> txn.rewritten]
  BY <1>8 DEF TxnTypes, Quiescent
<1> QED  BY <1>4, <1>5, <1>6, <1>7, <1>8, <1>9, <1>10, <1>11 DEF payload, n, ids

\* The end of open_or_create() for a new store.
LEMMA BootDone ==
    ASSUME FileTypes, BootHeader
    PROVE  /\ root' = 1 /\ tree' = [p \in {1} |-> Node(0, 1)] /\ next_page_id' = 2
           /\ header' = [root |-> 1, next |-> 2, head |-> 0, tree |-> tree']
           /\ free_list' = <<>> /\ pending_free' = <<>> /\ free_list_page_ids' = <<>>
           /\ pc' = "idle"
           /\ UNCHANGED <<disk, txn>>
<1>1. Chain(disk, 0) = <<>> /\ Entries(disk, <<>>) = <<>>
  BY NoChain DEF FileTypes
<1>2. header' = [root |-> 1, next |-> 2, head |-> 0, tree |-> [p \in {1} |-> Node(0, 1)]]
  BY DEF BootHeader
<1>3. /\ root' = header'.root /\ tree' = header'.tree /\ next_page_id' = header'.next
      /\ free_list_page_ids' = Chain(disk, header'.head)
      /\ free_list' = Entries(disk, Chain(disk, header'.head))
      /\ pending_free' = <<>> /\ pc' = "idle"
  BY DEF BootHeader, Opened
<1>4. header'.head = 0
  BY <1>2
<1> QED  BY <1>1, <1>2, <1>3, <1>4 DEF BootHeader

\* The lists stay lists of pages, whatever chain is read.
LEMMA ListTypesStep ==
    ASSUME TypesHold, [Next]_vars
    PROVE  ListTypes'
<1> USE DEF TypesHold
<1>1. ASSUME NEW path \in Paths, NEW k \in 0 .. Height, BeginPutOn(path, k)
      PROVE  ListTypes'
  <2> DEFINE n == Copies(k)
             left == Len(free_list) - FromFree(n)
  <2>1. /\ n \in Nat \ {0} /\ left \in 0 .. Len(free_list)
        /\ free_list' = SubSeq(free_list, 1, left)
        /\ next_page_id' = next_page_id + (n - FromFree(n))
    BY <1>1, PutBegun
  <2>2. FromFree(n) \in Nat /\ FromFree(n) <= n
    BY <2>1, AllocIs
  <2>3. next_page_id' \in Nat
    BY <2>1, <2>2 DEF ListTypes
  <2>4. SubSeq(free_list, 1, left) \in Seq(PageId)
    <3>1. free_list \in Seq(PageId) /\ Len(free_list) \in Nat
      BY LenProperties DEF ListTypes
    <3>2. left \in Int /\ \A i \in 1 .. left : free_list[i] \in PageId
      BY <2>1, <3>1, ElementOfSeq
    <3> QED  BY <3>2, SubSeqProperties
  <2>5. UNCHANGED <<pending_free, free_list_page_ids>>
    BY <1>1 DEF BeginPutOn
  <2> QED  BY <2>1, <2>3, <2>4, <2>5 DEF ListTypes
<1>2. CASE FoldAndGate
  <2> DEFINE n == PagesNeeded(free_list' \o pending_free')
  <2>1. /\ free_list' \in Seq(PageId) /\ pending_free' \in Seq(PageId)
        /\ n \in Nat /\ free_list_page_ids' \in Seq(PageId)
        /\ next_page_id' = next_page_id + Missing(free_list_page_ids, n)
    BY <1>2, FoldDone
  <2> HIDE DEF n
  <2>2. Missing(free_list_page_ids, n) \in Nat
    <3>1. Len(free_list_page_ids) \in Nat
      BY LenProperties DEF ListTypes
    <3> QED  BY <2>1, <3>1 DEF Missing
  <2> QED  BY <2>1, <2>2 DEF ListTypes
<1>3. CASE BootHeader
  BY <1>3, BootDone, EmptySeq DEF ListTypes
<1>4. CASE Reopen \/ Crash
  <2> DEFINE chain == Chain(disk', header'.head)
  <2>1. CASE FileLeft /\ OpensAgainWith(chain)
    <3>1. header'.head \in Nat /\ header'.next \in PageId
      BY <2>1, HeaderLeftTypes DEF OpensAgainWith
    <3>2. chain \in Seq(PageId) /\ Entries(disk', chain) \in Seq(PageId)
      BY <2>1, <3>1, ChainTypes, FileLeftTypes
    <3> QED  BY <2>1, <3>1, <3>2, EmptySeq DEF OpensAgainWith, ListTypes, PageId
  <2>2. CASE FailsToOpen(chain) \/ StartsAfresh \/ FailsAtHeader
    BY <2>2 DEF FailsToOpen, StartsAfresh, FailsAtHeader, ListTypes
  <2> QED  BY <1>4, <2>1, <2>2, RestartDone
<1>5. CASE WritePage \/ WriteChainPage \/ WriteHeader \/ Publish \/ HitCeiling \/ BootRoot
  <2>1. UNCHANGED <<free_list, pending_free, free_list_page_ids, next_page_id>>
    BY <1>5 DEF WritePage, WriteChainPage, WriteHeader, Publish, HitCeiling, BootRoot,
                writerVars
  <2> QED  BY <2>1 DEF ListTypes
<1>6. CASE UNCHANGED vars \/ \E r \in Reader : Read(r)
  <2>1. UNCHANGED <<free_list, pending_free, free_list_page_ids, next_page_id>>
    BY <1>6 DEF Read, EnterRead, LoadRoot, DropRead, writerVars, vars
  <2> QED  BY <2>1 DEF ListTypes
<1>7. BeginPut => \E path \in Paths : \E k \in 0 .. Height : BeginPutOn(path, k)
  BY DEF BeginPut
<1> QED  BY <1>1, <1>2, <1>3, <1>4, <1>5, <1>6, <1>7 DEF Next, Write

\* The transaction's fields keep their types.
LEMMA TxnTypesStep ==
    ASSUME TypesHold, [Next]_vars
    PROVE  TxnTypes'
<1> USE DEF TypesHold
<1> DEFINE Link == [page : PageId, content : Content]
<1>0. /\ <<>> \in Seq(PageId) /\ <<>> \in Seq(Link)
      /\ DOMAIN <<>> = {} /\ Range(<<>>) = {}
      /\ IsTree(<<>>)
  BY EmptySeq DEF Range, IsTree
<1> HIDE DEF Link
<1>1. ASSUME txn' = NoTxn \/ \E b \in BOOLEAN : txn' = [NoTxn EXCEPT !.rewritten = b],
             ~InPut'
      PROVE  TxnTypes'
  <2>1. PICK b \in BOOLEAN :
             txn' = [root |-> 0, tree |-> <<>>, writes |-> <<>>, freed |-> <<>>,
                     chain |-> <<>>, head |-> 0, promoted |-> FALSE, rewritten |-> b]
    BY <1>1 DEF NoTxn
  <2>2. /\ txn'.tree = <<>> /\ txn'.writes = <<>> /\ txn'.freed = <<>>
        /\ txn'.chain = <<>> /\ txn'.head = 0 /\ txn'.promoted = FALSE
        /\ txn'.rewritten = b /\ txn'.root = 0
    BY <2>1
  <2> QED  BY <1>0, <1>1, <2>1, <2>2 DEF TxnTypes, Link
<1>2. ASSUME NEW path \in Paths, NEW k \in 0 .. Height, BeginPutOn(path, k)
      PROVE  TxnTypes'
  <2> DEFINE new == Alloc(Copies(k))
  <2>1. /\ new \in Seq(PageId) /\ txn'.root \in Range(new) /\ IsTree(txn'.tree)
        /\ DOMAIN txn'.tree = (DOMAIN tree \ Range(path)) \cup Range(new)
        /\ txn' = [root |-> txn'.root, tree |-> txn'.tree, writes |-> new,
                   freed |-> path, chain |-> <<>>, head |-> 0,
                   promoted |-> FALSE, rewritten |-> FALSE]
    BY <1>2, PutBegun
  <2> HIDE DEF new
  <2>2. IsOpen
    BY <1>2 DEF BeginPutOn, IsOpen
  <2>3. path \in Seq(PageId)
    BY <2>2, PathIs
  <2>4. /\ txn'.writes = new /\ txn'.freed = path
        /\ txn'.chain = <<>> /\ txn'.head = 0 /\ txn'.promoted = FALSE
        /\ txn'.rewritten = FALSE
    BY <2>1
  <2>5. Range(txn'.writes) \subseteq DOMAIN txn'.tree /\ txn'.root \in DOMAIN txn'.tree
    BY <2>1, <2>4
  <2>6. /\ txn'.writes \in Seq(PageId) /\ txn'.freed \in Seq(PageId)
        /\ txn'.chain \in Seq(Link)
    BY <1>0, <2>1, <2>3, <2>4
  <2>7. txn' = [root |-> txn'.root, tree |-> txn'.tree, writes |-> txn'.writes,
                freed |-> txn'.freed, chain |-> txn'.chain, head |-> txn'.head,
                promoted |-> txn'.promoted, rewritten |-> txn'.rewritten]
    BY <2>1, <2>4
  <2>8. txn'.head \in Nat /\ txn'.promoted \in BOOLEAN /\ txn'.rewritten \in BOOLEAN
    <3>1. txn'.head \in Nat
      BY <2>4
    <3>2. txn'.promoted \in BOOLEAN /\ txn'.rewritten \in BOOLEAN
      BY <2>4, Zenon
    <3> QED  BY <3>1, <3>2
  <2>9. IsTree(txn'.tree)
    BY <2>1, Zenon
  <2> QED  BY <2>9, <2>5, <2>6, <2>7, <2>8 DEF TxnTypes, Link
<1>3. CASE WritePage
  <2>1. /\ txn' = [txn EXCEPT !.writes = Tail(@)]
        /\ txn.writes # <<>> /\ pc' = pc
    BY <1>3 DEF WritePage, PagesLeft
  <2>2. txn' = [root |-> txn.root, tree |-> txn.tree, writes |-> Tail(txn.writes),
                freed |-> txn.freed, chain |-> txn.chain, head |-> txn.head,
                promoted |-> txn.promoted, rewritten |-> txn.rewritten]
    BY <2>1 DEF TxnTypes
  <2>3. Tail(txn.writes) \in Seq(PageId) /\ Range(Tail(txn.writes)) \subseteq Range(txn.writes)
    <3>1. /\ txn.writes \in Seq(PageId) /\ Tail(txn.writes) \in Seq(PageId)
          /\ Len(Tail(txn.writes)) = Len(txn.writes) - 1 /\ Len(txn.writes) \in Nat
          /\ \A i \in 1 .. Len(Tail(txn.writes)) : Tail(txn.writes)[i] = txn.writes[i + 1]
      BY <2>1, HeadTailProperties, LenProperties DEF TxnTypes
    <3>2. ASSUME NEW i \in 1 .. Len(Tail(txn.writes))
          PROVE  Tail(txn.writes)[i] \in Range(txn.writes)
      <4>1. i + 1 \in 1 .. Len(txn.writes)
        BY <3>1
      <4> QED  BY <3>1, <4>1, RangeIs
    <3>3. \A x \in Range(Tail(txn.writes)) :
             \E i \in 1 .. Len(Tail(txn.writes)) : Tail(txn.writes)[i] = x
      BY <3>1, RangeIs
    <3> QED  BY <3>1, <3>2, <3>3
  <2> QED  BY <2>1, <2>2, <2>3 DEF TxnTypes, InPut
<1>4. CASE FoldAndGate
  <2> DEFINE payload == free_list' \o pending_free'
             n == PagesNeeded(payload)
             ids == free_list_page_ids'
  <2>1. /\ payload \in Seq(PageId) /\ n \in Nat /\ n <= Len(ids) /\ ids \in Seq(PageId)
        /\ txn' = [root |-> txn.root, tree |-> txn.tree, writes |-> txn.writes,
                   freed |-> <<>>, chain |-> ChainWrites(payload, ids),
                   head |-> IF n > 0 THEN ids[1] ELSE 0,
                   promoted |-> (readers = 0), rewritten |-> txn.rewritten]
    BY <1>4, FoldDone
  <2> HIDE DEF payload, ids
  <2>2. ChainWrites(payload, ids) \in Seq(Link)
    BY <2>1, ChainWritesIs DEF Link
  <2> DEFINE head == IF n > 0 THEN ids[1] ELSE 0
  <2>3. head \in Nat
    <3>1. n > 0 => 1 \in 1 .. Len(ids)
      BY <2>1, LenProperties
    <3> QED  BY <2>1, <3>1, ElementOfSeq DEF PageId
  <2> HIDE DEF n, head
  <2>4. InPut
    BY <1>4 DEF FoldAndGate, InPut
  <2>5. txn' = [root |-> txn.root, tree |-> txn.tree, writes |-> txn.writes,
                freed |-> <<>>, chain |-> ChainWrites(payload, ids),
                head |-> head,
                promoted |-> (readers = 0), rewritten |-> txn.rewritten]
    BY <2>1 DEF head
  <2>6. /\ txn'.root = txn.root /\ txn'.tree = txn.tree /\ txn'.writes = txn.writes
        /\ txn'.freed = <<>> /\ txn'.chain = ChainWrites(payload, ids)
        /\ txn'.head = head /\ txn'.promoted \in BOOLEAN
        /\ txn'.rewritten = txn.rewritten
    BY <2>5
  <2> QED  BY <1>0, <2>2, <2>3, <2>4, <2>5, <2>6 DEF TxnTypes, Link
<1>5. CASE WriteChainPage
  <2>1. PICK b \in BOOLEAN : txn' = [txn EXCEPT !.chain = Tail(@), !.rewritten = b]
    BY <1>5 DEF WriteChainPage, TxnTypes
  <2>2. txn' = [root |-> txn.root, tree |-> txn.tree, writes |-> txn.writes,
                freed |-> txn.freed, chain |-> Tail(txn.chain), head |-> txn.head,
                promoted |-> txn.promoted, rewritten |-> b]
    BY <2>1 DEF TxnTypes
  <2>3. Tail(txn.chain) \in Seq(Link)
    <3>1. txn.chain \in Seq(Link) /\ txn.chain # <<>>
      BY <1>5 DEF WriteChainPage, ChainLeft, TxnTypes, Link
    <3> QED  BY <3>1, HeadTailProperties
  <2>4. pc' = pc
    BY <1>5 DEF WriteChainPage
  <2> QED  BY <2>2, <2>3, <2>4 DEF TxnTypes, InPut, Link
<1>6. CASE WriteHeader
  <2>1. txn' = [txn EXCEPT !.rewritten = FALSE] /\ InPut
    BY <1>6 DEF WriteHeader, InPut
  <2>2. txn' = [root |-> txn.root, tree |-> txn.tree, writes |-> txn.writes,
                freed |-> txn.freed, chain |-> txn.chain, head |-> txn.head,
                promoted |-> txn.promoted, rewritten |-> FALSE]
    BY <2>1 DEF TxnTypes
  <2> QED  BY <2>1, <2>2 DEF TxnTypes
<1>7. CASE Publish \/ HitCeiling
  <2>1. txn' = NoTxn \/ \E b \in BOOLEAN : txn' = [NoTxn EXCEPT !.rewritten = b]
    BY <1>7 DEF Publish, HitCeiling, TxnTypes
  <2>2. ~InPut'
    BY <1>7 DEF Publish, HitCeiling, InPut
  <2> QED  BY <1>1, <2>1, <2>2
<1>8. CASE Reopen \/ Crash
  <2>1. CASE FailsAtHeader
    BY <2>1 DEF FailsAtHeader, TxnTypes, InPut
  <2>2. CASE ~FailsAtHeader
    <3>1. txn' = NoTxn
      BY <1>8, <2>2, RestartDone
    <3>2. pc' \in {"idle", "dead", "boot"}
      BY <1>8, <2>2, RestartDone DEF OpensAgainWith, FailsToOpen, StartsAfresh
    <3> QED  BY <1>1, <3>1, <3>2 DEF InPut
  <2> QED  BY <2>1, <2>2
<1>9. CASE BootRoot \/ BootHeader
  <2>1. txn' = txn /\ ~InPut'
    BY <1>9 DEF BootRoot, BootHeader, Opened, InPut
  <2> QED  BY <2>1 DEF TxnTypes, InPut
<1>10. CASE UNCHANGED vars \/ \E r \in Reader : Read(r)
  <2>1. txn' = txn /\ pc' = pc
    BY <1>10 DEF vars, Read, EnterRead, LoadRoot, DropRead
  <2> QED  BY <2>1 DEF TxnTypes, InPut
<1>11. BeginPut => \E path \in Paths : \E k \in 0 .. Height : BeginPutOn(path, k)
  BY DEF BeginPut
<1> QED  BY <1>2, <1>3, <1>4, <1>5, <1>6, <1>7, <1>8, <1>9, <1>10, <1>11
         DEF Next, Write

\* The first tree is an empty leaf.
LEMMA BootTree == IsTree([p \in {1} |-> Node(0, 1)])
BY DEF IsTree, Node, PageId

\* The published tree stays a tree.
LEMMA TreeTypesStep ==
    ASSUME TypesHold, [Next]_vars
    PROVE  TreeTypes'
<1>0. ListTypes /\ FileTypes /\ TxnTypes /\ TreeTypes /\ HeaderTypes /\ StateTypes
  BY DEF TypesHold
<1>1. ASSUME NEW path \in Paths, NEW k \in 0 .. Height, BeginPutOn(path, k)
      PROVE  TreeTypes'
  <2> DEFINE n == Copies(k)
  <2>1. n \in Nat \ {0} /\ next_page_id' = next_page_id + (n - FromFree(n))
    BY <1>0, <1>1, PutBegun
  <2> HIDE DEF n
  <2>2. FromFree(n) \in Nat /\ FromFree(n) <= n
    BY <1>0, <2>1, AllocIs
  <2>3. /\ root' = root /\ tree' = tree /\ pc = "idle"
    BY <1>1 DEF BeginPutOn
  <2>4. next_page_id \in PageId /\ root \in DOMAIN tree
    BY <1>0, <2>3 DEF TreeTypes, IsOpen
  <2>5. next_page_id' \in PageId
    BY <2>1, <2>2, <2>4 DEF PageId
  <2> QED  BY <1>0, <2>3, <2>4, <2>5 DEF TreeTypes
<1>2. CASE FoldAndGate
  <2> DEFINE n == PagesNeeded(free_list' \o pending_free')
  <2>1. n \in Nat /\ next_page_id' = next_page_id + Missing(free_list_page_ids, n)
    BY <1>0, <1>2, FoldDone
  <2> HIDE DEF n
  <2>2. Missing(free_list_page_ids, n) \in Nat
    <3>1. Len(free_list_page_ids) \in Nat
      BY <1>0, LenProperties DEF ListTypes
    <3> QED  BY <2>1, <3>1 DEF Missing
  <2>3. /\ root' = root /\ tree' = tree /\ pc = "writing"
    BY <1>2 DEF FoldAndGate
  <2>4. next_page_id \in PageId /\ root \in DOMAIN tree
    BY <1>0, <2>3 DEF TreeTypes, IsOpen
  <2>5. next_page_id' \in PageId
    BY <2>1, <2>2, <2>4 DEF PageId
  <2> QED  BY <1>0, <2>3, <2>4, <2>5 DEF TreeTypes
<1>3. CASE Publish
  <2>1. /\ root' = txn.root /\ tree' = txn.tree /\ next_page_id' = next_page_id
        /\ InPut /\ IsOpen
    BY <1>3 DEF Publish, InPut, IsOpen, writerVars
  <2>2. IsTree(txn.tree) /\ txn.root \in DOMAIN txn.tree
    BY <1>0, <2>1 DEF TxnTypes
  <2>3. txn.root \in Nat
    BY <2>2 DEF IsTree, PageId
  <2> QED  BY <1>0, <2>1, <2>2, <2>3 DEF TreeTypes
<1>4. CASE BootHeader
  <2>1. root' = 1 /\ tree' = [p \in {1} |-> Node(0, 1)] /\ next_page_id' = 2
    BY <1>0, <1>4, BootDone
  <2>2. IsTree(tree') /\ 1 \in DOMAIN tree'
    BY <2>1, BootTree
  <2> QED  BY <2>1, <2>2 DEF TreeTypes, PageId
<1>5. CASE Reopen \/ Crash
  <2> DEFINE chain == Chain(disk', header'.head)
  <2>1. CASE FileLeft /\ OpensAgainWith(chain)
    <3>1. /\ root' = header'.root /\ tree' = header'.tree /\ next_page_id' = header'.next
          /\ header' # NoHeader
      BY <2>1 DEF OpensAgainWith
    <3>2. /\ header'.root \in DOMAIN header'.tree /\ header'.next \in PageId
          /\ IsTree(header'.tree)
      BY <2>1, <3>1, HeaderLeftTypes
    <3>3. header'.root \in Nat
      BY <3>2 DEF IsTree, PageId
    <3> QED  BY <3>1, <3>2, <3>3 DEF TreeTypes
  <2>2. CASE FailsToOpen(chain) \/ StartsAfresh \/ FailsAtHeader
    <3>1. UNCHANGED <<root, tree>> /\ ~IsOpen'
      BY <2>2 DEF FailsToOpen, StartsAfresh, FailsAtHeader, IsOpen
    <3> QED  BY <1>0, <3>1 DEF TreeTypes
  <2> QED  BY <1>0, <1>5, <2>1, <2>2, RestartDone
<1>6. CASE WritePage \/ WriteChainPage \/ WriteHeader \/ HitCeiling \/ BootRoot
  <2>1. UNCHANGED <<root, tree, next_page_id>>
    BY <1>6 DEF WritePage, WriteChainPage, WriteHeader, HitCeiling, BootRoot, writerVars
  <2>2. IsOpen' => IsOpen
    BY <1>6 DEF WritePage, WriteChainPage, WriteHeader, HitCeiling, BootRoot, IsOpen
  <2> QED  BY <1>0, <2>1, <2>2 DEF TreeTypes
<1>7. CASE UNCHANGED vars \/ \E r \in Reader : Read(r)
  <2>1. UNCHANGED <<root, tree, next_page_id, pc>>
    BY <1>7 DEF Read, EnterRead, LoadRoot, DropRead, writerVars, vars
  <2> QED  BY <1>0, <2>1 DEF TreeTypes, IsOpen
<1>8. BeginPut => \E path \in Paths : \E k \in 0 .. Height : BeginPutOn(path, k)
  BY DEF BeginPut
<1> QED  BY <1>1, <1>2, <1>3, <1>4, <1>5, <1>6, <1>7, <1>8 DEF Next, Write

\* The header that is written describes a tree.
LEMMA HeaderTypesStep ==
    ASSUME TypesHold, [Next]_vars
    PROVE  HeaderTypes'
<1>0. FileTypes /\ TxnTypes /\ TreeTypes /\ HeaderTypes /\ StateTypes
  BY DEF TypesHold
<1>1. CASE WriteHeader
  <2>1. header' = NewHeader /\ ~Booting' /\ InPut
    BY <1>1 DEF WriteHeader, Booting, InPut
  <2>2. NewHeader # NoHeader /\ HeaderType(NewHeader)
    BY <1>0, <2>1, NewHeaderType
  <2>3. header' # NoHeader /\ HeaderType(header')
    BY <2>1, <2>2
  <2> QED  BY <2>1, <2>3 DEF HeaderTypes, HeaderType
<1>2. CASE BootHeader
  <2>1. /\ header' = [root |-> 1, next |-> 2, head |-> 0, tree |-> tree']
        /\ tree' = [p \in {1} |-> Node(0, 1)] /\ ~Booting'
    BY <1>0, <1>2, BootDone DEF Booting
  <2>2. IsTree(tree') /\ 1 \in DOMAIN tree'
    BY <2>1, BootTree
  <2>3. header'.root = 1 /\ header'.next = 2 /\ header'.head = 0 /\ header'.tree = tree'
    BY <2>1
  <2>4. header' # NoHeader
    BY <2>3 DEF NoHeader
  <2> QED  BY <2>1, <2>2, <2>3, <2>4 DEF HeaderTypes, PageId
<1>3. CASE Reopen \/ Crash
  <2>1. CASE FailsAtHeader
    BY <1>0, <2>1 DEF FailsAtHeader, HeaderTypes, Booting
  <2>2. CASE ~FailsAtHeader
    <3>1. FileLeft /\ \/ header' # NoHeader /\ pc' \in {"idle", "dead"}
                      \/ header' = NoHeader /\ pc' = "boot"
      BY <1>0, <1>3, <2>2, RestartDone DEF OpensAgainWith, FailsToOpen, StartsAfresh
    <3>2. header' # NoHeader => HeaderType(header')
      BY <3>1, HeaderLeftTypes DEF HeaderType
    <3> QED  BY <3>1, <3>2 DEF HeaderTypes, HeaderType, Booting
  <2> QED  BY <2>1, <2>2
<1>4. CASE BeginPut \/ WritePage \/ FoldAndGate \/ WriteChainPage
  <2>1. header' = header /\ ~Booting' /\ ~Booting /\ pc # "dead"
    BY <1>4 DEF BeginPut, BeginPutOn, WritePage, FoldAndGate, WriteChainPage, fileVars, Booting
  <2> QED  BY <1>0, <2>1 DEF HeaderTypes
<1>5. CASE Publish \/ HitCeiling \/ BootRoot
  <2>1. header' = header /\ (Booting' <=> Booting) /\ pc # "dead"
    BY <1>5 DEF Publish, HitCeiling, BootRoot, fileVars, Booting
  <2> QED  BY <1>0, <2>1 DEF HeaderTypes
<1>6. CASE UNCHANGED vars \/ \E r \in Reader : Read(r)
  <2>1. UNCHANGED <<header, pc>>
    BY <1>6 DEF Read, EnterRead, LoadRoot, DropRead, fileVars, vars
  <2> QED  BY <1>0, <2>1 DEF HeaderTypes, Booting
<1> QED  BY <1>1, <1>2, <1>3, <1>4, <1>5, <1>6 DEF Next, Write

\* The counts stay counts.
LEMMA StateTypesStep ==
    ASSUME TypesHold, [Next]_vars
    PROVE  StateTypes'
<1>0. FileTypes /\ TxnTypes /\ StateTypes
  BY DEF TypesHold
<1>1. CASE BeginPut
  <2>1. /\ txns' = txns + 1 /\ pc' = "writing" /\ UNCHANGED <<reopens, crashes, torn>>
    BY <1>1 DEF BeginPut, BeginPutOn
  <2> QED  BY <1>0, <2>1 DEF StateTypes
<1>2. CASE WritePage \/ FoldAndGate \/ WriteChainPage \/ WriteHeader \/ Publish
           \/ HitCeiling \/ BootRoot \/ BootHeader
  <2>1. UNCHANGED <<txns, reopens, crashes, torn>>
    BY <1>2 DEF WritePage, FoldAndGate, WriteChainPage, WriteHeader, Publish,
                HitCeiling, BootRoot, BootHeader, countVars
  <2>2. pc' \in {"bootHeader", "idle", "chain", "publish", "poisoned"} \/ pc' = pc
    BY <1>2 DEF WritePage, FoldAndGate, WriteChainPage, WriteHeader, Publish,
                HitCeiling, BootRoot, BootHeader, Opened
  <2> QED  BY <1>0, <2>1, <2>2 DEF StateTypes
<1>3. CASE Reopen \/ Crash
  <2>1. (FileLeft \/ torn' = TRUE) /\ txns' = txns /\ pc' \in {"idle", "dead", "boot"}
    BY <1>0, <1>3, RestartDone DEF OpensAgainWith, FailsToOpen, StartsAfresh, FailsAtHeader
  <2>2. /\ reopens' \in {reopens, reopens + 1} /\ crashes' \in {crashes, crashes + 1}
    BY <1>3 DEF Reopen, Crash
  <2>3. torn' \in BOOLEAN
    BY <1>0, <2>1 DEF FileLeft, TxnTypes, StateTypes
  <2> QED  BY <1>0, <2>1, <2>2, <2>3 DEF StateTypes
<1>4. CASE UNCHANGED vars \/ \E r \in Reader : Read(r)
  <2>1. UNCHANGED <<txns, reopens, crashes, torn, pc>>
    BY <1>4 DEF Read, EnterRead, LoadRoot, DropRead, countVars, vars
  <2> QED  BY <1>0, <2>1 DEF StateTypes
<1> QED  BY <1>1, <1>2, <1>3, <1>4 DEF Next, Write

\* The types hold after every step.
LEMMA TypesStep ==
    ASSUME TypesHold, [Next]_vars
    PROVE  TypesHold'
<1>0. FileTypes /\ ReaderTypes /\ TxnTypes
  BY DEF TypesHold
<1> QED  BY <1>0, ListTypesStep, FileTypesStep, ReaderTypesStep, TxnTypesStep,
            TreeTypesStep, HeaderTypesStep, StateTypesStep DEF TypesHold

\* The types hold always.
LEMMA TypesKept == Spec => []TypesHold
<1>1. Init => TypesHold
  BY InitTypes
<1>2. TypesHold /\ [Next]_vars => TypesHold'
  BY TypesStep
<1> QED  BY <1>1, <1>2, PTL DEF Spec

\* They include TypeOK.
LEMMA TypesGiveTypeOK == TypesHold => TypeOK
<1> SUFFICES ASSUME TypesHold
             PROVE  TypeOK
  OBVIOUS
<1>1. ListTypes /\ FileTypes /\ ReaderTypes /\ TreeTypes /\ StateTypes
  BY DEF TypesHold
<1>2. readers = Cardinality({r \in Reader : phase[r] # "idle"})
  BY <1>1 DEF ReaderTypes, Registered
<1>3. IsOpen => root \in PageId /\ next_page_id \in PageId
  BY <1>1 DEF TreeTypes, IsTree
<1> QED  BY <1>1, <1>2, <1>3
         DEF TypeOK, ListTypes, FileTypes, ReaderTypes, TreeTypes, StateTypes

\* Every variable keeps its type, whatever links a torn chain makes the store
\* read, and the reader count is always that of the guards alive.
THEOREM TypesHoldInStore == Spec => []TypeOK
BY TypesKept, TypesGiveTypeOK, PTL

---------------------------------------------------------------------------
(* What writing a page leaves as it was. *)

\* A page write changes that page only.
LEMMA WrittenPage ==
    ASSUME NEW p, NEW c, WriteAt(p, c)
    PROVE  /\ DOMAIN disk' = DOMAIN disk \cup {p}
           /\ disk'[p] = c
           /\ \A q \in DOMAIN disk : q # p => disk'[q] = disk[q]
BY DEF WriteAt, Put

\* A tree stays intact when a page of another is written.
LEMMA IntactKept ==
    ASSUME NEW p, NEW c, WriteAt(p, c), NEW t, Intact(t), p \notin DOMAIN t
    PROVE  \A q \in DOMAIN t : q \in DOMAIN disk' /\ disk'[q] = NodePage(t[q])
<1>1. /\ DOMAIN disk' = DOMAIN disk \cup {p}
      /\ \A q \in DOMAIN disk : q # p => disk'[q] = disk[q]
  BY WrittenPage
<1> QED  BY <1>1 DEF Intact

\* No ids need no pages.
LEMMA NoPages == PagesNeeded(<<>>) = 0
<1>1. Len(<<>>) = 0
  OBVIOUS
<1>2. Capacity \in Nat /\ Capacity > 0
  BY CapacityAssumption
<1>3. (Capacity - 1) \div Capacity = 0
  BY <1>2
<1>4. 0 + Capacity - 1 = Capacity - 1
  BY <1>2
<1> QED  BY <1>1, <1>3, <1>4 DEF PagesNeeded

\* The header's chain stays sound if the header does, if the pages of chains
\* are at most more, and none of those it has is written.
LEMMA SavedKept ==
    ASSUME NEW payload \in Seq(PageId), Saved(payload), header' = header,
           free_list_page_ids \in Seq(PageId),
           NEW m \in Nat, m = Len(free_list_page_ids),
           m <= Len(free_list_page_ids'),
           \A i \in 1 .. m : free_list_page_ids'[i] = free_list_page_ids[i],
           \A i \in 1 .. PagesNeeded(payload) : free_list_page_ids[i] \in DOMAIN disk =>
              /\ free_list_page_ids[i] \in DOMAIN disk'
              /\ disk'[free_list_page_ids[i]] = disk[free_list_page_ids[i]],
           Len(free_list_page_ids') \in Nat
    PROVE  Saved(payload)'
<1> DEFINE n == PagesNeeded(payload)
           ids == free_list_page_ids
           more == free_list_page_ids'
<1>1. n \in Nat /\ n <= m
  BY PagesSuffice DEF Saved
<1>2. \A i \in 1 .. n : /\ LinkOf(payload, more, i) = LinkOf(payload, ids, i)
                        /\ more[i] = ids[i]
  <2>1. \A i \in 1 .. m : more[i] = ids[i]
    OBVIOUS
  <2> HIDE DEF more, ids
  <2> SUFFICES ASSUME NEW i \in 1 .. n
               PROVE  LinkOf(payload, more, i) = LinkOf(payload, ids, i) /\ more[i] = ids[i]
    OBVIOUS
  <2>2. i \in 1 .. m /\ (i < n => i + 1 \in 1 .. m)
    <3> HIDE DEF n
    <3> QED  BY <1>1
  <2>3. more[i] = ids[i] /\ (i < n => more[i + 1] = ids[i + 1])
    BY <2>1, <2>2
  <2> QED  BY <2>3 DEF LinkOf
<1>3. \A i \in 1 .. n : ids[i] \in DOMAIN disk /\ disk[ids[i]] = LinkOf(payload, ids, i)
  BY DEF Saved, OnDisk
<1>4. \A i \in 1 .. n : more[i] \in DOMAIN disk' /\ disk'[more[i]] = LinkOf(payload, more, i)
  BY <1>2, <1>3
<1>5. n > 0 => more[1] = ids[1]
  BY <1>1, <1>2
<1>6. {more[i] : i \in 1 .. n} = {ids[i] : i \in 1 .. n}
  BY <1>2
<1>7. n <= Len(more)
  BY <1>1
<1>8. /\ header'.head = IF n > 0 THEN more[1] ELSE 0
      /\ Distinct(payload)
      /\ Range(payload) \cap {more[i] : i \in 1 .. n} = {}
      /\ Range(payload) \cap DOMAIN header'.tree = {}
      /\ Under(Range(payload), header'.next)
      /\ Under({more[i] : i \in 1 .. n}, header'.next)
  BY <1>5, <1>6 DEF Saved
<1> QED  BY <1>4, <1>7, <1>8 DEF Saved, OnDisk, LinkOf

\* The header stays true if its chain's pages stay as they are.
LEMMA HeaderKept ==
    ASSUME HeaderTrue, header' = header, next_page_id \in Nat, next_page_id' \in Nat,
           next_page_id <= next_page_id', header.next \in Nat,
           ~txn'.rewritten => ~txn.rewritten,
           (IF pc' = "publish" THEN txn'.tree ELSE tree')
              = (IF pc = "publish" THEN txn.tree ELSE tree),
           free_list_page_ids \in Seq(PageId), free_list_page_ids' \in Seq(PageId),
           Len(free_list_page_ids) <= Len(free_list_page_ids'),
           \A i \in 1 .. Len(free_list_page_ids) :
              free_list_page_ids'[i] = free_list_page_ids[i],
           \A p \in Range(free_list_page_ids) : p \in DOMAIN disk =>
              p \in DOMAIN disk' /\ disk'[p] = disk[p]
    PROVE  HeaderTrue'
<1>1. /\ header'.next <= next_page_id'
      /\ Under(DOMAIN header'.tree, header'.next)
      /\ header'.tree = IF pc' = "publish" THEN txn'.tree ELSE tree'
  BY DEF HeaderTrue
<1>2. ASSUME ~txn'.rewritten
      PROVE  \E payload \in Seq(PageId) : Saved(payload)'
  <2>1. PICK payload \in Seq(PageId) : Saved(payload)
    BY <1>2 DEF HeaderTrue
  <2>2. Len(free_list_page_ids) \in Nat /\ Len(free_list_page_ids') \in Nat
    BY LenProperties
  <2>3. PagesNeeded(payload) \in Nat /\ PagesNeeded(payload) <= Len(free_list_page_ids)
    BY <2>1, PagesSuffice DEF Saved
  <2>4. \A i \in 1 .. PagesNeeded(payload) :
           free_list_page_ids[i] \in Range(free_list_page_ids)
    <3>1. \A i \in 1 .. PagesNeeded(payload) : i \in 1 .. Len(free_list_page_ids)
      BY <2>2, <2>3
    <3> QED  BY <3>1, RangeIs
  <2>5. Saved(payload)'
    BY <2>1, <2>2, <2>4, SavedKept
  <2> QED  BY <2>5
<1>3. ~txn'.rewritten => (\E payload \in Seq(PageId) : Saved(payload))'
  BY <1>2
<1> QED  BY <1>1, <1>3 DEF HeaderTrue

---------------------------------------------------------------------------
(* The steps keep what is sound of the lists, the trees and the chain. *)

\* A new file is sound.
LEMMA StartSound == Init => Sound
<1> SUFFICES ASSUME Init
             PROVE  Sound
  OBVIOUS
<1>1. pc = "boot" /\ Booting
  BY DEF Init, Booting
<1>2. Lists = <<>>
  BY DEF Init, Lists
<1>3. Empty
  BY <1>1, <1>2 DEF Init, Empty
<1> QED  BY <1>1, <1>3 DEF Sound

\* A step that leaves the writer and the file alone leaves all but readers.
LEMMA WriterUnmoved ==
    ASSUME TypesHold, Sound, ~Booting, UNCHANGED <<writerVars, fileVars, pc, txn, tree>>
    PROVE  ListsApart' /\ TreeWhole' /\ PutApart' /\ ChainGoesOn' /\ HeaderTrue'
<1>0. ListTypes /\ HeaderTypes
  BY DEF TypesHold
<1>1. /\ UNCHANGED <<free_list, pending_free, free_list_page_ids, next_page_id>>
      /\ UNCHANGED <<disk, header, pc, txn, tree>>
  BY DEF writerVars, fileVars
<1>2. ListsApart /\ TreeWhole /\ PutApart /\ ChainGoesOn /\ HeaderTrue
  BY DEF Sound
<1>3. ListsApart'
  BY <1>1, <1>2 DEF ListsApart
<1>4. TreeWhole'
  BY <1>1, <1>2 DEF TreeWhole, Intact, Outside
<1>5. PutApart'
  <2>1. PutUnderWay => PutUnderWay'
    BY <1>1 DEF PutUnderWay
  <2> QED  BY <1>1, <1>2, <2>1 DEF PutApart, Intact, Outside, InPut
<1>6. ChainGoesOn'
  <2>1. ASSUME NEW k, ChainWritten(k)
        PROVE  ChainWritten(k)'
    BY <1>1, <2>1 DEF ChainWritten, OnDisk, LinkOf
  <2>2. CASE pc # "chain"
    BY <1>1, <2>2 DEF ChainGoesOn
  <2>3. CASE pc = "chain"
    <3>1. PICK k \in 0 .. PagesNeeded(free_list \o pending_free) : ChainWritten(k)
      BY <1>2, <2>3 DEF ChainGoesOn
    <3>2. ChainWritten(k)'
      BY <2>1, <3>1
    <3>3. (\E j \in 0 .. PagesNeeded(free_list \o pending_free) : ChainWritten(j))'
      BY <1>1, <3>2
    <3> QED  BY <1>1, <1>2, <2>3, <3>3 DEF ChainGoesOn
  <2> QED  BY <2>2, <2>3
<1>7. HeaderTrue'
  <2>1. header.next \in Nat /\ next_page_id \in Nat
    BY <1>0 DEF HeaderTypes, NoHeader, ListTypes, PageId
  <2>2. free_list_page_ids \in Seq(PageId) /\ Len(free_list_page_ids) \in Nat
    BY <1>0, LenProperties DEF ListTypes
  <2> QED  BY <1>1, <1>2, <2>1, <2>2, HeaderKept
<1> QED  BY <1>3, <1>4, <1>5, <1>6, <1>7

\* Nothing is on an empty list.
LEMMA EmptyRange == Range(<<>>) = {}
BY DEF Range

\* A root that is loaded is clear, unless the gate let its pages go already.
LEMMA LoadedClear ==
    ASSUME TypesHold, Sound, ~Booting, ~txn.promoted
    PROVE  Clear(tree)
<1>1. TreeWhole /\ PutApart /\ pc # "dead"
  BY DEF Sound
<1>2. pc \in {"idle", "writing", "chain", "publish", "poisoned"}
  BY <1>1 DEF TypesHold, StateTypes, Booting
<1>3. Range(txn.writes) = {} \/ pc = "writing"
  BY <1>1, EmptyRange DEF PutApart
<1> QED  BY <1>1, <1>2, <1>3 DEF TreeWhole, PutApart, PutUnderWay, Outside, Clear, MayWrite

\* A tree that is clear stays so if a step writes to no other pages, and lets
\* no other pages be written to, than those, or than new ones.
LEMMA ClearKept ==
    ASSUME FileTypes, NEW t, Clear(t), pc # "poisoned", pc' # "poisoned",
           next_page_id \in Nat, next_page_id' \in Nat, next_page_id <= next_page_id',
           \A p \in MayWrite' : p \in MayWrite \/ ~ (p < next_page_id),
           \A p \in DOMAIN disk : \/ p \in MayWrite \/ ~ (p < next_page_id)
                                  \/ p \in DOMAIN disk' /\ disk'[p] = disk[p]
    PROVE  Clear(t)'
<1>1. DOMAIN t \subseteq PageId /\ DOMAIN t \cap MayWrite = {}
  BY DEF Clear, Intact, FileTypes
<1>2. Under(DOMAIN t, next_page_id)
  BY DEF Clear
<1>3. Intact(t)'
  BY <1>1, <1>2 DEF Clear, Intact, Under
<1>4. Under(DOMAIN t, next_page_id')
  BY <1>1, <1>2 DEF Under, PageId
<1>5. DOMAIN t \cap MayWrite' = {}
  BY <1>1, <1>2 DEF Under
<1> QED  BY <1>3, <1>4, <1>5 DEF Clear

\* All readers' trees at once.
LEMMA ReadersKept ==
    ASSUME FileTypes, ReadersApart, UNCHANGED readerVars,
           pc # "poisoned", pc' # "poisoned",
           next_page_id \in Nat, next_page_id' \in Nat, next_page_id <= next_page_id',
           \A p \in MayWrite' : p \in MayWrite \/ ~ (p < next_page_id),
           \A p \in DOMAIN disk : \/ p \in MayWrite \/ ~ (p < next_page_id)
                                  \/ p \in DOMAIN disk' /\ disk'[p] = disk[p]
    PROVE  ReadersApart'
<1>1. UNCHANGED <<phase, snap, exposed>>
  BY DEF readerVars
<1> SUFFICES ASSUME NEW r \in Reader, phase[r] = "reading", ~exposed[r]
             PROVE  Clear(snap[r])'
  BY <1>1 DEF ReadersApart
<1>2. PICK t : t = snap[r]
  OBVIOUS
<1>3. Clear(t)
  BY <1>2 DEF ReadersApart
<1>4. Clear(t)'
  BY <1>3, ClearKept
<1>5. t = snap'[r]
  BY <1>1, <1>2
<1> QED  BY <1>4, <1>5 DEF Clear, Intact

\* Readers: enter_read(), ReadGuard.root() and the guard's drop.
LEMMA ReadSound ==
    ASSUME TypesHold, Sound, NEW r \in Reader, Read(r)
    PROVE  Sound'
<1>0. ReaderTypes
  BY DEF TypesHold
<1>1. UNCHANGED <<writerVars, fileVars, pc, txn, tree>> /\ ~Booting
  BY DEF Read, EnterRead, LoadRoot, DropRead, IsOpen, Booting, Sound, Empty
<1>2. /\ UNCHANGED <<free_list, free_list_page_ids, next_page_id, disk, pc, txn>>
      /\ ~Booting'
  BY <1>1 DEF writerVars, fileVars, Booting
<1>3. ReadersApart
  BY <1>1 DEF Sound
<1>4. ReadersApart'
  <2> SUFFICES ASSUME NEW q \in Reader, phase'[q] = "reading", ~exposed'[q]
               PROVE  Clear(snap[q])'
    BY DEF ReadersApart
  <2>0. ASSUME NEW t, Clear(t), snap'[q] = t
        PROVE  Clear(snap[q])'
    BY <1>2, <2>0 DEF Clear, Intact, MayWrite
  <2>1. CASE snap'[q] = snap[q] /\ phase[q] = "reading" /\ ~exposed[q]
    BY <1>3, <2>0, <2>1 DEF ReadersApart
  <2>2. CASE snap'[q] = tree /\ ~txn.promoted
    BY <1>1, <2>0, <2>2, LoadedClear
  <2>3. \/ snap'[q] = snap[q] /\ phase[q] = "reading" /\ ~exposed[q]
        \/ snap'[q] = tree /\ ~txn.promoted
    <3>0. snap = [s \in Reader |-> snap[s]] /\ exposed = [s \in Reader |-> exposed[s]]
          /\ phase = [s \in Reader |-> phase[s]]
      BY <1>0 DEF ReaderTypes
    <3>1. CASE EnterRead(r)
      <4>1. phase' = [phase EXCEPT ![r] = "entered"] /\ snap' = snap /\ exposed' = exposed
        BY <3>1 DEF EnterRead
      <4> QED  BY <3>0, <4>1
    <3>2. CASE LoadRoot(r)
      <4>1. /\ phase' = [phase EXCEPT ![r] = "reading"] /\ snap' = [snap EXCEPT ![r] = tree]
            /\ exposed' = [exposed EXCEPT ![r] = txn.promoted]
        BY <3>2 DEF LoadRoot
      <4>2. q # r => snap'[q] = snap[q] /\ phase[q] = "reading" /\ ~exposed[q]
        BY <3>0, <4>1
      <4>3. q = r => snap'[q] = tree /\ ~txn.promoted
        BY <3>0, <4>1, Zenon
      <4> QED  BY <4>2, <4>3
    <3>3. CASE DropRead(r)
      <4>1. /\ phase' = [phase EXCEPT ![r] = "idle"] /\ snap' = [snap EXCEPT ![r] = <<>>]
            /\ exposed' = [exposed EXCEPT ![r] = FALSE]
        BY <3>3 DEF DropRead
      <4> QED  BY <3>0, <4>1
    <3> QED  BY <3>1, <3>2, <3>3 DEF Read
  <2> QED  BY <2>1, <2>2, <2>3
<1>5. ListsApart' /\ TreeWhole' /\ PutApart' /\ ChainGoesOn' /\ HeaderTrue'
  BY <1>1, WriterUnmoved
<1> QED  BY <1>2, <1>4, <1>5 DEF Sound

\* A transaction that is over has nothing.
LEMMA NoTxnIs ==
    ASSUME NEW b, NEW t, t = NoTxn \/ t = [NoTxn EXCEPT !.rewritten = b]
    PROVE  /\ t.tree = <<>> /\ t.writes = <<>> /\ t.promoted = FALSE
           /\ t = NoTxn => t.rewritten = FALSE
           /\ t # NoTxn => t.rewritten = b
BY DEF NoTxn

\* The two steps that make a store.
LEMMA BootSound ==
    ASSUME TypesHold, Sound, BootRoot \/ BootHeader
    PROVE  Sound'
<1>0. FileTypes /\ Empty /\ Booting
  BY DEF TypesHold, Sound, BootRoot, BootHeader, Booting
<1>1. CASE BootRoot
  <2>1. /\ 1 \in DOMAIN disk' /\ disk'[1] = NodePage(Node(0, 1))
    BY <1>1, WrittenPage DEF BootRoot
  <2>2. /\ UNCHANGED <<tree, txn, free_list, pending_free, free_list_page_ids, phase>>
        /\ pc' = "bootHeader"
    BY <1>1 DEF BootRoot, writerVars, readerVars
  <2>3. Empty'
    BY <1>0, <2>1, <2>2 DEF Empty, Lists
  <2> QED  BY <2>2, <2>3 DEF Sound, Booting
<1>2. CASE BootHeader
  <2>1. /\ tree' = [p \in {1} |-> Node(0, 1)] /\ next_page_id' = 2
        /\ header' = [root |-> 1, next |-> 2, head |-> 0, tree |-> tree']
        /\ free_list' = <<>> /\ pending_free' = <<>> /\ free_list_page_ids' = <<>>
        /\ pc' = "idle" /\ UNCHANGED <<disk, txn>>
    BY <1>0, <1>2, BootDone
  <2>2. UNCHANGED phase /\ pc = "bootHeader"
    BY <1>2 DEF BootHeader, readerVars
  <2>3. /\ txn'.tree = <<>> /\ txn'.writes = <<>> /\ ~txn'.promoted /\ ~txn'.rewritten
    BY <1>0, <2>1, NoTxnIs DEF Empty
  <2>4. DOMAIN tree' = {1} /\ tree'[1] = Node(0, 1)
    BY <2>1
  <2>5. ListsApart'
    BY <2>1, EmptyRange DEF ListsApart, Distinct, Under
  <2>6. TreeWhole'
    <3>1. Intact(tree)'
      BY <1>0, <2>1, <2>2, <2>4 DEF Empty, Intact
    <3>2. Under(DOMAIN tree, next_page_id)'
      BY <2>1, <2>4 DEF Under
    <3> QED  BY <2>1, <3>1, <3>2, EmptyRange DEF TreeWhole, Outside
  <2>7. PutApart'
    BY <2>1, <2>3 DEF PutApart, InPut
  <2>8. ChainGoesOn'
    BY <2>1 DEF ChainGoesOn
  <2>9. HeaderTrue'
    <3>1. header'.next = 2 /\ header'.head = 0 /\ header'.tree = tree'
      BY <2>1
    <3>2. Saved(<<>>)'
      <4>1. PagesNeeded(<<>>) = 0 /\ Len(<<>>) = 0
        BY NoPages
      <4> DEFINE used == {free_list_page_ids'[i] : i \in 1 .. 0}
      <4>2. used = {}
        OBVIOUS
      <4> QED  BY <2>1, <3>1, <4>1, <4>2, EmptyRange DEF Saved, Distinct, Under, OnDisk
    <3>3. <<>> \in Seq(PageId)
      BY EmptySeq
    <3>4. (\E payload \in Seq(PageId) : Saved(payload))'
      BY <3>2, <3>3
    <3>5. Under(DOMAIN header'.tree, header'.next) /\ header'.next <= next_page_id'
      BY <2>1, <2>4, <3>1 DEF Under
    <3> QED  BY <2>1, <3>1, <3>4, <3>5 DEF HeaderTrue
  <2>10. ReadersApart'
    BY <1>0, <2>2 DEF Empty, ReadersApart
  <2> QED  BY <2>1, <2>5, <2>6, <2>7, <2>8, <2>9, <2>10 DEF Sound, Booting
<1> QED  BY <1>1, <1>2

\* The put's tree becomes the published one, which the header has already.
LEMMA PublishSound ==
    ASSUME TypesHold, Sound, Publish
    PROVE  Sound'
<1>0. ListTypes /\ FileTypes /\ TxnTypes /\ HeaderTypes
  BY DEF TypesHold
<1>1. /\ UNCHANGED <<free_list, pending_free, free_list_page_ids, next_page_id>>
      /\ UNCHANGED <<disk, header, phase, snap, exposed>> /\ UNCHANGED readerVars
      /\ tree' = txn.tree /\ txn' = NoTxn /\ pc = "publish" /\ pc' = "idle"
  BY DEF Publish, writerVars, fileVars, readerVars
<1>2. /\ ListsApart /\ TreeWhole /\ PutApart /\ ChainGoesOn /\ HeaderTrue /\ ReadersApart
      /\ ~Booting'
  BY <1>1 DEF Sound, Booting
<1>3. /\ txn'.tree = <<>> /\ txn'.writes = <<>> /\ ~txn'.promoted /\ ~txn'.rewritten
  BY <1>1, NoTxnIs
<1>4. Intact(txn.tree) /\ Outside(DOMAIN txn.tree) /\ ~txn.rewritten
  BY <1>1, <1>2 DEF PutApart, InPut
<1>5. ListsApart'
  BY <1>1, <1>2 DEF ListsApart
<1>6. TreeWhole'
  BY <1>1, <1>3, <1>4 DEF TreeWhole, Intact, Outside
<1>7. PutApart'
  BY <1>1, <1>3 DEF PutApart, InPut
<1>8. ChainGoesOn'
  BY <1>1 DEF ChainGoesOn
<1>9. HeaderTrue'
  <2>1. header.next \in Nat /\ next_page_id \in Nat
    BY <1>0, <1>1 DEF HeaderTypes, NoHeader, ListTypes, PageId, Booting
  <2>2. free_list_page_ids \in Seq(PageId) /\ Len(free_list_page_ids) \in Nat
    BY <1>0, LenProperties DEF ListTypes
  <2> QED  BY <1>1, <1>2, <1>3, <1>4, <2>1, <2>2, HeaderKept
<1>10. ReadersApart'
  <2>1. MayWrite' \subseteq MayWrite
    BY <1>1, <1>3, EmptyRange DEF MayWrite
  <2> QED  BY <1>0, <1>1, <1>2, <2>1, ReadersKept DEF ListTypes
<1> QED  BY <1>1, <1>2, <1>5, <1>6, <1>7, <1>8, <1>9, <1>10 DEF Sound

\* A commit that panics leaves the published tree and its chain.
LEMMA HitCeilingSound ==
    ASSUME TypesHold, Sound, HitCeiling
    PROVE  Sound'
<1>0. ListTypes /\ TxnTypes /\ HeaderTypes
  BY DEF TypesHold
<1>1. /\ UNCHANGED <<free_list, pending_free, free_list_page_ids, next_page_id>>
      /\ UNCHANGED <<disk, header, tree, phase, snap, exposed>>
      /\ txn' = [NoTxn EXCEPT !.rewritten = txn.rewritten]
      /\ pc \in {"writing", "chain"} /\ pc' = "poisoned"
  BY DEF HitCeiling, writerVars, readerVars
<1>2. /\ ListsApart /\ TreeWhole /\ PutApart /\ HeaderTrue /\ ReadersApart
      /\ ~Booting' /\ ~Booting
  BY <1>1 DEF Sound, Booting
<1>3. /\ txn'.tree = <<>> /\ txn'.writes = <<>> /\ ~txn'.promoted
      /\ txn'.rewritten = txn.rewritten
  BY <1>1 DEF NoTxn
<1>5. ListsApart'
  BY <1>1, <1>2 DEF ListsApart
<1>6. TreeWhole'
  BY <1>1, <1>2 DEF TreeWhole, Intact
<1>7. PutApart'
  BY <1>1, <1>3 DEF PutApart, InPut
<1>8. ChainGoesOn'
  BY <1>1 DEF ChainGoesOn
<1>9. HeaderTrue'
  <2>1. header.next \in Nat /\ next_page_id \in Nat
    BY <1>0, <1>2 DEF HeaderTypes, NoHeader, ListTypes, PageId
  <2>2. free_list_page_ids \in Seq(PageId) /\ Len(free_list_page_ids) \in Nat
    BY <1>0, LenProperties DEF ListTypes
  <2> QED  BY <1>1, <1>2, <1>3, <2>1, <2>2, HeaderKept
<1>10. ReadersApart'
  BY <1>1, <1>2 DEF ReadersApart, Clear, Intact
<1> QED  BY <1>1, <1>2, <1>5, <1>6, <1>7, <1>8, <1>9, <1>10 DEF Sound

\* The elements of a sequence are its first one and those of the rest.
LEMMA RangeOfTail ==
    ASSUME NEW S, NEW s \in Seq(S), s # <<>>
    PROVE  Head(s) \in Range(s) /\ Range(s) = {Head(s)} \cup Range(Tail(s))
<1>1. /\ Tail(s) \in Seq(S) /\ Len(Tail(s)) = Len(s) - 1
      /\ \A i \in 1 .. Len(Tail(s)) : Tail(s)[i] = s[i + 1]
  BY HeadTailProperties
<1>2. Len(s) \in Nat /\ Len(s) > 0 /\ Head(s) = s[1]
  BY LenProperties, EmptySeq
<1>3. /\ \A i \in 1 .. Len(s) : s[i] \in Range(s)
      /\ \A x \in Range(s) : \E i \in 1 .. Len(s) : s[i] = x
  BY RangeIs
<1>4. /\ \A i \in 1 .. Len(Tail(s)) : Tail(s)[i] \in Range(Tail(s))
      /\ \A x \in Range(Tail(s)) : \E i \in 1 .. Len(Tail(s)) : Tail(s)[i] = x
  BY <1>1, RangeIs
<1>5. s[1] \in Range(s)
  BY <1>2, <1>3
<1>6. ASSUME NEW x \in Range(s), x # s[1]
      PROVE  x \in Range(Tail(s))
  <2>1. PICK i \in 1 .. Len(s) : s[i] = x
    BY <1>3
  <2>2. i - 1 \in 1 .. Len(Tail(s)) /\ (i - 1) + 1 = i
    BY <1>1, <1>2, <1>6, <2>1
  <2>3. Tail(s)[i - 1] = s[i]
    BY <1>1, <2>2
  <2>4. Tail(s)[i - 1] \in Range(Tail(s))
    BY <1>4, <2>2
  <2> QED  BY <2>1, <2>3, <2>4
<1>7. ASSUME NEW x \in Range(Tail(s))
      PROVE  x \in Range(s)
  <2>1. PICK i \in 1 .. Len(Tail(s)) : Tail(s)[i] = x
    BY <1>4
  <2>2. i + 1 \in 1 .. Len(s)
    BY <1>1, <1>2
  <2> QED  BY <1>1, <1>3, <2>1, <2>2
<1> QED  BY <1>2, <1>5, <1>6, <1>7

\* What the chain is to hold, while the lists are apart.
LEMMA PayloadIs ==
    ASSUME ListTypes, ListsApart
    PROVE  LET payload == free_list \o pending_free
           IN  /\ payload \in Seq(PageId) /\ PagesNeeded(payload) \in Nat
               /\ Distinct(payload)
               /\ Range(payload) = Range(free_list) \cup Range(pending_free)
               /\ Range(payload) \cap Range(free_list_page_ids) = {}
               /\ Under(Range(payload), next_page_id)
<1>1. free_list \in Seq(PageId) /\ pending_free \in Seq(PageId)
  BY DEF ListTypes
<1> DEFINE payload == free_list \o pending_free
<1>2. payload \in Seq(PageId)
  BY <1>1, ConcatProperties
<1>3. Distinct(payload)
  BY <1>1, DistinctConcat DEF ListsApart
<1>4. Range(payload) = Range(free_list) \cup Range(pending_free)
  BY <1>1, RangeConcatenation
<1>5. PagesNeeded(payload) \in Nat
  BY <1>2, PagesSuffice
<1> QED  BY <1>2, <1>3, <1>4, <1>5 DEF ListsApart, Under

\* A page of the put was on no list, in no published tree and in no reader's.
LEMMA WritePageSound ==
    ASSUME TypesHold, Sound, WritePage
    PROVE  Sound'
<1>0. ListTypes /\ FileTypes /\ TxnTypes /\ HeaderTypes
  BY DEF TypesHold
<1> DEFINE p == Head(txn.writes)
<1>1. /\ UNCHANGED <<free_list, pending_free, free_list_page_ids, next_page_id>>
      /\ UNCHANGED <<header, tree>> /\ UNCHANGED readerVars
      /\ WriteAt(p, NodePage(txn.tree[p]))
      /\ txn' = [txn EXCEPT !.writes = Tail(@)]
      /\ txn.writes # <<>> /\ pc = "writing" /\ pc' = "writing"
  BY DEF WritePage, writerVars, readerVars, PagesLeft
<1>2. /\ ListsApart /\ TreeWhole /\ PutApart /\ HeaderTrue /\ ReadersApart
      /\ ~Booting' /\ ~Booting
  BY <1>1 DEF Sound, Booting
<1>3. /\ txn'.tree = txn.tree /\ txn'.freed = txn.freed /\ txn'.writes = Tail(txn.writes)
      /\ txn'.promoted = txn.promoted /\ txn'.rewritten = txn.rewritten
  BY <1>0, <1>1 DEF TxnTypes
<1>4. /\ txn.writes \in Seq(PageId) /\ p \in Range(txn.writes)
      /\ Range(txn.writes) = {p} \cup Range(txn'.writes)
  BY <1>0, <1>1, <1>3, RangeOfTail DEF TxnTypes
<1>5. p \in DOMAIN txn.tree /\ p \notin DOMAIN tree /\ p \notin Range(free_list_page_ids)
  BY <1>0, <1>1, <1>2, <1>4 DEF TxnTypes, PutApart, PutUnderWay, Outside, InPut
<1> HIDE DEF p
<1>6. /\ DOMAIN disk' = DOMAIN disk \cup {p} /\ disk'[p] = NodePage(txn.tree[p])
      /\ \A q \in DOMAIN disk : q # p => disk'[q] = disk[q]
  BY <1>1, WrittenPage
<1>7. ListsApart'
  BY <1>1, <1>2 DEF ListsApart
<1>8. TreeWhole'
  <2>1. Intact(tree)'
    BY <1>1, <1>2, <1>5, IntactKept DEF TreeWhole, Intact
  <2> QED  BY <1>1, <1>2, <2>1 DEF TreeWhole, Outside
<1>9. PutApart'
  <2>1. PutUnderWay /\ Outside(DOMAIN txn.tree) /\ ~txn.promoted /\ ~txn.rewritten
    BY <1>1, <1>2 DEF PutApart, InPut
  <2>2. PutUnderWay'
    <3>1. \A q \in DOMAIN txn.tree \ Range(txn'.writes) :
             q \in DOMAIN disk' /\ disk'[q] = NodePage(txn.tree[q])
      BY <1>4, <1>6, <2>1 DEF PutUnderWay
    <3> QED  BY <1>1, <1>3, <1>4, <2>1, <3>1 DEF PutUnderWay
  <2>3. Outside(DOMAIN txn.tree)'
    BY <1>1, <1>3, <2>1 DEF Outside
  <2> QED  BY <1>1, <1>3, <2>1, <2>2, <2>3 DEF PutApart, InPut
<1>10. ChainGoesOn'
  BY <1>1 DEF ChainGoesOn
<1>11. HeaderTrue'
  <2>1. header.next \in Nat /\ next_page_id \in Nat
    BY <1>0, <1>2 DEF HeaderTypes, NoHeader, ListTypes, PageId
  <2>2. free_list_page_ids \in Seq(PageId) /\ Len(free_list_page_ids) \in Nat
    BY <1>0, LenProperties DEF ListTypes
  <2> QED  BY <1>1, <1>2, <1>3, <1>5, <1>6, <2>1, <2>2, HeaderKept
<1>12. ReadersApart'
  <2>1. MayWrite' \subseteq MayWrite /\ p \in MayWrite
    BY <1>1, <1>3, <1>4 DEF MayWrite
  <2> QED  BY <1>0, <1>1, <1>2, <1>6, <2>1, ReadersKept DEF ListTypes
<1> QED  BY <1>1, <1>2, <1>7, <1>8, <1>9, <1>10, <1>11, <1>12 DEF Sound

\* The header is written when its whole chain is.
LEMMA WriteHeaderSound ==
    ASSUME TypesHold, Sound, WriteHeader
    PROVE  Sound'
<1>0. ListTypes /\ FileTypes /\ TxnTypes /\ TreeTypes
  BY DEF TypesHold
<1>1. /\ UNCHANGED <<free_list, pending_free, free_list_page_ids, next_page_id>>
      /\ UNCHANGED <<disk, tree>> /\ UNCHANGED readerVars
      /\ header' = [root |-> txn.root, next |-> next_page_id, head |-> txn.head,
                    tree |-> txn.tree]
      /\ txn' = [txn EXCEPT !.rewritten = FALSE]
      /\ txn.chain = <<>> /\ pc = "chain" /\ pc' = "publish"
  BY DEF WriteHeader, NewHeader, writerVars, readerVars, ChainLeft
<1>2. /\ ListsApart /\ TreeWhole /\ PutApart /\ ChainGoesOn /\ HeaderTrue /\ ReadersApart
      /\ ~Booting'
  BY <1>1 DEF Sound, Booting
<1>3. /\ txn'.tree = txn.tree /\ txn'.writes = txn.writes
      /\ txn'.promoted = txn.promoted /\ txn'.rewritten = FALSE
  BY <1>0, <1>1 DEF TxnTypes
<1>4. Outside(DOMAIN txn.tree)
  BY <1>1, <1>2 DEF PutApart, InPut
<1>5. ListsApart'
  BY <1>1, <1>2 DEF ListsApart
<1>6. TreeWhole'
  BY <1>1, <1>2, <1>3 DEF TreeWhole, Intact
<1>7. PutApart'
  <2>1. Intact(txn.tree) /\ txn.writes = <<>>
    BY <1>1, <1>2 DEF PutApart
  <2>2. Intact(txn.tree)' /\ Outside(DOMAIN txn.tree)'
    BY <1>1, <1>3, <1>4, <2>1 DEF Intact, Outside
  <2> QED  BY <1>1, <1>3, <2>1, <2>2 DEF PutApart, InPut
<1>8. ChainGoesOn'
  BY <1>1 DEF ChainGoesOn
<1>9. HeaderTrue'
  <2> DEFINE payload == free_list \o pending_free
             n == PagesNeeded(payload)
             ids == free_list_page_ids
  <2>1. /\ payload \in Seq(PageId) /\ n \in Nat /\ Distinct(payload)
        /\ Range(payload) = Range(free_list) \cup Range(pending_free)
        /\ Range(payload) \cap Range(ids) = {} /\ Under(Range(payload), next_page_id)
    BY <1>0, <1>2, PayloadIs
  <2>2. /\ n <= Len(ids) /\ txn.head = IF n > 0 THEN ids[1] ELSE 0
        /\ \E k \in 0 .. n : ChainWritten(k)
    BY <1>1, <1>2 DEF ChainGoesOn
  <2>3. OnDisk(disk, payload, ids, n)
    <3>1. PICK k \in 0 .. n : ChainWritten(k)
      BY <2>2
    <3>2. Len(txn.chain) = n - k /\ OnDisk(disk, payload, ids, k)
      BY <3>1 DEF ChainWritten
    <3> HIDE DEF payload, n, ids
    <3>3. n - k = 0
      BY <1>1, <3>2
    <3>4. n = k
      BY <2>1, <3>3
    <3> QED  BY <3>2, <3>4
  <2>4. /\ header'.next = next_page_id /\ header'.head = txn.head
        /\ header'.tree = txn.tree
    BY <1>1
  <2> DEFINE used == {ids[i] : i \in 1 .. n}
  <2>5. used \subseteq Range(ids)
    <3>1. ids \in Seq(PageId) /\ Len(ids) \in Nat
      BY <1>0, LenProperties DEF ListTypes
    <3>2. \A i \in 1 .. n : i \in 1 .. Len(ids)
      <4> HIDE DEF n, ids
      <4> QED  BY <2>1, <2>2, <3>1
    <3> QED  BY <3>1, <3>2, RangeIs
  <2>6. /\ Range(payload) \cap used = {} /\ Range(payload) \cap DOMAIN txn.tree = {}
        /\ Under(used, next_page_id)
    BY <1>2, <1>4, <2>1, <2>5 DEF Outside, ListsApart, Under
  <2>7. Saved(payload)'
    <3>1. /\ n <= Len(ids) /\ header'.head = (IF n > 0 THEN ids[1] ELSE 0)
          /\ Distinct(payload) /\ Range(payload) \cap used = {}
          /\ Range(payload) \cap DOMAIN header'.tree = {}
          /\ Under(Range(payload), header'.next) /\ Under(used, header'.next)
          /\ OnDisk(disk, payload, ids, n)
      BY <2>1, <2>2, <2>3, <2>4, <2>6
    <3>2. ids' = ids /\ payload' = payload
      BY <1>1
    <3> QED  BY <1>1, <3>1, <3>2 DEF Saved, OnDisk
  <2>8. (\E load \in Seq(PageId) : Saved(load))'
    <3>1. PICK load \in Seq(PageId) : load = payload
      BY <2>1
    <3>2. Saved(load)'
      <4>1. payload' = payload
        BY <1>1
      <4> QED  BY <2>7, <3>1, <4>1 DEF Saved, OnDisk
    <3> QED  BY <3>2
  <2>9. next_page_id \in Nat
    BY <1>0 DEF ListTypes
  <2> QED  BY <1>1, <1>3, <1>4, <2>4, <2>8, <2>9 DEF HeaderTrue, Outside
<1>10. ReadersApart'
  <2>1. MayWrite' \subseteq MayWrite
    BY <1>1, <1>3 DEF MayWrite
  <2> QED  BY <1>0, <1>1, <1>2, <2>1, ReadersKept DEF ListTypes
<1> QED  BY <1>1, <1>2, <1>5, <1>6, <1>7, <1>8, <1>9, <1>10 DEF Sound

\* The pages of the chain are apart from each other and from the trees.
LEMMA ChainPageIs ==
    ASSUME TypesHold, Sound, pc = "chain",
           NEW k \in 0 .. PagesNeeded(free_list \o pending_free), ChainWritten(k),
           txn.chain # <<>>
    PROVE  LET n    == PagesNeeded(free_list \o pending_free)
               link == Head(txn.chain)
           IN  /\ n \in Nat /\ k \in Nat /\ k + 1 \in 1 .. n
               /\ n <= Len(free_list_page_ids) /\ Len(free_list_page_ids) \in Nat
               /\ link = txn.chain[1] /\ link.page = free_list_page_ids[k + 1]
               /\ link.content = LinkOf(free_list \o pending_free, free_list_page_ids, k + 1)
               /\ link.page \in Range(free_list_page_ids) /\ link.page # 0
               /\ \A i \in 1 .. k : free_list_page_ids[i] # link.page
<1>0. ListTypes /\ TxnTypes /\ ListsApart /\ ChainGoesOn
  BY DEF TypesHold, Sound, Booting
<1> DEFINE n == PagesNeeded(free_list \o pending_free)
           link == Head(txn.chain)
<1>1. n \in Nat /\ n <= Len(free_list_page_ids)
  BY <1>0, PayloadIs DEF ChainGoesOn
<1>2. /\ Len(txn.chain) = n - k
      /\ \A i \in 1 .. n - k :
            /\ txn.chain[i].page = free_list_page_ids[k + i]
            /\ txn.chain[i].content
                  = LinkOf(free_list \o pending_free, free_list_page_ids, k + i)
  BY DEF ChainWritten
<1> HIDE DEF n
<1>3. k \in Nat /\ k <= n
  BY <1>1 DEF n
<1>4. Len(txn.chain) \in Nat /\ Len(txn.chain) # 0 /\ link = txn.chain[1]
  <2>1. txn.chain \in Seq([page : PageId, content : Content])
    BY <1>0 DEF TxnTypes
  <2> QED  BY <2>1, LenProperties, EmptySeq
<1>5. 1 \in 1 .. n - k /\ k + 1 \in 1 .. n
  BY <1>1, <1>2, <1>3, <1>4
<1>6. /\ link.page = free_list_page_ids[k + 1]
      /\ link.content = LinkOf(free_list \o pending_free, free_list_page_ids, k + 1)
  BY <1>2, <1>4, <1>5
<1>7. /\ free_list_page_ids \in Seq(PageId) /\ Len(free_list_page_ids) \in Nat
      /\ \A i \in 1 .. Len(free_list_page_ids) :
            /\ free_list_page_ids[i] \in Range(free_list_page_ids)
            /\ free_list_page_ids[i] \in PageId
  BY <1>0, LenProperties, RangeIs, ElementOfSeq DEF ListTypes
<1>8. k + 1 \in 1 .. Len(free_list_page_ids)
  BY <1>1, <1>3, <1>5, <1>7
<1>9. link.page \in Range(free_list_page_ids) /\ link.page # 0
  BY <1>6, <1>7, <1>8 DEF PageId
<1>10. ASSUME NEW i \in 1 .. k
       PROVE  free_list_page_ids[i] # link.page
  <2>1. i \in 1 .. Len(free_list_page_ids) /\ i # k + 1
    BY <1>3, <1>7, <1>8
  <2> QED  BY <1>0, <1>6, <1>8, <2>1 DEF ListsApart, Distinct
<1> QED  BY <1>1, <1>3, <1>4, <1>5, <1>6, <1>7, <1>9, <1>10 DEF n

\* One more page of the chain is on disk after its write.
LEMMA ChainGoesFurther ==
    ASSUME TypesHold, Sound, WriteChainPage
    PROVE  ChainGoesOn' /\ HeaderTrue'
<1>0. ListTypes /\ FileTypes /\ TxnTypes /\ HeaderTypes
  BY DEF TypesHold
<1> DEFINE link == Head(txn.chain)
           payload == free_list \o pending_free
           n == PagesNeeded(payload)
           ids == free_list_page_ids
<1>1. /\ UNCHANGED <<free_list, pending_free, free_list_page_ids, next_page_id>>
      /\ UNCHANGED <<header, tree>>
      /\ WriteAt(link.page, link.content)
      /\ txn' = [txn EXCEPT !.chain = Tail(@), !.rewritten = @ \/ link.page = header.head]
      /\ txn.chain # <<>> /\ pc = "chain" /\ pc' = "chain"
  BY DEF WriteChainPage, writerVars, ChainLeft
<1>2. /\ ListsApart /\ ChainGoesOn /\ HeaderTrue /\ ~Booting
  BY <1>1 DEF Sound, Booting
<1>3. /\ txn'.tree = txn.tree /\ txn'.chain = Tail(txn.chain) /\ txn'.head = txn.head
      /\ txn'.rewritten = (txn.rewritten \/ link.page = header.head)
  BY <1>0, <1>1 DEF TxnTypes
<1>4. /\ n <= Len(ids) /\ txn.head = IF n > 0 THEN ids[1] ELSE 0
      /\ \E k \in 0 .. n : ChainWritten(k)
  BY <1>1, <1>2 DEF ChainGoesOn
<1>5. PICK k \in 0 .. n : ChainWritten(k)
  BY <1>4
<1>6. /\ n \in Nat /\ k \in Nat /\ k + 1 \in 1 .. n
      /\ Len(ids) \in Nat
      /\ link.page = ids[k + 1] /\ link.content = LinkOf(payload, ids, k + 1)
      /\ link.page # 0
      /\ \A i \in 1 .. k : ids[i] # link.page
  BY <1>1, <1>5, ChainPageIs
<1>7. /\ DOMAIN disk' = DOMAIN disk \cup {link.page} /\ disk'[link.page] = link.content
      /\ \A q \in DOMAIN disk : q # link.page => disk'[q] = disk[q]
  BY <1>1, WrittenPage
<1>8. /\ Len(txn.chain) = n - k
      /\ \A i \in 1 .. n - k : /\ txn.chain[i].page = ids[k + i]
                               /\ txn.chain[i].content = LinkOf(payload, ids, k + i)
      /\ OnDisk(disk, payload, ids, k)
      /\ k > 0 /\ header.head # 0 => txn.rewritten
  BY <1>5 DEF ChainWritten
<1>9. /\ Len(txn'.chain) = Len(txn.chain) - 1
      /\ \A i \in 1 .. Len(txn'.chain) : txn'.chain[i] = txn.chain[i + 1]
  <2>1. txn.chain \in Seq([page : PageId, content : Content])
    BY <1>0 DEF TxnTypes
  <2> QED  BY <1>1, <1>3, <2>1, HeadTailProperties
    \* The old chain begins where the new one does, if there is one.
<1>10. ASSUME ~txn.rewritten, header.head # 0
       PROVE  header.head = ids[1]
  BY <1>2, <1>10 DEF HeaderTrue, Saved
<1>11. header.head # 0 => txn'.rewritten
  <2> SUFFICES ASSUME header.head # 0, ~txn.rewritten
               PROVE  link.page = header.head
    BY <1>3
  <2>1. k = 0
    BY <1>6, <1>8
  <2> QED  BY <1>6, <1>10, <2>1
<1>12. OnDisk(disk, payload, ids, k + 1)'
  <2>1. ids' = ids /\ payload' = payload
    BY <1>1
  <2>2. ASSUME NEW i \in 1 .. k + 1
        PROVE  ids[i] \in DOMAIN disk' /\ disk'[ids[i]] = LinkOf(payload, ids, i)
    <3>1. CASE i = k + 1
      BY <1>6, <1>7, <3>1
    <3>2. CASE i # k + 1
      <4>1. i \in 1 .. k
        BY <1>6, <3>2
      <4> QED  BY <1>6, <1>7, <1>8, <4>1 DEF OnDisk
    <3> QED  BY <3>1, <3>2
  <2> QED  BY <2>1, <2>2 DEF OnDisk
<1>13. ChainWritten(k + 1)'
  <2> HIDE DEF payload, n, ids
  <2>1. Len(txn'.chain) = n - (k + 1)
    BY <1>6, <1>8, <1>9
  <2>2. \A i \in 1 .. n - (k + 1) :
           /\ txn'.chain[i].page = ids[(k + 1) + i]
           /\ txn'.chain[i].content = LinkOf(payload, ids, (k + 1) + i)
    <3> SUFFICES ASSUME NEW i \in 1 .. n - (k + 1)
                 PROVE  /\ txn'.chain[i].page = ids[(k + 1) + i]
                        /\ txn'.chain[i].content = LinkOf(payload, ids, (k + 1) + i)
      OBVIOUS
    <3>1. i \in Nat /\ i + 1 \in 1 .. n - k /\ k + (i + 1) = (k + 1) + i
      BY <1>6
    <3>2. txn'.chain[i] = txn.chain[i + 1]
      BY <1>9, <2>1
    <3> QED  BY <1>8, <3>1, <3>2
  <2>3. ids' = ids /\ payload' = payload /\ header' = header
    BY <1>1 DEF ids, payload
  <2>4. n' = n
    BY <2>3 DEF n
  <2> USE DEF payload, ids, n
  <2> QED  BY <1>11, <1>12, <2>1, <2>2, <2>3, <2>4 DEF ChainWritten
<1>14. ChainGoesOn'
  <2>1. ids' = ids /\ n' = n
    BY <1>1
  <2>2. k + 1 \in 0 .. n
    <3> HIDE DEF n
    <3> QED  BY <1>6
  <2>3. (\E j \in 0 .. n : ChainWritten(j))'
    <3>1. PICK j \in 0 .. n : j = k + 1
      BY <2>2
    <3>2. ChainWritten(j)'
      BY <1>13, <3>1 DEF ChainWritten, OnDisk
    <3> QED  BY <2>1, <3>2
  <2> QED  BY <1>3, <1>4, <2>1, <2>3 DEF ChainGoesOn
<1>15. HeaderTrue'
  <2>1. /\ header'.next <= next_page_id' /\ Under(DOMAIN header'.tree, header'.next)
        /\ header'.tree = tree'
    BY <1>1, <1>2 DEF HeaderTrue
  <2>2. ASSUME ~txn'.rewritten
        PROVE  (\E load \in Seq(PageId) : Saved(load))'
    <3>1. ~txn.rewritten /\ header.head = 0
      BY <1>3, <1>11, <2>2
    <3>2. PICK load \in Seq(PageId) : Saved(load)
      BY <1>2, <3>1 DEF HeaderTrue
    <3>3. free_list_page_ids \in Seq(PageId) /\ \A i \in 1 .. Len(ids) : ids[i] # 0
      BY <1>0, ElementOfSeq DEF ListTypes, PageId
    <3>4. PagesNeeded(load) \in Nat
      BY <3>2, PagesSuffice
    <3>5. PagesNeeded(load) = 0
      <4> SUFFICES ASSUME PagesNeeded(load) > 0
                   PROVE  FALSE
        BY <3>4
      <4>1. ids[1] = 0 /\ 1 \in 1 .. Len(ids)
        BY <1>6, <3>1, <3>2, <3>4 DEF Saved
      <4> QED  BY <3>3, <4>1
    <3>6. Saved(load)'
      <4>1. \A i \in 1 .. PagesNeeded(load) : FALSE
        BY <3>5
      <4> HIDE DEF ids
      <4>2. Len(free_list_page_ids) \in Nat
        BY <1>6 DEF ids
      <4> QED  BY <1>1, <3>2, <3>3, <4>1, <4>2, SavedKept
    <3> QED  BY <3>6
  <2> QED  BY <1>1, <2>1, <2>2 DEF HeaderTrue
<1> QED  BY <1>14, <1>15

\* A page of the chain is in no tree, published, put or read.
LEMMA WriteChainPageSound ==
    ASSUME TypesHold, Sound, WriteChainPage
    PROVE  Sound'
<1>0. ListTypes /\ FileTypes /\ TxnTypes
  BY DEF TypesHold
<1> DEFINE p == Head(txn.chain).page
<1>1. /\ UNCHANGED <<free_list, pending_free, free_list_page_ids, next_page_id>>
      /\ UNCHANGED <<header, tree>> /\ UNCHANGED readerVars
      /\ WriteAt(p, Head(txn.chain).content)
      /\ txn' = [txn EXCEPT !.chain = Tail(@), !.rewritten = @ \/ p = header.head]
      /\ txn.chain # <<>> /\ pc = "chain" /\ pc' = "chain"
  BY DEF WriteChainPage, writerVars, readerVars, ChainLeft
<1>2. /\ ListsApart /\ TreeWhole /\ PutApart /\ ChainGoesOn /\ ReadersApart
      /\ ~Booting'
  BY <1>1 DEF Sound, Booting
<1>3. /\ txn'.tree = txn.tree /\ txn'.writes = txn.writes /\ txn'.promoted = txn.promoted
  BY <1>0, <1>1 DEF TxnTypes
<1>4. p \in Range(free_list_page_ids)
  <2>1. PICK k \in 0 .. PagesNeeded(free_list \o pending_free) : ChainWritten(k)
    BY <1>1, <1>2 DEF ChainGoesOn
  <2> QED  BY <1>1, <2>1, ChainPageIs
<1>5. Outside(DOMAIN txn.tree) /\ Intact(txn.tree) /\ txn.writes = <<>>
  BY <1>1, <1>2 DEF PutApart, InPut
<1>6. p \notin DOMAIN tree /\ p \notin DOMAIN txn.tree
  BY <1>2, <1>4, <1>5 DEF TreeWhole, Outside
<1> HIDE DEF p
<1>7. ListsApart'
  BY <1>1, <1>2 DEF ListsApart
<1>8. TreeWhole'
  <2>1. Intact(tree)'
    BY <1>1, <1>2, <1>6, IntactKept DEF TreeWhole, Intact
  <2> QED  BY <1>1, <1>2, <1>3, <2>1 DEF TreeWhole
<1>9. PutApart'
  <2>1. Intact(txn.tree)'
    BY <1>1, <1>3, <1>5, <1>6, IntactKept DEF Intact
  <2>2. Outside(DOMAIN txn.tree)'
    BY <1>1, <1>3, <1>5 DEF Outside
  <2> QED  BY <1>1, <1>3, <1>5, <2>1, <2>2 DEF PutApart, InPut
<1>10. ReadersApart'
  <2>1. MayWrite' \subseteq MayWrite /\ p \in MayWrite
    BY <1>1, <1>3, <1>4 DEF MayWrite
  <2>2. \A q \in DOMAIN disk : q # p => q \in DOMAIN disk' /\ disk'[q] = disk[q]
    BY <1>1, WrittenPage
  <2> QED  BY <1>0, <1>1, <1>2, <2>1, <2>2, ReadersKept DEF ListTypes
<1>11. ChainGoesOn' /\ HeaderTrue'
  BY ChainGoesFurther
<1> QED  BY <1>1, <1>2, <1>7, <1>8, <1>9, <1>10, <1>11 DEF Sound

\* What a put gets was free or is new, and is off the free list: nothing that
\* was on it, and no new id, is lost.
LEMMA AllocApart ==
    ASSUME ListTypes, Distinct(free_list), next_page_id \in PageId, NEW n \in Nat
    PROVE  LET f    == FromFree(n)
               new  == Alloc(n)
               rest == SubSeq(free_list, 1, Len(free_list) - f)
           IN  /\ n - f \in Nat /\ rest \in Seq(PageId) /\ Distinct(rest)
               /\ Range(new) \subseteq Range(free_list)
                                        \cup next_page_id .. next_page_id + (n - f) - 1
               /\ Under(Range(free_list), next_page_id) => Range(new) \cap Range(rest) = {}
               /\ Range(rest) \subseteq Range(free_list)
               /\ Range(free_list) \subseteq Range(rest) \cup Range(new)
               /\ next_page_id .. next_page_id + (n - f) - 1 \subseteq Range(new)
<1> DEFINE f == FromFree(n)
           new == Alloc(n)
           m == Len(free_list)
           rest == SubSeq(free_list, 1, m - f)
<1>1. /\ new \in Seq(PageId) /\ Len(new) = n
      /\ f \in Nat /\ f <= n /\ f <= m
      /\ \A i \in 1 .. n : i <= f =>
            m - i + 1 \in 1 .. m /\ new[i] = free_list[m - i + 1]
      /\ \A i \in 1 .. n : ~ (i <= f) => new[i] = next_page_id + (i - f) - 1
  BY AllocIs, AllocTypes
<1>2. m \in Nat /\ free_list \in Seq(PageId) /\ \A i \in 1 .. m : free_list[i] \in PageId
  BY LenProperties, ElementOfSeq DEF ListTypes
<1> HIDE DEF f, new, m
<1>3. /\ rest \in Seq(PageId) /\ Len(rest) = m - f
      /\ \A i \in 1 .. m - f : rest[i] = free_list[i]
  <2>1. m - f \in Int /\ 1 \in Int /\ \A i \in 1 .. m - f : free_list[i] \in PageId
    BY <1>1, <1>2
  <2> DEFINE last == m - f
  <2>2. last \in Nat
    BY <1>1, <1>2
  <2> HIDE DEF last
  <2>3. /\ SubSeq(free_list, 1, last) \in Seq(PageId)
        /\ Len(SubSeq(free_list, 1, last)) = IF 1 <= last THEN last - 1 + 1 ELSE 0
        /\ \A i \in 1 .. last - 1 + 1 : SubSeq(free_list, 1, last)[i] = free_list[1 + i - 1]
    <3>1. \A i \in 1 .. last : free_list[i] \in PageId
      BY <2>1 DEF last
    <3> QED  BY <2>2, <3>1, SubSeqProperties
  <2>4. Len(SubSeq(free_list, 1, last)) = last
    BY <2>2, <2>3
  <2>5. \A i \in 1 .. last : i \in 1 .. last - 1 + 1 /\ 1 + i - 1 = i
    BY <2>2
  <2>6. \A i \in 1 .. last : SubSeq(free_list, 1, last)[i] = free_list[i]
    BY <2>3, <2>5
  <2> QED  BY <2>3, <2>4, <2>6 DEF last
<1> HIDE DEF rest
<1>4. /\ \A x \in Range(new) : \E i \in 1 .. n : new[i] = x
      /\ \A i \in 1 .. n : new[i] \in Range(new)
  BY <1>1, RangeIs
<1>5. /\ \A x \in Range(rest) : \E i \in 1 .. m - f : rest[i] = x
      /\ \A i \in 1 .. m - f : rest[i] \in Range(rest)
  BY <1>3, RangeIs
<1>6. /\ \A x \in Range(free_list) : \E i \in 1 .. m : free_list[i] = x
      /\ \A i \in 1 .. m : free_list[i] \in Range(free_list)
  BY <1>2, RangeIs DEF m
<1>7. \A i \in 1 .. m - f : i \in 1 .. m
  BY <1>1, <1>2
<1>8. Distinct(rest)
  BY <1>3, <1>7 DEF Distinct, m
<1>9. Range(rest) \subseteq Range(free_list)
  BY <1>3, <1>5, <1>6, <1>7
<1>10. next_page_id \in Nat
  BY DEF PageId
<1>11. ASSUME NEW x \in Range(new)
       PROVE  x \in Range(free_list) \/ x \in next_page_id .. next_page_id + (n - f) - 1
  <2>1. PICK i \in 1 .. n : new[i] = x
    BY <1>4
  <2>2. CASE i <= f
    BY <1>1, <1>6, <2>1, <2>2
  <2>3. CASE ~ (i <= f)
    <3>1. x = next_page_id + (i - f) - 1
      BY <1>1, <2>1, <2>3
    <3> QED  BY <1>1, <1>10, <2>3, <3>1
  <2> QED  BY <2>2, <2>3
<1>12. ASSUME Under(Range(free_list), next_page_id),
              NEW i \in 1 .. n, NEW j \in 1 .. m - f, new[i] = rest[j]
       PROVE  FALSE
  <2>1. CASE i <= f
    <3>1. m - i + 1 \in 1 .. m /\ free_list[m - i + 1] = free_list[j] /\ j \in 1 .. m
      BY <1>1, <1>3, <1>7, <1>12, <2>1
    <3>2. m - i + 1 = j
      BY <3>1 DEF Distinct, m
    <3> QED  BY <1>1, <1>2, <2>1, <3>2
  <2>2. CASE ~ (i <= f)
    <3>1. free_list[j] = next_page_id + (i - f) - 1 /\ j \in 1 .. m
      BY <1>1, <1>3, <1>7, <1>12, <2>2
    <3>2. free_list[j] < next_page_id
      BY <1>6, <1>12, <3>1 DEF Under
    <3> QED  BY <1>1, <1>10, <2>2, <3>1, <3>2
  <2> QED  BY <2>1, <2>2
<1>13. Under(Range(free_list), next_page_id) => Range(new) \cap Range(rest) = {}
  BY <1>4, <1>5, <1>12
<1>14. ASSUME NEW x \in Range(free_list)
       PROVE  x \in Range(rest) \cup Range(new)
  <2>1. PICK j \in 1 .. m : free_list[j] = x
    BY <1>6
  <2>2. CASE j <= m - f
    <3>1. j \in 1 .. m - f
      BY <1>1, <1>2, <2>2
    <3>2. rest[j] = free_list[j] /\ rest[j] \in Range(rest)
      BY <1>3, <1>5, <3>1
    <3> QED  BY <2>1, <3>2
  <2>3. CASE ~ (j <= m - f)
    <3>1. m - j + 1 \in 1 .. n /\ m - j + 1 <= f /\ m - (m - j + 1) + 1 = j
      BY <1>1, <1>2, <2>3
    <3>2. new[m - j + 1] = free_list[m - (m - j + 1) + 1]
      BY <1>1, <3>1
    <3> QED  BY <1>4, <2>1, <3>1, <3>2
  <2> QED  BY <2>2, <2>3
<1>15. ASSUME NEW x \in next_page_id .. next_page_id + (n - f) - 1
       PROVE  x \in Range(new)
  <2>1. /\ x - next_page_id + f + 1 \in 1 .. n /\ ~ (x - next_page_id + f + 1 <= f)
        /\ next_page_id + ((x - next_page_id + f + 1) - f) - 1 = x
    BY <1>1, <1>10
  <2> QED  BY <1>1, <1>4, <2>1
<1>16. n - f \in Nat
  BY <1>1
<1> QED  BY <1>3, <1>8, <1>9, <1>11, <1>13, <1>14, <1>15, <1>16 DEF f, new, m, rest

\* begin_write() and put() before commit() take free pages and new ones.
LEMMA BeginPutSound ==
    ASSUME TypesHold, Sound, NEW path \in Paths, NEW k \in 0 .. Height, BeginPutOn(path, k)
    PROVE  Sound'
<1>0. ListTypes /\ FileTypes /\ TxnTypes /\ TreeTypes /\ HeaderTypes /\ StateTypes
  BY DEF TypesHold
<1> DEFINE n == Copies(k)
           new == Alloc(n)
           f == FromFree(n)
           rest == SubSeq(free_list, 1, Len(free_list) - f)
<1>1. /\ UNCHANGED <<pending_free, free_list_page_ids, disk, header, tree>>
      /\ UNCHANGED readerVars /\ pc = "idle" /\ pc' = "writing"
  BY DEF BeginPutOn, fileVars
<1>2. /\ ListsApart /\ TreeWhole /\ PutApart /\ HeaderTrue /\ ReadersApart
      /\ ~Booting' /\ ~Booting
  BY <1>1 DEF Sound, Booting
<1>3. /\ n \in Nat \ {0} /\ new \in Seq(PageId)
      /\ DOMAIN txn'.tree = (DOMAIN tree \ Range(path)) \cup Range(new)
      /\ \A p \in DOMAIN tree \ Range(path) : p \notin Range(new) => txn'.tree[p] = tree[p]
      /\ txn' = [root |-> txn'.root, tree |-> txn'.tree, writes |-> new, freed |-> path,
                 chain |-> <<>>, head |-> 0, promoted |-> FALSE, rewritten |-> FALSE]
      /\ free_list' = rest /\ next_page_id' = next_page_id + (n - f)
  BY <1>0, PutBegun
<1> HIDE DEF n
<1>4. next_page_id \in PageId /\ IsOpen
  BY <1>0, <1>1 DEF TreeTypes, IsOpen
<1>5. /\ n - f \in Nat /\ Distinct(rest)
      /\ Range(new) \subseteq Range(free_list) \cup next_page_id .. next_page_id + (n - f) - 1
      /\ Range(new) \cap Range(rest) = {}
      /\ Range(rest) \subseteq Range(free_list)
  BY <1>0, <1>2, <1>3, <1>4, AllocApart DEF ListsApart
<1>6. Distinct(path) /\ Range(path) \subseteq DOMAIN tree
  BY <1>0, <1>4, PathIs
<1> HIDE DEF new, f, rest
<1>7. /\ next_page_id \in Nat /\ next_page_id' \in Nat /\ next_page_id <= next_page_id'
  BY <1>3, <1>4, <1>5 DEF PageId
<1>8. /\ txn'.writes = new /\ txn'.freed = path /\ ~txn'.promoted /\ ~txn'.rewritten
  BY <1>3
<1>9. \A S : S \subseteq PageId /\ Under(S, next_page_id) => Under(S, next_page_id')
  BY <1>7 DEF Under, PageId
<1>10. /\ Range(free_list) \subseteq PageId /\ Range(pending_free) \subseteq PageId
       /\ Range(free_list_page_ids) \subseteq PageId /\ DOMAIN tree \subseteq PageId
  BY <1>0, RangeIs DEF ListTypes, TreeTypes, IsTree
    \* A page that the put gets was free or is new.
<1>11. ASSUME NEW p \in Range(new)
       PROVE  /\ p \in Range(free_list) \/ ~ (p < next_page_id)
              /\ p < next_page_id'
  <2>1. CASE p \in Range(free_list)
    <3>1. p < next_page_id /\ p \in Nat
      BY <1>2, <1>10, <2>1 DEF ListsApart, Under, PageId
    <3> QED  BY <1>7, <2>1, <3>1
  <2>2. CASE p \in next_page_id .. next_page_id + (n - f) - 1
    BY <1>3, <1>5, <1>7, <2>2
  <2> QED  BY <1>5, <2>1, <2>2
<1>12. /\ Range(new) \cap Range(pending_free) = {}
       /\ Range(new) \cap Range(free_list_page_ids) = {}
  BY <1>2, <1>11 DEF ListsApart, Under
<1>13. Outside(DOMAIN tree)
  BY <1>1, <1>2 DEF TreeWhole
<1>14. Range(new) \cap DOMAIN tree = {}
  BY <1>11, <1>13 DEF Outside, Under
<1>15. ListsApart'
  <2>1. /\ Under(Range(rest), next_page_id)
        /\ Range(rest) \cap Range(pending_free) = {}
        /\ Range(rest) \cap Range(free_list_page_ids) = {}
    BY <1>2, <1>5 DEF ListsApart, Under
  <2>2. /\ Under(Range(rest), next_page_id') /\ Under(Range(pending_free), next_page_id')
        /\ Under(Range(free_list_page_ids), next_page_id')
    BY <1>2, <1>5, <1>9, <1>10, <2>1 DEF ListsApart
  <2> QED  BY <1>1, <1>2, <1>3, <1>5, <2>1, <2>2 DEF ListsApart
<1>16. TreeWhole'
  <2>1. Under(DOMAIN tree, next_page_id')
    BY <1>9, <1>10, <1>13 DEF Outside
  <2>2. Intact(tree)'
    BY <1>1, <1>2 DEF TreeWhole, Intact
  <2> QED  BY <1>1, <1>3, <1>5, <1>13, <2>1, <2>2 DEF TreeWhole, Outside
<1>17. Outside(DOMAIN txn.tree)'
  <2>1. /\ DOMAIN tree \cap Range(rest) = {} /\ DOMAIN tree \cap Range(pending_free) = {}
        /\ DOMAIN tree \cap Range(free_list_page_ids) = {}
        /\ Under(DOMAIN tree, next_page_id')
    BY <1>5, <1>9, <1>10, <1>13 DEF Outside
  <2>2. Under(DOMAIN txn'.tree, next_page_id')
    BY <1>3, <1>11, <2>1 DEF Under
  <2>3. /\ DOMAIN txn'.tree \cap Range(rest) = {}
        /\ DOMAIN txn'.tree \cap Range(pending_free) = {}
        /\ DOMAIN txn'.tree \cap Range(free_list_page_ids) = {}
    BY <1>3, <1>5, <1>12, <2>1
  <2> QED  BY <1>1, <1>3, <2>2, <2>3 DEF Outside
<1>18. PutUnderWay'
  <2>1. \A p \in DOMAIN txn'.tree \ Range(new) : /\ p \in DOMAIN tree \ Range(path)
                                                /\ txn'.tree[p] = tree[p]
    BY <1>3
  <2>2. \A p \in DOMAIN txn'.tree \ Range(new) :
           p \in DOMAIN disk /\ disk[p] = NodePage(txn'.tree[p])
    BY <1>2, <2>1 DEF TreeWhole, Intact
  <2>3. /\ Range(path) \cap DOMAIN txn'.tree = {}
        /\ DOMAIN tree \ Range(path) \subseteq DOMAIN txn'.tree
    BY <1>3, <1>6, <1>14
  <2> QED  BY <1>1, <1>6, <1>8, <1>14, <2>2, <2>3 DEF PutUnderWay
<1>19. PutApart'
  BY <1>1, <1>8, <1>17, <1>18 DEF PutApart, InPut
<1>20. ChainGoesOn'
  BY <1>1 DEF ChainGoesOn
<1>21. HeaderTrue'
  <2>1. header.next \in Nat
    BY <1>0, <1>2 DEF HeaderTypes, NoHeader, PageId
  <2>2. free_list_page_ids \in Seq(PageId) /\ Len(free_list_page_ids) \in Nat
    BY <1>0, LenProperties DEF ListTypes
  <2>3. ~txn.rewritten
    BY <1>1, <1>2 DEF PutApart
  <2> QED  BY <1>1, <1>2, <1>7, <2>1, <2>2, <2>3, HeaderKept
<1>22. ReadersApart'
  <2>1. \A p \in MayWrite' : p \in MayWrite \/ ~ (p < next_page_id)
    BY <1>1, <1>3, <1>5, <1>8, <1>11 DEF MayWrite
  <2> QED  BY <1>0, <1>1, <1>2, <1>7, <2>1, ReadersKept
<1> QED  BY <1>1, <1>2, <1>15, <1>16, <1>19, <1>20, <1>21, <1>22 DEF Sound

\* The pages of chains, lengthened by new ones, are apart.
LEMMA ChainPagesApart ==
    ASSUME NEW ids \in Seq(PageId), NEW n \in Nat, NEW next \in PageId,
           Distinct(ids), Under(Range(ids), next)
    PROVE  LET all == ChainPages(ids, n, next)
               end == next + Missing(ids, n)
           IN  /\ Missing(ids, n) \in Nat
               /\ Distinct(all) /\ Range(all) = Range(ids) \cup next .. end - 1
               /\ Len(ids) \in Nat /\ Len(all) \in Nat /\ Len(ids) <= Len(all)
               /\ \A i \in 1 .. Len(ids) : all[i] = ids[i]
<1> DEFINE all == ChainPages(ids, n, next)
           more == Missing(ids, n)
           m == Len(ids)
<1>1. /\ all \in Seq(PageId) /\ more \in Nat /\ Len(all) = m + more
      /\ \A i \in 1 .. m : all[i] = ids[i]
      /\ \A i \in 1 .. Len(all) : ~ (i <= m) => all[i] = next + (i - m) - 1
  BY ChainPagesIs
<1>2. m \in Nat /\ next \in Nat
  BY LenProperties DEF PageId
<1>3. /\ \A x \in Range(ids) : \E i \in 1 .. m : ids[i] = x
      /\ \A i \in 1 .. m : ids[i] \in Range(ids) /\ ids[i] \in PageId
  BY RangeIs
<1>4. /\ \A x \in Range(all) : \E i \in 1 .. Len(all) : all[i] = x
      /\ \A i \in 1 .. Len(all) : all[i] \in Range(all)
  BY <1>1, RangeIs
<1> HIDE DEF all, more
<1>5. Distinct(all)
  <2> HIDE DEF m
  <2> SUFFICES ASSUME NEW i \in 1 .. Len(all), NEW j \in 1 .. Len(all), all[i] = all[j]
               PROVE  i = j
    BY DEF Distinct
  <2>1. /\ i <= m => /\ i \in 1 .. m /\ all[i] = ids[i] /\ ids[i] < next
        /\ ~ (i <= m) => all[i] = next + (i - m) - 1
        /\ j <= m => /\ j \in 1 .. m /\ all[j] = ids[j] /\ ids[j] < next
        /\ ~ (j <= m) => all[j] = next + (j - m) - 1
    BY <1>1, <1>2, <1>3 DEF Under
  <2>2. i <= m /\ j <= m => i = j
    BY <2>1 DEF Distinct, m
  <2>3. ~ (i <= m) /\ ~ (j <= m) => i = j
    BY <1>1, <1>2, <2>1
  <2>4. i <= m => j <= m
    BY <1>1, <1>2, <1>3, <2>1 DEF PageId
  <2>5. j <= m => i <= m
    BY <1>1, <1>2, <1>3, <2>1 DEF PageId
  <2> QED  BY <2>2, <2>3, <2>4, <2>5
<1> HIDE DEF m
<1>6. ASSUME NEW x \in Range(all)
      PROVE  x \in Range(ids) \cup next .. next + more - 1
  <2>1. PICK i \in 1 .. Len(all) : all[i] = x
    BY <1>4
  <2>2. CASE i <= m
    BY <1>1, <1>2, <1>3, <2>1, <2>2
  <2>3. CASE ~ (i <= m)
    <3>1. x = next + (i - m) - 1
      BY <1>1, <2>1, <2>3
    <3> QED  BY <1>1, <1>2, <2>3, <3>1
  <2> QED  BY <2>2, <2>3
<1>7. ASSUME NEW x \in Range(ids)
      PROVE  x \in Range(all)
  <2>1. PICK i \in 1 .. m : ids[i] = x
    BY <1>3
  <2>2. i \in 1 .. Len(all)
    BY <1>1, <1>2
  <2> QED  BY <1>1, <1>4, <2>1, <2>2
<1>8. ASSUME NEW x \in next .. next + more - 1
      PROVE  x \in Range(all)
  <2>1. /\ x - next + m + 1 \in 1 .. Len(all) /\ ~ (x - next + m + 1 <= m)
        /\ next + ((x - next + m + 1) - m) - 1 = x
    BY <1>1, <1>2
  <2> QED  BY <1>1, <1>4, <2>1
<1>9. Range(all) = Range(ids) \cup next .. next + more - 1
  BY <1>6, <1>7, <1>8
<1>10. Len(all) \in Nat /\ m <= Len(all)
  BY <1>1, <1>2
<1> QED  BY <1>1, <1>2, <1>5, <1>9, <1>10 DEF all, more, m

\* Folding and the gate: what was freed is on the lists, with what was there,
\* and nothing is lost.
LEMMA FoldApart ==
    ASSUME TypesHold, Sound, FoldAndGate
    PROVE  LET new == next_page_id .. next_page_id' - 1
           IN  /\ ListsApart'
               /\ Range(free_list') \cup Range(pending_free')
                     = Range(free_list) \cup Range(pending_free) \cup Range(txn.freed)
               /\ readers # 0 => free_list' = free_list
               /\ Range(free_list_page_ids') = Range(free_list_page_ids) \cup new
               /\ next_page_id \in Nat /\ next_page_id' \in Nat
               /\ next_page_id <= next_page_id'
<1>0. ListTypes /\ TxnTypes /\ TreeTypes
  BY DEF TypesHold
<1>1. pc = "writing"
  BY DEF FoldAndGate
<1>2. ListsApart /\ PutUnderWay /\ Outside(DOMAIN tree)
  BY <1>1 DEF Sound, Booting, TreeWhole, PutApart
<1> DEFINE n == PagesNeeded(free_list' \o pending_free')
           more == Missing(free_list_page_ids, n)
           new == next_page_id .. next_page_id' - 1
<1>3. /\ IF readers = 0
         THEN free_list' = free_list \o (pending_free \o txn.freed) /\ pending_free' = <<>>
         ELSE free_list' = free_list /\ pending_free' = pending_free \o txn.freed
      /\ n \in Nat /\ free_list_page_ids' = ChainPages(free_list_page_ids, n, next_page_id)
      /\ next_page_id' = next_page_id + more
  BY <1>0, FoldDone
<1> HIDE DEF n
<1>4. free_list \in Seq(PageId) /\ pending_free \in Seq(PageId) /\ txn.freed \in Seq(PageId)
      /\ free_list_page_ids \in Seq(PageId)
  BY <1>0 DEF ListTypes, TxnTypes
<1>5. next_page_id \in PageId
  BY <1>0, <1>1 DEF TreeTypes, IsOpen
<1>6. /\ more \in Nat /\ Distinct(free_list_page_ids')
      /\ Range(free_list_page_ids') = Range(free_list_page_ids)
                                        \cup next_page_id .. (next_page_id + more) - 1
  <2>1. Distinct(free_list_page_ids) /\ Under(Range(free_list_page_ids), next_page_id)
    BY <1>2 DEF ListsApart
  <2> DEFINE all == ChainPages(free_list_page_ids, n, next_page_id)
             end == next_page_id + more
  <2>2. /\ more \in Nat /\ Distinct(all)
        /\ Range(all) = Range(free_list_page_ids) \cup next_page_id .. end - 1
    BY <1>3, <1>4, <1>5, <2>1, ChainPagesApart, Zenon
  <2> HIDE DEF all, more
  <2> QED  BY <1>3, <2>2, Zenon DEF all
<1> HIDE DEF more
<1>7. /\ next_page_id \in Nat /\ next_page_id' \in Nat /\ next_page_id <= next_page_id'
  BY <1>3, <1>5, <1>6 DEF PageId
<1>8. Range(free_list_page_ids') = Range(free_list_page_ids) \cup new
  BY <1>3, <1>6, Zenon
<1>9. /\ Distinct(txn.freed) /\ Range(txn.freed) \cap Range(free_list) = {}
      /\ Range(txn.freed) \cap Range(pending_free) = {}
      /\ Range(txn.freed) \cap Range(free_list_page_ids) = {}
      /\ Under(Range(txn.freed), next_page_id)
  BY <1>2 DEF PutUnderWay, Outside, Under
<1>10. /\ pending_free \o txn.freed \in Seq(PageId)
       /\ Distinct(pending_free \o txn.freed)
       /\ Range(pending_free \o txn.freed) = Range(pending_free) \cup Range(txn.freed)
  BY <1>2, <1>4, <1>9, ConcatProperties, DistinctConcat, RangeConcatenation DEF ListsApart
<1>11. /\ Distinct(free_list \o (pending_free \o txn.freed))
       /\ Range(free_list \o (pending_free \o txn.freed))
             = Range(free_list) \cup Range(pending_free) \cup Range(txn.freed)
  <2>1. Range(free_list) \cap Range(pending_free \o txn.freed) = {}
    BY <1>2, <1>9, <1>10 DEF ListsApart
  <2>2. Distinct(free_list)
    BY <1>2 DEF ListsApart
  <2> DEFINE folded == pending_free \o txn.freed
  <2> HIDE DEF folded
  <2>3. folded \in Seq(PageId) /\ Distinct(folded) /\ Range(free_list) \cap Range(folded) = {}
        /\ Range(folded) = Range(pending_free) \cup Range(txn.freed)
    BY <1>10, <2>1 DEF folded
  <2>4. Distinct(free_list \o folded)
    BY <1>4, <2>2, <2>3, DistinctConcat
  <2>5. Range(free_list \o folded) = Range(free_list) \cup Range(folded)
    BY <1>4, <2>3, RangeConcatenation
  <2> QED  BY <2>3, <2>4, <2>5 DEF folded
<1>12. /\ Range(free_list') \cup Range(pending_free')
             = Range(free_list) \cup Range(pending_free) \cup Range(txn.freed)
       /\ Distinct(free_list') /\ Distinct(pending_free')
       /\ Range(free_list') \cap Range(pending_free') = {}
  <2>1. CASE readers = 0
    <3>1. Distinct(<<>>)
      BY DEF Distinct
    <3> QED  BY <1>3, <1>11, <2>1, <3>1, EmptyRange
  <2>2. CASE readers # 0
    BY <1>2, <1>3, <1>9, <1>10, <2>2 DEF ListsApart
  <2> QED  BY <2>1, <2>2
<1> DEFINE old == Range(free_list) \cup Range(pending_free) \cup Range(txn.freed)
<1>13. /\ Under(old, next_page_id) /\ old \subseteq PageId
       /\ old \cap Range(free_list_page_ids) = {}
  <2>1. old \subseteq PageId
    BY <1>4, RangeIs
  <2> QED  BY <1>2, <1>9, <2>1 DEF ListsApart, Under
<1>14. Under(old, next_page_id')
  <2> HIDE DEF old
  <2> QED  BY <1>7, <1>13 DEF Under, PageId
<1>15. old \cap new = {}
  <2> HIDE DEF old
  <2> QED  BY <1>7, <1>13 DEF Under
<1>16. Under(Range(free_list_page_ids'), next_page_id')
  <2>1. Range(free_list_page_ids) \subseteq PageId
    BY <1>4, RangeIs
  <2> QED  BY <1>2, <1>7, <1>8, <2>1 DEF ListsApart, Under, PageId
<1>17. /\ Range(free_list') \subseteq old /\ Range(pending_free') \subseteq old
  BY <1>12
<1> HIDE DEF old, new
<1>18. ListsApart'
  BY <1>6, <1>8, <1>12, <1>13, <1>14, <1>15, <1>16, <1>17 DEF ListsApart, Under
<1> QED  BY <1>3, <1>7, <1>8, <1>12, <1>18 DEF new

\* What the put freed is freed for nobody who reads it: either no reader is
\* registered or it stays pending.
LEMMA FoldAndGateSound ==
    ASSUME TypesHold, Sound, FoldAndGate
    PROVE  Sound'
<1>0. ListTypes /\ FileTypes /\ TxnTypes /\ TreeTypes /\ HeaderTypes /\ ReaderTypes
  BY DEF TypesHold
<1> DEFINE payload == free_list' \o pending_free'
           n == PagesNeeded(payload)
           ids == free_list_page_ids'
           new == next_page_id .. next_page_id' - 1
           old == Range(free_list) \cup Range(pending_free) \cup Range(txn.freed)
<1>1. /\ UNCHANGED <<disk, header, tree>> /\ UNCHANGED readerVars
      /\ txn.writes = <<>> /\ pc = "writing" /\ pc' = "chain"
  BY DEF FoldAndGate, fileVars, PagesLeft
<1>2. /\ ListsApart /\ TreeWhole /\ PutApart /\ HeaderTrue /\ ReadersApart
      /\ ~Booting' /\ ~Booting
  BY <1>1 DEF Sound, Booting
<1>3. /\ payload \in Seq(PageId) /\ n \in Nat /\ n <= Len(ids) /\ ids \in Seq(PageId)
      /\ ids = ChainPages(free_list_page_ids, n, next_page_id)
      /\ txn' = [root |-> txn.root, tree |-> txn.tree, writes |-> txn.writes,
                 freed |-> <<>>, chain |-> ChainWrites(payload, ids),
                 head |-> IF n > 0 THEN ids[1] ELSE 0,
                 promoted |-> (readers = 0), rewritten |-> txn.rewritten]
  BY <1>0, FoldDone
<1>4. /\ ListsApart' /\ Range(free_list') \cup Range(pending_free') = old
      /\ readers # 0 => free_list' = free_list
      /\ Range(ids) = Range(free_list_page_ids) \cup new
      /\ next_page_id \in Nat /\ next_page_id' \in Nat
      /\ next_page_id <= next_page_id'
  BY FoldApart
<1>5. /\ txn'.tree = txn.tree /\ txn'.writes = <<>> /\ txn'.rewritten = txn.rewritten
      /\ txn'.promoted = (readers = 0) /\ txn'.chain = ChainWrites(payload, ids)
      /\ txn'.head = IF n > 0 THEN ids[1] ELSE 0
  BY <1>1, <1>3
<1>6. \A p \in new : ~ (p < next_page_id)
  BY <1>4
<1> HIDE DEF payload, n, ids, new
<1>7. Outside(DOMAIN tree) /\ PutUnderWay /\ Outside(DOMAIN txn.tree) /\ ~txn.rewritten
  BY <1>1, <1>2 DEF TreeWhole, PutApart, InPut
<1>8. DOMAIN tree \subseteq PageId /\ DOMAIN txn.tree \subseteq PageId
  BY <1>0 DEF TreeTypes, TxnTypes, IsTree
<1>9. TreeWhole'
  <2>1. Intact(tree)'
    BY <1>1, <1>2 DEF TreeWhole, Intact
  <2>2. DOMAIN tree \cap Range(ids) = {}
    BY <1>4, <1>6, <1>7 DEF Outside, Under
  <2>3. Under(DOMAIN tree, next_page_id')
    BY <1>4, <1>7, <1>8 DEF Outside, Under, PageId
  <2>4. ~txn'.promoted => DOMAIN tree \cap Range(free_list') = {}
    BY <1>4, <1>5, <1>7 DEF Outside
  <2> QED  BY <1>1, <2>1, <2>2, <2>3, <2>4 DEF TreeWhole, ids
<1>10. PutApart'
  <2>1. Intact(txn.tree)
    BY <1>1, <1>7, EmptyRange DEF PutUnderWay, Intact
  <2>2. Intact(txn.tree)'
    BY <1>1, <1>5, <2>1 DEF Intact
  <2>3. /\ DOMAIN txn.tree \cap old = {}
        /\ DOMAIN txn.tree \cap Range(ids) = {}
    BY <1>4, <1>6, <1>7 DEF Outside, Under, PutUnderWay
  <2>4. Under(DOMAIN txn.tree, next_page_id')
    BY <1>4, <1>7, <1>8 DEF Outside, Under, PageId
  <2>5. Outside(DOMAIN txn.tree)'
    BY <1>4, <1>5, <2>3, <2>4 DEF Outside, ids
  <2> QED  BY <1>1, <1>5, <2>2, <2>5 DEF PutApart, InPut
<1>11. ChainGoesOn'
  <2>1. /\ Len(txn'.chain) = n
        /\ \A i \in 1 .. n : /\ txn'.chain[i].page = ids[i]
                             /\ txn'.chain[i].content = LinkOf(payload, ids, i)
    BY <1>3, <1>5, ChainWritesIs DEF LinkOf, n
  <2>2. /\ n - 0 = n /\ 0 \in 0 .. n /\ \A i \in 1 .. n : 0 + i = i
        /\ \A i \in 1 .. 0 : FALSE
    BY <1>3
  <2> DEFINE first(k) == ChainWritten(k)'
  <2>3. first(0)
    BY <2>1, <2>2 DEF ChainWritten, OnDisk, payload, ids, n
  <2>4. (\E k \in 0 .. PagesNeeded(free_list \o pending_free) : ChainWritten(k))'
    <3>1. PICK k \in 0 .. n : k = 0
      BY <2>2
    <3>2. ChainWritten(k)'
      BY <2>1, <2>2, <3>1 DEF ChainWritten, OnDisk, payload, ids, n
    <3> QED  BY <3>2 DEF n, payload
  <2> QED  BY <1>3, <1>5, <2>4 DEF ChainGoesOn, n, ids, payload
<1>12. HeaderTrue'
  <2>1. header.next \in Nat
    BY <1>0, <1>2 DEF HeaderTypes, NoHeader, PageId
  <2>2. /\ Len(free_list_page_ids) <= Len(ids)
        /\ \A i \in 1 .. Len(free_list_page_ids) : ids[i] = free_list_page_ids[i]
    <3>1. next_page_id \in PageId /\ free_list_page_ids \in Seq(PageId)
      BY <1>0, <1>1 DEF TreeTypes, ListTypes, IsOpen
    <3> DEFINE all == ChainPages(free_list_page_ids, n, next_page_id)
               more == Missing(free_list_page_ids, n)
    <3>2. /\ more \in Nat /\ Len(all) = Len(free_list_page_ids) + more
          /\ \A i \in 1 .. Len(free_list_page_ids) : all[i] = free_list_page_ids[i]
      BY <1>3, <3>1, ChainPagesIs
    <3>3. Len(free_list_page_ids) \in Nat
      BY <3>1, LenProperties
    <3>4. ids = all
      BY <1>3
    <3> HIDE DEF all, more
    <3> QED  BY <3>2, <3>3, <3>4
  <2>3. free_list_page_ids \in Seq(PageId)
    BY <1>0 DEF ListTypes
  <2> QED  BY <1>1, <1>2, <1>3, <1>4, <1>5, <2>1, <2>2, <2>3, HeaderKept DEF ids
<1>13. ReadersApart'
  <2>1. CASE readers = 0
    <3>1. Registered = {}
      BY <1>0, <2>1, FS_EmptySet DEF ReaderTypes
    <3>2. \A r \in Reader : phase'[r] # "reading"
      BY <1>1, <3>1 DEF Registered, readerVars
    <3> QED  BY <3>2 DEF ReadersApart
  <2>2. CASE readers # 0
    <3>1. \A p \in MayWrite' : p \in MayWrite \/ ~ (p < next_page_id)
      BY <1>4, <1>5, <1>6, <2>2, EmptyRange DEF MayWrite, ids
    <3> QED  BY <1>0, <1>1, <1>2, <1>4, <3>1, ReadersKept
  <2> QED  BY <2>1, <2>2
<1> QED  BY <1>1, <1>2, <1>4, <1>9, <1>10, <1>11, <1>12, <1>13 DEF Sound

\* The next process has the header's tree, whole.
LEMMA HeaderTreeWhole ==
    ASSUME TypesHold, Sound, ~Booting
    PROVE  /\ Intact(header.tree)
           /\ DOMAIN header.tree \cap Range(free_list_page_ids) = {}
           /\ header.tree = IF pc = "publish" THEN txn.tree ELSE tree
<1>1. TreeWhole /\ PutApart /\ HeaderTrue
  BY DEF Sound
<1>2. header.tree = IF pc = "publish" THEN txn.tree ELSE tree
  BY <1>1 DEF HeaderTrue
<1>3. CASE pc = "publish"
  <2>1. Intact(txn.tree) /\ Outside(DOMAIN txn.tree)
    BY <1>1, <1>3 DEF PutApart, InPut
  <2> QED  BY <1>2, <1>3, <2>1 DEF Outside
<1>4. CASE pc # "publish"
  BY <1>1, <1>2, <1>4 DEF TreeWhole
<1> QED  BY <1>2, <1>3, <1>4

\* A page that may be half copied is one that the put or the chain may write
\* to, in no published tree, and, unless it is the header's chain that is
\* being overwritten, in no chain that is in use.
LEMMA CopyingApart ==
    ASSUME TypesHold, Sound, NEW p \in Copying
    PROVE  /\ p \notin DOMAIN tree /\ pc \notin {"publish", "poisoned"}
           /\ ~Booting => /\ p \in MayWrite
                          /\ p # header.head /\ ~txn.rewritten =>
                                \A payload \in Seq(PageId) : Saved(payload) =>
                                   \A i \in 1 .. PagesNeeded(payload) :
                                      free_list_page_ids[i] # p
<1>0. ListTypes /\ TxnTypes
  BY DEF TypesHold
<1>1. /\ p \in PageId
      /\ \/ pc = "boot" /\ p = 1
         \/ pc = "writing" /\ p \in Range(txn.writes)
         \/ pc = "chain" /\ txn.chain # <<>> /\ p = txn.chain[1].page
  BY <1>0, CopyingIs
<1>2. ASSUME NEW payload \in Seq(PageId), Saved(payload)
      PROVE  /\ PagesNeeded(payload) \in Nat
             /\ header.head = IF PagesNeeded(payload) > 0 THEN free_list_page_ids[1] ELSE 0
             /\ \A i \in 1 .. PagesNeeded(payload) :
                   /\ free_list_page_ids[i] \in Range(free_list_page_ids)
                   /\ free_list_page_ids[i] \in PageId
  <2>1. /\ free_list_page_ids \in Seq(PageId) /\ Len(free_list_page_ids) \in Nat
        /\ \A i \in 1 .. Len(free_list_page_ids) :
              /\ free_list_page_ids[i] \in Range(free_list_page_ids)
              /\ free_list_page_ids[i] \in PageId
    BY <1>0, LenProperties, RangeIs, ElementOfSeq DEF ListTypes
  <2>2. /\ PagesNeeded(payload) \in Nat
        /\ PagesNeeded(payload) <= Len(free_list_page_ids)
        /\ header.head = IF PagesNeeded(payload) > 0 THEN free_list_page_ids[1] ELSE 0
    BY <1>2, PagesSuffice DEF Saved
  <2>3. \A i \in 1 .. PagesNeeded(payload) : i \in 1 .. Len(free_list_page_ids)
    BY <2>1, <2>2
  <2> QED  BY <2>1, <2>2, <2>3
<1>3. CASE pc = "boot"
  <2>1. tree = <<>> /\ DOMAIN <<>> = {}
    BY <1>3 DEF Sound, Booting, Empty
  <2> QED  BY <1>3, <2>1 DEF Booting
<1>4. CASE pc = "writing"
  <2>1. p \in Range(txn.writes) /\ p \in DOMAIN txn.tree
    BY <1>0, <1>1, <1>4 DEF TxnTypes
  <2>2. p \notin DOMAIN tree /\ p \notin Range(free_list_page_ids)
    BY <1>4, <2>1 DEF Sound, Booting, PutApart, PutUnderWay, InPut, Outside
  <2> QED  BY <1>2, <1>4, <2>1, <2>2 DEF MayWrite
<1>5. CASE pc = "chain"
  <2>1. ChainGoesOn /\ TreeWhole /\ HeaderTrue
    BY <1>5 DEF Sound, Booting
  <2>2. PICK k \in 0 .. PagesNeeded(free_list \o pending_free) : ChainWritten(k)
    BY <1>5, <2>1 DEF ChainGoesOn
  <2>3. /\ k \in Nat /\ p = free_list_page_ids[k + 1]
        /\ p \in Range(free_list_page_ids)
    BY <1>1, <1>5, <2>2, ChainPageIs
  <2>4. k > 0 /\ header.head # 0 => txn.rewritten
    BY <2>2 DEF ChainWritten
  <2>5. ASSUME p # header.head, ~txn.rewritten,
               NEW payload \in Seq(PageId), Saved(payload),
               NEW i \in 1 .. PagesNeeded(payload)
        PROVE  FALSE
    <3>1. PagesNeeded(payload) > 0 /\ 1 \in 1 .. PagesNeeded(payload)
      BY <1>2, <2>5
    <3>2. header.head = free_list_page_ids[1] /\ header.head # 0
      BY <1>2, <2>5, <3>1 DEF PageId
    <3>3. k = 0
      BY <2>3, <2>4, <2>5, <3>2
    <3> QED  BY <2>3, <2>5, <3>2, <3>3
  <2>6. p \notin DOMAIN tree
    BY <2>1, <2>3 DEF TreeWhole
  <2> QED  BY <1>5, <2>3, <2>5, <2>6 DEF MayWrite
<1> QED  BY <1>1, <1>3, <1>4, <1>5

\* What a process leaves that ends without tearing anything: the header, its
\* tree and its chain, all as they were.
LEMMA LeftSound ==
    ASSUME TypesHold, Sound, ~Booting, FileLeft, ~torn'
    PROVE  /\ header' = header
           /\ \A p \in DOMAIN header.tree :
                 p \in DOMAIN disk' /\ disk'[p] = NodePage(header.tree[p])
           /\ \E payload \in Seq(PageId) :
                 /\ Saved(payload)
                 /\ OnDisk(disk', payload, free_list_page_ids, PagesNeeded(payload))
<1>1. /\ header' = header /\ ~txn.rewritten
      /\ \/ disk' = disk
         \/ \E p \in Copying : disk' = Put(disk, p, Scrap) /\ p # header.head
  BY DEF FileLeft
<1>2. PICK payload \in Seq(PageId) : Saved(payload)
  BY <1>1 DEF Sound, HeaderTrue
<1>3. OnDisk(disk, payload, free_list_page_ids, PagesNeeded(payload))
  BY <1>2 DEF Saved
<1>4. Intact(header.tree) /\ header.tree = IF pc = "publish" THEN txn.tree ELSE tree
  BY HeaderTreeWhole
<1>5. CASE disk' = disk
  BY <1>1, <1>2, <1>3, <1>4, <1>5 DEF Intact
<1>6. ASSUME NEW p \in Copying, disk' = Put(disk, p, Scrap), p # header.head
      PROVE  /\ \A q \in DOMAIN header.tree :
                   q \in DOMAIN disk' /\ disk'[q] = NodePage(header.tree[q])
             /\ OnDisk(disk', payload, free_list_page_ids, PagesNeeded(payload))
  <2>1. /\ p \notin DOMAIN header.tree
        /\ \A i \in 1 .. PagesNeeded(payload) : free_list_page_ids[i] # p
    BY <1>1, <1>2, <1>4, <1>6, CopyingApart
  <2>2. \A q \in DOMAIN disk : q # p => q \in DOMAIN disk' /\ disk'[q] = disk[q]
    BY <1>6 DEF Put
  <2> QED  BY <1>3, <1>4, <2>1, <2>2 DEF Intact, OnDisk
<1> QED  BY <1>1, <1>2, <1>5, <1>6

\* The chain that the header points to is read as it was saved.
LEMMA HeaderReads ==
    ASSUME TypesHold, Sound, ~Booting, NEW on, IsFiniteSet(DOMAIN on),
           NEW payload \in Seq(PageId), Saved(payload),
           OnDisk(on, payload, free_list_page_ids, PagesNeeded(payload))
    PROVE  LET n     == PagesNeeded(payload)
               chain == Chain(on, header.head)
           IN  /\ n \in Nat
               /\ chain = [i \in 1 .. n |-> free_list_page_ids[i]] /\ Len(chain) = n
               /\ Linked(on, chain) /\ Ends(on, chain) /\ Entries(on, chain) = payload
<1>1. free_list_page_ids \in Seq(PageId) /\ Distinct(free_list_page_ids)
  BY DEF TypesHold, ListTypes, Sound, ListsApart
<1>2. /\ PagesNeeded(payload) <= Len(free_list_page_ids)
      /\ header.head = IF PagesNeeded(payload) > 0 THEN free_list_page_ids[1] ELSE 0
  BY DEF Saved
<1> DEFINE n == PagesNeeded(payload)
           chain == Chain(on, IF n > 0 THEN free_list_page_ids[1] ELSE 0)
<1>3. /\ n \in Nat
      /\ chain = [i \in 1 .. n |-> free_list_page_ids[i]] /\ Len(chain) = n
      /\ Linked(on, chain) /\ Ends(on, chain) /\ Entries(on, chain) = payload
  BY <1>1, <1>2, ChainHolds
<1>4. chain = Chain(on, header.head)
  BY <1>2
<1> HIDE DEF n, chain
<1> QED  BY <1>3, <1>4 DEF n

\* The next process finds what the header describes.
LEMMA RestartSound ==
    ASSUME TypesHold, Sound, Reopen \/ Crash, ~torn'
    PROVE  Sound'
<1>0. ListTypes /\ FileTypes /\ TxnTypes /\ HeaderTypes /\ TreeTypes /\ pc # "dead"
  BY DEF TypesHold, Sound
<1>1. /\ FileLeft /\ NoReaders /\ txn' = NoTxn
      /\ \/ OpensAgainWith(Chain(disk', header'.head))
         \/ FailsToOpen(Chain(disk', header'.head))
         \/ StartsAfresh
  BY <1>0, RestartDone DEF FailsAtHeader
<1>2. header' = header
  BY <1>1 DEF FileLeft
<1>3. \A r \in Reader : phase'[r] = "idle"
  BY <1>1 DEF NoReaders
<1>4. CASE StartsAfresh
  <2>1. /\ UNCHANGED <<tree, free_list, pending_free, free_list_page_ids>>
        /\ pc' = "boot" /\ Booting /\ Booting'
    BY <1>0, <1>2, <1>4 DEF StartsAfresh, HeaderTypes, Booting
  <2>2. Empty
    BY <2>1 DEF Sound
  <2>3. Empty'
    BY <1>1, <1>3, <2>1, <2>2 DEF Empty, Lists
  <2> QED  BY <2>1, <2>3 DEF Sound
<1>5. CASE ~StartsAfresh
  <2> DEFINE chain == Chain(disk', header.head)
  <2>1. ~Booting
    BY <1>0, <1>1, <1>2, <1>5 DEF OpensAgainWith, FailsToOpen, HeaderTypes
  <2>2a. PICK payload \in Seq(PageId) :
           /\ Saved(payload)
           /\ OnDisk(disk', payload, free_list_page_ids, PagesNeeded(payload))
    BY <1>1, <2>1, LeftSound
  <2>2b. IsFiniteSet(DOMAIN disk')
    BY <1>0, <1>1, FileLeftTypes
  <2>2. /\ PagesNeeded(payload) \in Nat
        /\ chain = [i \in 1 .. PagesNeeded(payload) |-> free_list_page_ids[i]]
        /\ Len(chain) = PagesNeeded(payload)
        /\ Linked(disk', chain) /\ Ends(disk', chain) /\ Entries(disk', chain) = payload
    BY <2>1, <2>2a, <2>2b, HeaderReads
  <2> DEFINE n == PagesNeeded(payload)
             used == {free_list_page_ids[i] : i \in 1 .. n}
  <2>3. OpensAgainWith(chain)
    BY <1>1, <1>2, <1>5, <2>2 DEF FailsToOpen
  <2> HIDE DEF chain
  <2>4. /\ pc' = "idle" /\ tree' = header.tree /\ next_page_id' = header.next
        /\ free_list_page_ids' = chain /\ free_list' = payload /\ pending_free' = <<>>
    BY <1>2, <2>2, <2>3 DEF OpensAgainWith
  <2>5. /\ n \in Nat /\ Len(chain) = n /\ chain = [i \in 1 .. n |-> free_list_page_ids[i]]
    BY <2>2
  <2>6. /\ n <= Len(free_list_page_ids) /\ Len(free_list_page_ids) \in Nat
        /\ header.head = IF n > 0 THEN free_list_page_ids[1] ELSE 0
        /\ Distinct(payload)
        /\ Range(payload) \cap used = {}
        /\ Range(payload) \cap DOMAIN header.tree = {}
        /\ Under(Range(payload), header.next) /\ Under(used, header.next)
        /\ OnDisk(disk', payload, free_list_page_ids, n)
    BY <1>0, <2>2a, LenProperties DEF Saved, ListTypes
  <2>7. ListsApart /\ HeaderTrue
    BY <2>1 DEF Sound
  <2>8. /\ \A p \in DOMAIN header.tree :
              p \in DOMAIN disk' /\ disk'[p] = NodePage(header.tree[p])
        /\ DOMAIN header.tree \cap Range(free_list_page_ids) = {}
    BY <1>1, <2>1, HeaderTreeWhole, LeftSound
  <2>9. /\ Range(chain) = used /\ used \subseteq Range(free_list_page_ids)
    <3> HIDE DEF n
    <3>1. Range(chain) = used
      BY <2>5 DEF Range
    <3>2. free_list_page_ids \in Seq(PageId) /\ \A i \in 1 .. n : i \in 1 .. Len(free_list_page_ids)
      BY <1>0, <2>5, <2>6 DEF ListTypes
    <3> QED  BY <3>1, <3>2, RangeIs
  <2>10. Distinct(chain)
    <3> HIDE DEF n
    <3>1. \A i \in 1 .. n : i \in 1 .. Len(free_list_page_ids)
      BY <2>5, <2>6
    <3> QED  BY <2>5, <2>7, <3>1 DEF ListsApart, Distinct
  <2> HIDE DEF used
  <2>11. ListsApart'
    <3>1. Distinct(<<>>) /\ Under({}, header.next)
      BY DEF Distinct, Under
    <3> QED  BY <2>4, <2>6, <2>9, <2>10, <3>1, EmptyRange DEF ListsApart
  <2>12. Under(DOMAIN header.tree, header.next)
    BY <2>7 DEF HeaderTrue
  <2>13. TreeWhole'
    <3>1. Intact(tree)'
      BY <2>4, <2>8 DEF Intact
    <3>2. DOMAIN header.tree \cap Range(chain) = {}
      BY <2>8, <2>9
    <3>3. Outside(DOMAIN tree)'
      BY <2>4, <2>6, <2>12, <3>2, EmptyRange DEF Outside
    <3> QED  BY <2>4, <3>1, <3>3 DEF TreeWhole, Outside
  <2>14. PutApart'
    <3>1. /\ txn'.tree = <<>> /\ txn'.writes = <<>> /\ ~txn'.promoted /\ ~txn'.rewritten
      BY <1>1, NoTxnIs
    <3> QED  BY <2>4, <3>1 DEF PutApart, InPut
  <2>15. ChainGoesOn'
    BY <2>4 DEF ChainGoesOn
  <2>16. HeaderTrue'
    <3> DEFINE used2 == {chain[i] : i \in 1 .. n}
    <3>1. \A i \in 1 .. n : chain[i] = free_list_page_ids[i]
      BY <2>5
    <3>2. used2 = used
      BY <3>1 DEF used
    <3>3. header.head = IF n > 0 THEN chain[1] ELSE 0
      <4> HIDE DEF n
      <4> QED  BY <2>5, <2>6, <3>1
    <3>4. OnDisk(disk', payload, chain, n)
      <4>1. ASSUME NEW i \in 1 .. n
            PROVE  LinkOf(payload, chain, i) = LinkOf(payload, free_list_page_ids, i)
        <5>1. i < n => i + 1 \in 1 .. n
          <6> HIDE DEF n
          <6> QED  BY <2>5
        <5>2. i < n => chain[i + 1] = free_list_page_ids[i + 1]
          BY <3>1, <5>1
        <5> QED  BY <5>2 DEF LinkOf
      <4> QED  BY <2>6, <3>1, <4>1 DEF OnDisk
    <3>5. n <= Len(chain)
      <4> HIDE DEF n
      <4> QED  BY <2>5
    <3>6. Saved(payload)'
      <4>1. /\ n <= Len(chain) /\ header.head = (IF n > 0 THEN chain[1] ELSE 0)
            /\ Distinct(payload) /\ Range(payload) \cap used2 = {}
            /\ Range(payload) \cap DOMAIN header.tree = {}
            /\ Under(Range(payload), header.next) /\ Under(used2, header.next)
            /\ OnDisk(disk', payload, chain, n)
        BY <2>6, <3>2, <3>3, <3>4, <3>5
      <4> QED  BY <1>2, <2>4, <4>1 DEF Saved, OnDisk, LinkOf
    <3>7. header.next \in Nat
      BY <1>0, <2>1 DEF HeaderTypes, NoHeader, PageId
    <3>8. (\E load \in Seq(PageId) : Saved(load))'
      BY <3>6
    <3> QED  BY <1>2, <2>4, <2>12, <3>7, <3>8 DEF HeaderTrue
  <2>17. ReadersApart'
    BY <1>3 DEF ReadersApart
  <2>18. ~Booting' /\ pc' # "dead"
    BY <2>4 DEF Booting
  <2> QED  BY <2>11, <2>13, <2>14, <2>15, <2>16, <2>17, <2>18 DEF Sound
<1> QED  BY <1>4, <1>5

\* A step that changes nothing.
LEMMA StutterSound ==
    ASSUME TypesHold, Sound, UNCHANGED vars
    PROVE  Sound'
<1>1. /\ UNCHANGED <<writerVars, fileVars, pc, txn, tree>> /\ UNCHANGED <<phase, snap, exposed>>
      /\ UNCHANGED <<free_list, pending_free, free_list_page_ids, next_page_id, disk>>
  BY DEF vars, writerVars, fileVars, readerVars
<1>2. CASE Booting
  <2>1. Empty'
    BY <1>1, <1>2 DEF Sound, Empty, Lists
  <2> QED  BY <1>1, <1>2, <2>1 DEF Sound, Booting
<1>3. CASE ~Booting
  <2>1. ListsApart' /\ TreeWhole' /\ PutApart' /\ ChainGoesOn' /\ HeaderTrue'
    BY <1>1, <1>3, WriterUnmoved
  <2>2. ReadersApart'
    BY <1>1, <1>3 DEF Sound, ReadersApart, Clear, Intact, MayWrite
  <2> QED  BY <1>1, <1>3, <2>1, <2>2 DEF Sound, Booting
<1> QED  BY <1>2, <1>3

\* Every step that tears no chain leaves the store sound.
LEMMA SoundStep ==
    ASSUME TypesHold, Sound, [Next]_vars, ~torn'
    PROVE  Sound'
<1>1. CASE \E r \in Reader : Read(r)
  BY <1>1, ReadSound
<1>2. CASE BeginPut
  <2>1. PICK path \in Paths : \E k \in 0 .. Height : BeginPutOn(path, k)
    BY <1>2 DEF BeginPut
  <2> QED  BY <2>1, BeginPutSound
<1>3. CASE WritePage
  BY <1>3, WritePageSound
<1>4. CASE FoldAndGate
  BY <1>4, FoldAndGateSound
<1>5. CASE WriteChainPage
  BY <1>5, WriteChainPageSound
<1>6. CASE WriteHeader
  BY <1>6, WriteHeaderSound
<1>7. CASE Publish
  BY <1>7, PublishSound
<1>8. CASE HitCeiling
  BY <1>8, HitCeilingSound
<1>9. CASE BootRoot \/ BootHeader
  BY <1>9, BootSound
<1>10. CASE Reopen \/ Crash
  BY <1>10, RestartSound
<1>11. CASE UNCHANGED vars
  BY <1>11, StutterSound
<1> QED  BY <1>1, <1>2, <1>3, <1>4, <1>5, <1>6, <1>7, <1>8, <1>9, <1>10, <1>11
         DEF Next, Write

\* Once a chain was torn, it stays so; it takes the end of a process.
LEMMA TornStays ==
    ASSUME TypesHold, [Next]_vars
    PROVE  /\ ~torn' => ~torn
           /\ Reopen \/ Crash \/ (torn' = torn /\ reopens' = reopens /\ crashes' = crashes)
<1>1. CASE Reopen \/ Crash
  BY <1>1, RestartDone DEF TypesHold, StateTypes, FileLeft, FailsAtHeader
<1>2. CASE UNCHANGED vars \/ \E r \in Reader : Read(r)
  BY <1>2 DEF Read, EnterRead, LoadRoot, DropRead, countVars, vars
<1>3. CASE BeginPut
  BY <1>3 DEF BeginPut, BeginPutOn
<1>4. CASE WritePage \/ FoldAndGate \/ WriteChainPage \/ WriteHeader \/ Publish
           \/ HitCeiling \/ BootRoot \/ BootHeader
  BY <1>4 DEF WritePage, FoldAndGate, WriteChainPage, WriteHeader, Publish,
              HitCeiling, BootRoot, BootHeader, countVars
<1> QED  BY <1>1, <1>2, <1>3, <1>4 DEF Next, Write

\* The store's inductive invariant.
StoreInv == TypesHold /\ (~torn => Sound)

\* It is inductive.
LEMMA StoreInvStep == StoreInv /\ [Next]_vars => StoreInv'
<1> SUFFICES ASSUME StoreInv, [Next]_vars
             PROVE  StoreInv'
  OBVIOUS
<1>1. TypesHold
  BY DEF StoreInv
<1>2. TypesHold'
  BY <1>1, TypesStep
<1>3. ~torn' => Sound'
  BY <1>1, SoundStep, TornStays DEF StoreInv
<1> QED  BY <1>2, <1>3 DEF StoreInv

\* It holds always.
THEOREM StoreInvHolds == Spec => []StoreInv
<1>1. Init => StoreInv
  BY InitTypes, StartSound DEF StoreInv
<1> QED  BY <1>1, StoreInvStep, PTL DEF Spec

---------------------------------------------------------------------------
(* What follows for the store. *)

\* Unless a chain was torn, the published root's tree is on disk as it was
\* committed, and no page of it is being written.
THEOREM RootStaysReadable == Spec => []RootIsReadable
<1>1. StoreInv => RootIsReadable
  <2> SUFFICES ASSUME StoreInv, ~torn
               PROVE  Intact(tree) /\ DOMAIN tree \cap Copying = {}
    BY DEF RootIsReadable, Readable
  <2>1. TypesHold /\ Sound
    BY DEF StoreInv
  <2>2. Intact(tree)
    <3>1. CASE Booting
      BY <2>1, <3>1 DEF Sound, Empty, Intact
    <3>2. CASE ~Booting
      BY <2>1, <3>2 DEF Sound, TreeWhole
    <3> QED  BY <3>1, <3>2
  <2> QED  BY <2>1, <2>2, CopyingApart
<1> QED  BY <1>1, StoreInvHolds, PTL

\* Unless a chain was torn, a reader that did not load its root between a
\* gate that found no readers and the store of that commit's root sees that
\* root's tree as it was until it drops its guard: no page of it is another
\* one, nor one that is being copied over.
THEOREM ReadersAreIsolated == Spec => []ProtectedIsolation
<1>1. StoreInv => ProtectedIsolation
  <2> SUFFICES ASSUME StoreInv, ~torn, NEW r \in Reader, phase[r] = "reading", ~exposed[r]
               PROVE  Intact(snap[r]) /\ DOMAIN snap[r] \cap Copying = {}
    BY DEF ProtectedIsolation, Readable
  <2>1. TypesHold /\ Sound
    BY DEF StoreInv
  <2>2. CASE Booting
    BY <2>1, <2>2 DEF Sound, Empty
  <2>3. CASE ~Booting
    <3>1. Clear(snap[r])
      BY <2>1, <2>3 DEF Sound, ReadersApart
    <3>2. \A p \in Copying : p \in MayWrite /\ pc # "poisoned"
      BY <2>1, <2>3, CopyingApart
    <3> QED  BY <3>1, <3>2 DEF Clear
  <2> QED  BY <2>2, <2>3
<1> QED  BY <1>1, StoreInvHolds, PTL

\* Unless a chain was torn, open_or_create() never fails on the chain.
THEOREM StoreOpensAgain == Spec => []OpensAgain
<1>1. StoreInv => OpensAgain
  BY DEF StoreInv, Sound, OpensAgain
<1> QED  BY <1>1, StoreInvHolds, PTL

\* What is on the three lists taken as one.
LEMMA ListsAre ==
    ASSUME ListTypes
    PROVE  /\ Range(Lists) = Range(free_list) \cup Range(pending_free)
                                \cup Range(free_list_page_ids)
           /\ ListsApart => Distinct(Lists)
<1>1. /\ free_list \in Seq(PageId) /\ pending_free \in Seq(PageId)
      /\ free_list_page_ids \in Seq(PageId)
  BY DEF ListTypes
<1> DEFINE payload == free_list \o pending_free
<1>2. payload \in Seq(PageId)
  BY <1>1, ConcatProperties
<1>3. Range(payload) = Range(free_list) \cup Range(pending_free)
  BY <1>1, RangeConcatenation
<1>4. ListsApart => Distinct(payload)
  BY <1>1, DistinctConcat DEF ListsApart
<1>5. Lists = payload \o free_list_page_ids
  BY DEF Lists
<1> HIDE DEF payload
<1>6. Range(payload \o free_list_page_ids) = Range(payload) \cup Range(free_list_page_ids)
  BY <1>1, <1>2, RangeConcatenation
<1>7. ListsApart => Distinct(payload \o free_list_page_ids)
  <2> SUFFICES ASSUME ListsApart
               PROVE  Distinct(payload \o free_list_page_ids)
    OBVIOUS
  <2>1. /\ Distinct(payload) /\ Distinct(free_list_page_ids)
        /\ Range(payload) \cap Range(free_list_page_ids) = {}
    BY <1>3, <1>4 DEF ListsApart
  <2> QED  BY <1>1, <1>2, <2>1, DistinctConcat
<1> QED  BY <1>3, <1>5, <1>6, <1>7

\* Unless a chain was torn, no page is on two lists, on one twice, or on one
\* and in a tree that the next commit would build on.
THEOREM PagesHaveOneOwner == Spec => []OneOwner
<1>1. StoreInv => OneOwner
  <2> SUFFICES ASSUME StoreInv, ~torn
               PROVE  Distinct(Lists) /\ Range(Lists) \cap Owned = {}
    BY DEF OneOwner, Distinct
  <2>1. ListTypes /\ StateTypes /\ Sound
    BY DEF StoreInv, TypesHold
  <2>2. CASE Booting
    <3>1. Lists = <<>>
      BY <2>1, <2>2 DEF Sound, Empty
    <3>2. Distinct(<<>>)
      BY DEF Distinct
    <3> QED  BY <3>1, <3>2, EmptyRange
  <2>3. CASE ~Booting
    <3>1. ListsApart /\ TreeWhole /\ PutApart /\ pc # "dead"
      BY <2>1, <2>3 DEF Sound
    <3>2. Distinct(Lists) /\ Range(Lists) = Range(free_list) \cup Range(pending_free)
                                               \cup Range(free_list_page_ids)
      BY <2>1, <3>1, ListsAre
    <3>3. \A S : Outside(S) => Range(Lists) \cap S = {}
      BY <3>2 DEF Outside
    <3>4. CASE pc = "idle"
      BY <3>1, <3>2, <3>3, <3>4 DEF TreeWhole, Owned
    <3>5. CASE pc = "writing"
      <4>1. Outside(DOMAIN tree) /\ Outside(DOMAIN txn.tree)
        BY <3>1, <3>5 DEF TreeWhole, PutApart, InPut
      <4>2. Range(Lists) \cap DOMAIN tree = {} /\ Range(Lists) \cap DOMAIN txn.tree = {}
        BY <3>3, <4>1
      <4> QED  BY <3>2, <3>5, <4>2 DEF Owned
    <3>6. CASE pc \in {"chain", "publish"}
      BY <3>1, <3>2, <3>3, <3>6 DEF PutApart, InPut, Owned
    <3>7. CASE pc = "poisoned"
      <4>1. txn.tree = <<>> /\ DOMAIN <<>> = {}
        BY <3>1, <3>7 DEF PutApart, InPut
      <4> QED  BY <3>2, <3>7, <4>1 DEF Owned
    <3> QED  BY <2>1, <2>3, <3>1, <3>4, <3>5, <3>6, <3>7 DEF StateTypes, Booting
  <2> QED  BY <2>2, <2>3
<1> QED  BY <1>1, StoreInvHolds, PTL

\* Unless a chain was torn before, a process that ends leaves a tree that the
\* header on file may lead to, whole; also one that dies in the middle of
\* copying a page or the header.
THEOREM RestartsKeepCommits == Spec => RestartKeepsCommitted
<1>1. ASSUME StoreInv, [Next]_vars
      PROVE  ~torn /\ (reopens' # reopens \/ crashes' # crashes) =>
                tree' \in OnFile /\ Intact(tree)'
  <2> SUFFICES ASSUME ~torn, reopens' # reopens \/ crashes' # crashes
               PROVE  tree' \in OnFile /\ Intact(tree)'
    OBVIOUS
  <2>0. TypesHold /\ FileTypes /\ TxnTypes /\ HeaderTypes /\ Sound /\ pc # "dead"
    BY <1>1 DEF StoreInv, TypesHold, Sound
  <2>1. Reopen \/ Crash
    BY <1>1, <2>0, TornStays
  <2> DEFINE chain == Chain(disk', header'.head)
  <2>2. \/ FailsAtHeader
        \/ FileLeft /\ (OpensAgainWith(chain) \/ FailsToOpen(chain) \/ StartsAfresh)
    BY <2>0, <2>1, RestartDone
  <2>3. ASSUME FileLeft, NEW t, Intact(t), DOMAIN t \cap Copying = {}
        PROVE  \A p \in DOMAIN t : p \in DOMAIN disk' /\ disk'[p] = NodePage(t[p])
    BY <2>3 DEF FileLeft, Put, Intact
  <2>4. DOMAIN tree \cap Copying = {} /\ (pc = "publish" => Copying = {})
    BY <2>0, CopyingApart
  <2>5. CASE Booting /\ (StartsAfresh \/ FailsAtHeader)
    <3>1. tree' = tree /\ tree = <<>>
      BY <2>0, <2>5 DEF StartsAfresh, FailsAtHeader, Sound, Empty
    <3>2. tree \in OnFile
      BY <2>5 DEF OnFile, Booting
    <3> QED  BY <3>1, <3>2 DEF Intact
  <2>6. CASE ~Booting /\ FileLeft
    <3>1. TreeWhole /\ PutApart /\ HeaderTrue
      BY <2>0, <2>6 DEF Sound
    <3>2. header' # NoHeader
      <4>1. header # NoHeader
        BY <2>0, <2>6 DEF HeaderTypes
      <4>2. HeaderType(header') => header' # NoHeader
        BY DEF HeaderType, NoHeader
      <4> QED  BY <2>0, <2>6, <4>1, <4>2, HeaderLeftTypes
    <3>3. CASE OpensAgainWith(chain) /\ header' = header
      <4>1. tree' = header.tree
        BY <3>3 DEF OpensAgainWith
      <4>2. /\ Intact(header.tree)
            /\ header.tree = IF pc = "publish" THEN txn.tree ELSE tree
        BY <2>0, <2>6, HeaderTreeWhole
      <4>3. DOMAIN header.tree \cap Copying = {} /\ header.tree \in OnFile
        BY <2>4, <4>2 DEF OnFile
      <4> QED  BY <2>3, <2>6, <4>1, <4>2, <4>3 DEF Intact
    <3>4. CASE OpensAgainWith(chain) /\ header' # header
      <4>1. pc = "chain" /\ ~ChainLeft /\ header' \in HalfHeaders /\ disk' = disk
        BY <2>6, <3>4 DEF FileLeft
      <4>2. header'.tree \in {header.tree, txn.tree}
        BY <4>1 DEF HalfHeaders, NewHeader
      <4>3. header.tree = tree /\ Intact(tree) /\ Intact(txn.tree)
        BY <3>1, <4>1 DEF HeaderTrue, TreeWhole, PutApart
      <4>4. tree' \in OnFile /\ tree' \in {tree, txn.tree}
        BY <3>4, <4>1, <4>2, <4>3 DEF OpensAgainWith, OnFile
      <4> QED  BY <4>1, <4>3, <4>4 DEF Intact
    <3>5. CASE FailsToOpen(chain)
      <4>1. pc # "publish"
        <5> SUFFICES ASSUME pc = "publish"
                     PROVE  FALSE
          OBVIOUS
        <5>1. disk' = disk /\ header' = header
          BY <2>4, <2>6 DEF FileLeft
        <5>2. PICK payload \in Seq(PageId) : Saved(payload)
          BY <3>1 DEF PutApart, HeaderTrue
        <5>3. OnDisk(disk, payload, free_list_page_ids, PagesNeeded(payload))
              /\ IsFiniteSet(DOMAIN disk)
          BY <2>0, <5>2 DEF Saved, FileTypes
        <5>4. Ends(disk, Chain(disk, header.head)) /\ Linked(disk, Chain(disk, header.head))
          BY <2>0, <2>6, <5>2, <5>3, HeaderReads
        <5> QED  BY <3>5, <5>1, <5>4 DEF FailsToOpen
      <4>2. tree' = tree /\ tree \in OnFile
        BY <3>5, <4>1 DEF FailsToOpen, OnFile
      <4>3. Intact(tree)
        BY <3>1 DEF TreeWhole
      <4> QED  BY <2>3, <2>4, <2>6, <4>2, <4>3 DEF Intact
    <3> QED  BY <2>2, <2>6, <3>2, <3>3, <3>4, <3>5 DEF StartsAfresh, FailsAtHeader, Booting
  <2>7. Booting => StartsAfresh \/ FailsAtHeader
    <3>1. Booting /\ FileLeft => header' = NoHeader
      BY <2>0 DEF HeaderTypes, FileLeft, Booting
    <3> QED  BY <2>2, <3>1 DEF OpensAgainWith, FailsToOpen
  <2> QED  BY <2>2, <2>5, <2>6, <2>7 DEF FailsAtHeader, Booting
<1>2. StoreInv /\ [Next]_vars =>
         [~torn /\ (reopens' # reopens \/ crashes' # crashes) =>
             tree' \in OnFile /\ Intact(tree)']_vars
  BY <1>1
<1> QED  BY <1>2, StoreInvHolds, PTL DEF Spec, RestartKeepsCommitted

\* Every page that was ever allocated is on a list or in a tree.
AllKept ==
    Range(free_list) \cup Range(pending_free) \cup Range(free_list_page_ids) \cup Owned
        = 1 .. next_page_id - 1

\* The store is open and no commit panicked.
Working == pc \in {"idle", "writing", "chain", "publish"}

\* NoPageLostWhileOpen in terms of the lists.
LEMMA AllKeptMeans == ListTypes => (NoPageLostWhileOpen <=>
                                       (reopens = 0 /\ crashes = 0 /\ Working => AllKept))
<1> SUFFICES ASSUME ListTypes
             PROVE  NoPageLostWhileOpen <=> (reopens = 0 /\ crashes = 0 /\ Working => AllKept)
  OBVIOUS
<1>1. Range(Lists) = Range(free_list) \cup Range(pending_free) \cup Range(free_list_page_ids)
  BY ListsAre
<1> QED  BY <1>1 DEF NoPageLostWhileOpen, AllKept, Working

\* The put takes its pages off the free list or from the end of the file.
LEMMA PutKeepsAll ==
    ASSUME TypesHold, Sound, AllKept, NEW path \in Paths, NEW k \in 0 .. Height,
           BeginPutOn(path, k)
    PROVE  AllKept'
<1>0. ListTypes /\ TreeTypes /\ StateTypes
  BY DEF TypesHold
<1> DEFINE n == Copies(k)
           new == Alloc(n)
           f == FromFree(n)
           rest == SubSeq(free_list, 1, Len(free_list) - f)
           fresh == next_page_id .. next_page_id + (n - f) - 1
<1>1. UNCHANGED <<pending_free, free_list_page_ids, tree>> /\ pc = "idle" /\ pc' = "writing"
  BY DEF BeginPutOn
<1>2. /\ n \in Nat \ {0} /\ DOMAIN txn'.tree = (DOMAIN tree \ Range(path)) \cup Range(new)
      /\ free_list' = rest /\ next_page_id' = next_page_id + (n - f)
  BY <1>0, PutBegun
<1>3. ListsApart /\ next_page_id \in PageId
  BY <1>0, <1>1 DEF Sound, Booting, TreeTypes, IsOpen
<1> HIDE DEF n
<1>4. /\ n - f \in Nat /\ Range(new) \subseteq Range(free_list) \cup fresh
      /\ Range(rest) \subseteq Range(free_list)
      /\ Range(free_list) \subseteq Range(rest) \cup Range(new)
      /\ fresh \subseteq Range(new)
  BY <1>0, <1>2, <1>3, AllocApart DEF ListsApart
<1> DEFINE others == Range(pending_free) \cup Range(free_list_page_ids) \cup DOMAIN tree
<1>5. Range(free_list) \cup others = 1 .. next_page_id - 1
  BY <1>1 DEF AllKept, Owned
<1>6. (1 .. next_page_id - 1) \cup fresh = 1 .. next_page_id' - 1
  BY <1>2, <1>3, <1>4 DEF PageId
<1>7. Owned' = DOMAIN tree \cup Range(new)
  BY <1>1, <1>2 DEF Owned
<1> HIDE DEF fresh, rest, new, f
<1>8. Range(rest) \cup others \cup Range(new) = Range(free_list) \cup others \cup fresh
  BY <1>4
<1>9. Range(rest) \cup others \cup Range(new) = 1 .. next_page_id' - 1
  BY <1>5, <1>6, <1>8
<1> QED  BY <1>1, <1>2, <1>7, <1>9 DEF AllKept

\* What the put freed is on a list, and so are the chain's new pages.
LEMMA FoldKeepsAll ==
    ASSUME TypesHold, Sound, AllKept, FoldAndGate
    PROVE  AllKept'
<1> DEFINE new == next_page_id .. next_page_id' - 1
<1>1. /\ UNCHANGED tree /\ pc = "writing" /\ pc' = "chain"
  BY DEF FoldAndGate
<1>2. /\ Range(free_list') \cup Range(pending_free')
            = Range(free_list) \cup Range(pending_free) \cup Range(txn.freed)
      /\ Range(free_list_page_ids') = Range(free_list_page_ids) \cup new
      /\ next_page_id \in Nat /\ next_page_id' \in Nat /\ next_page_id <= next_page_id'
  BY FoldApart
<1>3. txn'.tree = txn.tree
  BY FoldDone DEF TypesHold
<1>4. /\ Range(txn.freed) \subseteq DOMAIN tree
      /\ DOMAIN tree \subseteq Range(txn.freed) \cup DOMAIN txn.tree
  BY <1>1 DEF Sound, Booting, PutApart, PutUnderWay
<1>5. next_page_id \in PageId
  BY <1>1 DEF TypesHold, TreeTypes, IsOpen
<1>6. (1 .. next_page_id - 1) \cup new = 1 .. next_page_id' - 1
  BY <1>2, <1>5 DEF PageId
<1> DEFINE before == Range(free_list) \cup Range(pending_free) \cup Range(free_list_page_ids)
<1>7. before \cup DOMAIN tree \cup DOMAIN txn.tree = 1 .. next_page_id - 1
  BY <1>1 DEF AllKept, Owned
<1> HIDE DEF new
<1>8. Range(free_list') \cup Range(pending_free') \cup Range(free_list_page_ids')
         \cup DOMAIN txn.tree = before \cup DOMAIN tree \cup DOMAIN txn.tree \cup new
  BY <1>2, <1>4
<1> HIDE DEF before
<1>9. Range(free_list') \cup Range(pending_free') \cup Range(free_list_page_ids')
         \cup DOMAIN txn.tree = 1 .. next_page_id' - 1
  BY <1>6, <1>7, <1>8
<1> QED  BY <1>1, <1>3, <1>9 DEF AllKept, Owned

\* A new store has one page, in its tree.
LEMMA BootKeepsAll ==
    ASSUME FileTypes, BootHeader
    PROVE  AllKept'
<1>1. /\ tree' = [p \in {1} |-> Node(0, 1)] /\ next_page_id' = 2 /\ pc' = "idle"
      /\ free_list' = <<>> /\ pending_free' = <<>> /\ free_list_page_ids' = <<>>
  BY BootDone
<1>2. DOMAIN tree' = {1}
  BY <1>1
<1>3. Owned' = {1}
  BY <1>1, <1>2 DEF Owned
<1>4. 1 .. 2 - 1 = {1}
  OBVIOUS
<1> QED  BY <1>1, <1>3, <1>4, EmptyRange DEF AllKept

\* The other steps move no page.
LEMMA OthersKeepAll ==
    ASSUME TxnTypes, AllKept,
           \/ WritePage \/ WriteChainPage \/ WriteHeader \/ Publish
           \/ UNCHANGED vars \/ \E r \in Reader : Read(r)
    PROVE  AllKept'
<1>1. UNCHANGED <<free_list, pending_free, free_list_page_ids, next_page_id>>
  BY DEF WritePage, WriteChainPage, WriteHeader, Publish, Read, EnterRead, LoadRoot, DropRead,
         writerVars, vars
<1>2. Owned' = Owned
  <2>1. CASE WritePage \/ WriteChainPage
    <3>1. UNCHANGED <<pc, tree>> /\ txn'.tree = txn.tree
      BY <2>1 DEF WritePage, WriteChainPage, TxnTypes
    <3> QED  BY <3>1 DEF Owned
  <2>2. CASE WriteHeader
    <3>1. pc = "chain" /\ pc' = "publish" /\ txn'.tree = txn.tree
      BY <2>2 DEF WriteHeader, TxnTypes
    <3> QED  BY <3>1 DEF Owned
  <2>3. CASE Publish
    BY <2>3 DEF Publish, Owned
  <2>4. CASE UNCHANGED vars \/ \E r \in Reader : Read(r)
    <3>1. UNCHANGED <<pc, tree, txn>>
      BY <2>4 DEF Read, EnterRead, LoadRoot, DropRead, vars
    <3> QED  BY <3>1 DEF Owned
  <2> QED  BY <2>1, <2>2, <2>3, <2>4
<1> QED  BY <1>1, <1>2 DEF AllKept

\* While no process ended, no chain was torn and no page was lost.
KeptInv ==
    /\ StoreInv
    /\ reopens = 0 /\ crashes = 0 => ~torn
    /\ reopens = 0 /\ crashes = 0 /\ Working => AllKept

\* No step of an open store loses a page.
LEMMA KeptStep == KeptInv /\ [Next]_vars => KeptInv'
<1> SUFFICES ASSUME KeptInv, [Next]_vars
             PROVE  KeptInv'
  OBVIOUS
<1>0. StoreInv /\ TypesHold /\ StateTypes /\ FileTypes /\ TxnTypes
  BY DEF KeptInv, StoreInv, TypesHold
<1>1. StoreInv'
  BY <1>0, StoreInvStep
<1>2. CASE Reopen \/ Crash
  <2>1. ~ (reopens' = 0 /\ crashes' = 0)
    BY <1>0, <1>2 DEF Reopen, Crash, StateTypes
  <2> QED  BY <1>1, <2>1 DEF KeptInv
<1>3. CASE ~ (Reopen \/ Crash)
  <2>1. torn' = torn /\ reopens' = reopens /\ crashes' = crashes
    BY <1>0, <1>3, TornStays
  <2> SUFFICES ASSUME reopens = 0, crashes = 0, Working'
               PROVE  AllKept'
    BY <1>1, <2>1 DEF KeptInv
  <2>2. Sound
    BY DEF KeptInv, StoreInv
  <2>3. Working => AllKept
    BY DEF KeptInv
  <2>4. CASE BeginPut
    <3>1. PICK path \in Paths : \E k \in 0 .. Height : BeginPutOn(path, k)
      BY <2>4 DEF BeginPut
    <3>2. Working
      BY <3>1 DEF BeginPutOn, Working
    <3> QED  BY <1>0, <2>2, <2>3, <3>1, <3>2, PutKeepsAll
  <2>5. CASE FoldAndGate
    <3>1. Working
      BY <2>5 DEF FoldAndGate, Working
    <3> QED  BY <1>0, <2>2, <2>3, <2>5, <3>1, FoldKeepsAll
  <2>6. CASE BootHeader
    BY <1>0, <2>6, BootKeepsAll
  <2>7. CASE HitCeiling \/ BootRoot
    BY <2>7 DEF HitCeiling, BootRoot, Working
  <2>8. CASE \/ WritePage \/ WriteChainPage \/ WriteHeader \/ Publish
             \/ UNCHANGED vars \/ \E r \in Reader : Read(r)
    <3>1. Working
      BY <2>8 DEF WritePage, WriteChainPage, WriteHeader, Publish, Read, EnterRead, LoadRoot,
                  DropRead, vars, Working
    <3> QED  BY <1>0, <2>3, <2>8, <3>1, OthersKeepAll
  <2> QED  BY <1>3, <2>4, <2>5, <2>6, <2>7, <2>8 DEF Next, Write
<1> QED  BY <1>2, <1>3

\* While the store stays open, no page that was ever allocated is lost.
THEOREM NoPageIsLost == Spec => []NoPageLostWhileOpen
<1>1. Init => KeptInv
  BY InitTypes, StartSound DEF Init, KeptInv, StoreInv, Working
<1>2. KeptInv => NoPageLostWhileOpen
  BY AllKeptMeans DEF KeptInv, StoreInv, TypesHold
<1> QED  BY <1>1, <1>2, KeptStep, PTL DEF Spec

=============================================================================
