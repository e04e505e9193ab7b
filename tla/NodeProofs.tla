----------------------------- MODULE NodeProofs -----------------------------
(***************************************************************************)
(* Lemmas about the operators of Pages.tla, for every set of keys and      *)
(* values, whatever their lengths, and for every page size from 49 bytes,  *)
(* the least that holds a header, to 43696, the greatest for which the     *)
(* arithmetic of a split does not wrap.                                    *)
(*                                                                         *)
(* A sound node has its shape, its offsets are where its pieces are, its   *)
(* keys are in order, and no piece is larger than check_limits() lets      *)
(* through.  Insertion keeps that; a split makes both halves fit into a    *)
(* page and empties neither, by TwoLoops: the two loops of either split    *)
(* function stop at a point that leaves both sides small enough, as a node *)
(* that fitted before it took one piece more always has such a point.      *)
(***************************************************************************)
EXTENDS Pages, Extremes

---------------------------------------------------------------------------
(* Extremes of index sets, and sequences with one element more. *)

\* Max picks the greatest element of a bounded set of naturals.
LEMMA MaxIsGreatest ==
    ASSUME NEW m \in Nat, NEW S, S \subseteq 0 .. m, S # {}
    PROVE  Max(S) \in S /\ \A j \in S : j <= Max(S)
<1>1. \E x \in S : \A y \in S : y <= x
  BY GreatestExists
<1>2. \E x \in S : \A y \in S : x >= y
  BY <1>1
<1>3. Max(S) \in S /\ \A j \in S : Max(S) >= j
  BY <1>2 DEF Max
<1> QED  BY <1>3

\* What InsertAt returns.
LEMMA InsertAtElements ==
    ASSUME NEW S, NEW s \in Seq(S), NEW i \in 1 .. Len(s) + 1, NEW e \in S
    PROVE  /\ InsertAt(s, i, e) \in Seq(S)
           /\ Len(InsertAt(s, i, e)) = Len(s) + 1
           /\ \A j \in 1 .. Len(s) + 1 :
                 InsertAt(s, i, e)[j] = IF j < i THEN s[j]
                                        ELSE IF j = i THEN e ELSE s[j - 1]
<1> DEFINE a == SubSeq(s, 1, i - 1)
           c == SubSeq(s, i, Len(s))
<1>1. /\ a \in Seq(S) /\ Len(a) = i - 1
      /\ \A j \in 1 .. i - 1 : a[j] = s[j]
  OBVIOUS
<1>2. /\ c \in Seq(S) /\ Len(c) = Len(s) - i + 1
      /\ \A j \in 1 .. Len(s) - i + 1 : c[j] = s[i + j - 1]
  OBVIOUS
<1>3. <<e>> \in Seq(S) /\ Len(<<e>>) = 1 /\ <<e>>[1] = e
  OBVIOUS
<1> DEFINE b == a \o <<e>>
<1>4. /\ b \in Seq(S) /\ Len(b) = i
      /\ \A j \in 1 .. i : b[j] = IF j < i THEN s[j] ELSE e
  <2> HIDE DEF a
  <2> QED  BY <1>1, <1>3
<1> HIDE DEF a, b, c
<1>5. /\ b \o c \in Seq(S) /\ Len(b \o c) = Len(s) + 1
      /\ \A j \in 1 .. Len(s) + 1 :
            (b \o c)[j] = IF j <= i THEN b[j] ELSE c[j - i]
  <2>1. b \in Seq(S) /\ c \in Seq(S)
    BY <1>2, <1>4
  <2>2. /\ b \o c \in Seq(S) /\ Len(b \o c) = Len(b) + Len(c)
        /\ \A j \in 1 .. Len(b) + Len(c) :
              (b \o c)[j] = IF j <= Len(b) THEN b[j] ELSE c[j - Len(b)]
    BY <2>1
  <2>3. Len(b) = i /\ Len(b) + Len(c) = Len(s) + 1
    BY <1>2, <1>4
  <2> QED  BY <2>2, <2>3
<1>6. ASSUME NEW j \in 1 .. Len(s) + 1
      PROVE  (b \o c)[j] = IF j < i THEN s[j] ELSE IF j = i THEN e ELSE s[j - 1]
  <2>1. CASE j <= i
    BY <2>1, <1>4, <1>5
  <2>2. CASE ~ (j <= i)
    <3>1. j - i \in 1 .. Len(s) - i + 1 /\ i + (j - i) - 1 = j - 1
      BY <2>2
    <3>2. c[j - i] = s[i + (j - i) - 1]
      BY <3>1, <1>2
    <3>3. (b \o c)[j] = c[j - i]
      BY <2>2, <1>5
    <3>4. ~ (j < i) /\ j # i
      BY <2>2
    <3> QED  BY <3>1, <3>2, <3>3, <3>4
  <2> QED  BY <2>1, <2>2
<1> QED  BY <1>5, <1>6 DEF InsertAt, a, b, c

\* What ReplaceAt returns.
LEMMA ReplaceAtElements ==
    ASSUME NEW S, NEW s \in Seq(S), NEW i \in 1 .. Len(s), NEW e \in S
    PROVE  /\ ReplaceAt(s, i, e) \in Seq(S)
           /\ Len(ReplaceAt(s, i, e)) = Len(s)
           /\ \A j \in 1 .. Len(s) :
                 ReplaceAt(s, i, e)[j] = IF j = i THEN e ELSE s[j]
BY DEF ReplaceAt

\* What SubSeq returns.
LEMMA SubSeqElements ==
    ASSUME NEW S, NEW s \in Seq(S), NEW m \in 1 .. Len(s) + 1,
           NEW n \in m - 1 .. Len(s)
    PROVE  /\ SubSeq(s, m, n) \in Seq(S)
           /\ Len(SubSeq(s, m, n)) = n - m + 1
           /\ \A j \in 1 .. n - m + 1 : SubSeq(s, m, n)[j] = s[m + j - 1]
OBVIOUS

\* Offsets that never decrease from one to the next never decrease at all.
LEMMA Monotone ==
    ASSUME NEW n \in Nat, NEW f \in [0 .. n -> Nat],
           \A i \in 1 .. n : f[i - 1] <= f[i],
           NEW i \in 0 .. n, NEW j \in i .. n
    PROVE  f[i] <= f[j]
<1> DEFINE S == {k \in i .. n : f[k] < f[i]}
<1> SUFFICES ASSUME ~ (f[i] <= f[j]) PROVE FALSE
  OBVIOUS
<1>0. f[i] \in Nat /\ f[j] \in Nat
  OBVIOUS
<1>1. PICK k \in S : \A l \in S : k <= l
  <2>1. S \subseteq Nat /\ j \in S
    BY <1>0
  <2> HIDE DEF S
  <2> QED  BY <2>1, LeastExists
<1>2. k \in i + 1 .. n /\ k - 1 \in i .. n /\ f[k] < f[i]
  BY <1>1
<1>3. k - 1 \notin S
  BY <1>1, <1>2
<1>4. f[k - 1] >= f[i] /\ f[k - 1] <= f[k]
  BY <1>2, <1>3
<1>5. f[k] \in Nat /\ f[k - 1] \in Nat /\ f[i] \in Nat
  BY <1>2
<1> QED  BY <1>2, <1>4, <1>5
---------------------------------------------------------------------------
(* Sound nodes: of the right shape, with true offsets, in order, and made  *)
(* of pieces that check_limits() lets through.                             *)

\* The page sizes that are proved about, and the page ids a node may refer to.
Sizes == {P \in Nat : 49 <= P /\ P <= 43696}
Ids == Nat \ {0}

\* Which they are.
LEMMA SizesAre ==
    ASSUME NEW P \in Nat, 49 <= P, P <= 43696
    PROVE  P \in Sizes
BY DEF Sizes

\* No piece is larger than check_limits() lets through.
Within(n, P) ==
    \A i \in 1 .. Pieces(n) :
        PieceBytes(n, i) <= MaxKvSize(P) + IF n.kind = "leaf" THEN 4 ELSE 2

SoundLeaf(l, P) == LeafType(l) /\ Offsets(l) /\ InOrder(l) /\ Within(l, P)

SoundInternal(n, P) ==
    InternalType(n, Ids) /\ Offsets(n) /\ InOrder(n) /\ Within(n, P)

\* A sound node that fits into its page.
SoundNode(n, P) ==
    \/ SoundLeaf(n, P) /\ LeafBytes(n) <= P
    \/ SoundInternal(n, P) /\ InternalBytes(n) <= P

\* Two pieces of the largest size and what surrounds them fit into a page,
\* and one piece more than a page of them stays below 2^16.
LEMMA LimitFacts ==
    ASSUME NEW P \in Sizes
    PROVE  /\ P \in Nat /\ 49 <= P /\ MaxKvSize(P) \in Nat
           /\ 2 * MaxKvSize(P) + 39 <= P
           /\ P + MaxKvSize(P) + 10 < 65536
<1>1. P \in Nat /\ 49 <= P /\ P <= 43696
  BY DEF Sizes
<1>2. MaxKvSize(P) = (P - 39) \div 2
  BY <1>1 DEF MaxKvSize, INTERNAL_HEADER
<1> QED  BY <1>1, <1>2

\* What the entries of a sound leaf say about its offsets.
LEMMA LeafFacts ==
    ASSUME NEW P \in Sizes, NEW l, SoundLeaf(l, P)
    PROVE  /\ l.kind = "leaf" /\ l.entries \in Seq(Entry)
           /\ Len(l.entries) \in Nat
           /\ l.start \in [0 .. Len(l.entries) -> Nat] /\ l.start[0] = 0
           /\ \A i \in 1 .. Len(l.entries) :
                 /\ l.entries[i] \in Entry
                 /\ EntryBytes(l.entries[i]) \in 4 .. MaxKvSize(P) + 4
                 /\ l.start[i] = l.start[i - 1] + EntryBytes(l.entries[i])
           /\ \A i \in 0 .. Len(l.entries) : \A j \in i .. Len(l.entries) :
                 l.start[i] <= l.start[j]
<1> DEFINE n == Len(l.entries)
<1>1. /\ l.kind = "leaf" /\ l.entries \in Seq(Entry)
      /\ l.start \in [0 .. n -> Nat] /\ l.start[0] = 0
      /\ n \in Nat
  BY DEF SoundLeaf, LeafType, Offsets
<1>2. ASSUME NEW i \in 1 .. n
      PROVE  /\ l.entries[i] \in Entry
             /\ EntryBytes(l.entries[i]) \in 4 .. MaxKvSize(P) + 4
             /\ l.start[i] = l.start[i - 1] + EntryBytes(l.entries[i])
  <2>1. l.entries[i] \in Entry
    BY <1>1
  <2>2. EntryBytes(l.entries[i]) \in Nat /\ 4 <= EntryBytes(l.entries[i])
    <3>1. l.entries[i].key \in Key /\ l.entries[i].val \in Value
      BY <2>1 DEF Entry
    <3>2. KeyLen[l.entries[i].key] \in Nat /\ ValLen[l.entries[i].val] \in Nat
      BY <3>1, KeyAssumption, ValueAssumption
    <3>3. EntryBytes(l.entries[i])
            = 4 + KeyLen[l.entries[i].key] + ValLen[l.entries[i].val]
      BY DEF EntryBytes
    <3> QED  BY <3>2, <3>3
  <2>3. /\ EntryBytes(l.entries[i]) <= MaxKvSize(P) + 4
        /\ l.start[i] = l.start[i - 1] + EntryBytes(l.entries[i])
    BY <1>1 DEF SoundLeaf, Within, Offsets, Pieces, PieceBytes
  <2>4. MaxKvSize(P) \in Nat
    BY LimitFacts
  <2> QED  BY <2>1, <2>2, <2>3, <2>4
<1>3. ASSUME NEW i \in 1 .. n PROVE l.start[i - 1] <= l.start[i]
  <2>0. i - 1 \in 0 .. n
    BY <1>1
  <2>1. l.start[i - 1] \in Nat
    BY <2>0, <1>1
  <2>2. EntryBytes(l.entries[i]) \in Nat
    <3>1. MaxKvSize(P) \in Nat
      BY LimitFacts
    <3> QED  BY <3>1, <1>2
  <2>3. l.start[i] = l.start[i - 1] + EntryBytes(l.entries[i])
    BY <1>2
  <2> HIDE DEF n
  <2> QED  BY <2>1, <2>2, <2>3
<1>4. \A i \in 0 .. n : \A j \in i .. n : l.start[i] <= l.start[j]
  BY <1>1, <1>3, Monotone
<1> QED  BY <1>1, <1>2, <1>4

\* Where two loops stop, the first going left from h and the second going
\* right from there.
FirstStop(left, P, h) == Max({m \in 0 .. h : m = 0 \/ left[m] <= P})

SecondStop(left, right, P, h, top) ==
    Min({m \in FirstStop(left, P, h) .. top : m = top \/ right[m] <= P})

\* The two loops that look for a split point, on what each point would leave
\* on its left and on its right: last is a point whose right part is small
\* enough, and whenever a step to the right was called for, the left part is
\* still small enough after it.
LEMMA TwoLoops ==
    ASSUME NEW P \in Nat, NEW top \in Nat, NEW h \in 1 .. top, NEW last \in h .. top,
           NEW left \in [0 .. top -> Nat], NEW right \in [0 .. top -> Nat],
           left[1] <= P, right[last] <= P,
           \A m \in 1 .. last : right[m - 1] > P => left[m] <= P
    PROVE  LET point == SecondStop(left, right, P, h, top)
           IN  point \in 1 .. last /\ left[point] <= P /\ right[point] <= P
<1> DEFINE A     == {m \in 0 .. h : m = 0 \/ left[m] <= P}
           first == Max(A)
           B     == {m \in first .. top : m = top \/ right[m] <= P}
           point == Min(B)
<1>1. 1 \in A /\ A \subseteq 0 .. h /\ \A m \in A : m # 0 => left[m] <= P
  OBVIOUS
<1>2. first \in A /\ \A m \in A : m <= first
  <2> HIDE DEF A
  <2>1. h \in Nat /\ A # {}
    BY <1>1
  <2> QED  BY <1>1, <2>1, MaxIsGreatest
<1>3. first \in 1 .. h /\ left[first] <= P
  <2> HIDE DEF A, first
  <2> QED  BY <1>1, <1>2
<1> HIDE DEF A, first
<1>4. last \in B /\ B \subseteq Nat /\ B \subseteq first .. top
  BY <1>3
<1>5. point \in B /\ \A m \in B : point <= m
  <2> HIDE DEF B
  <2> QED  BY <1>4, MinIsLeast
<1>6. point \in 1 .. last /\ point \in first .. top
  <2> HIDE DEF B, point
  <2> QED  BY <1>3, <1>4, <1>5
<1>7. right[point] <= P
  <2>1. point = top \/ right[point] <= P
    <3> HIDE DEF point
    <3> QED  BY <1>5
  <2> HIDE DEF B, point
  <2>2. point = top => point = last
    BY <1>6
  <2> QED  BY <2>1, <2>2
<1>8. left[point] <= P
  <2>1. point - 1 \in first .. top => point - 1 \notin B
    <3> HIDE DEF B, point
    <3> QED  BY <1>5, <1>6
  <2>2. point - 1 \in first .. top => right[point - 1] > P
    <3> HIDE DEF point
    <3>1. point - 1 \in first .. top => point - 1 \in 0 .. top /\ ~ (right[point - 1] <= P)
      BY <2>1, <1>3
    <3> QED  BY <3>1
  <2> HIDE DEF B, point
  <2>3. CASE point = first
    BY <2>3, <1>3
  <2>4. CASE point # first
    <3>1. point - 1 \in first .. top
      BY <2>4, <1>3, <1>6
    <3> QED  BY <3>1, <2>2, <1>6
  <2> QED  BY <2>3, <2>4
<1> QED  BY <1>6, <1>7, <1>8 DEF A, first, point, B, FirstStop, SecondStop

\* Sizes below 2^16 do not wrap.
LEMMA NoWrap ==
    ASSUME NEW n \in Nat, n < 65536
    PROVE  U16(n) = n
BY DEF U16

\* A leaf that has outgrown its page by one entry is split between two of its
\* entries, where both parts fit.
LEMMA LeafSplitPointFits ==
    ASSUME NEW P \in Sizes, NEW l, SoundLeaf(l, P),
           LeafBytes(l) > P, LeafBytes(l) <= P + MaxKvSize(P) + 4
    PROVE  LET n == Len(l.entries)
               m == LeafSplitPoint(l, P)
           IN  /\ n \in Nat /\ m \in 1 .. n - 1
               /\ 11 + l.start[m] <= P /\ 11 + (l.start[n] - l.start[m]) <= P
<1> DEFINE n == Len(l.entries)
           big == MaxKvSize(P)
           left == [m \in 0 .. n - 1 |-> 11 + l.start[m]]
           right == [m \in 0 .. n - 1 |-> 11 + (l.start[n] - l.start[m])]
<1>1. /\ P \in Nat /\ 49 <= P /\ big \in Nat
      /\ 2 * big + 39 <= P /\ P + big + 10 < 65536
  BY LimitFacts
<1>2. /\ n \in Nat /\ l.start \in [0 .. n -> Nat] /\ l.start[0] = 0
      /\ \A i \in 1 .. n : /\ EntryBytes(l.entries[i]) \in 4 .. big + 4
                          /\ l.start[i] = l.start[i - 1] + EntryBytes(l.entries[i])
      /\ \A i \in 0 .. n : \A j \in i .. n : l.start[i] <= l.start[j]
  BY LeafFacts
<1>3. 11 + l.start[n] > P /\ 11 + l.start[n] <= P + big + 4
  BY DEF LeafBytes, LEAF_HEADER
<1>s. ASSUME NEW i \in 1 .. n
      PROVE  /\ l.start[i] \in Nat /\ l.start[i - 1] \in Nat
             /\ l.start[i] <= l.start[i - 1] + big + 4
  <2>1. i \in 0 .. n /\ i - 1 \in 0 .. n
    BY <1>2
  <2>2. l.start[i] \in Nat /\ l.start[i - 1] \in Nat
    BY <2>1, <1>2
  <2>3. /\ EntryBytes(l.entries[i]) \in 4 .. big + 4
        /\ l.start[i] = l.start[i - 1] + EntryBytes(l.entries[i])
    BY <1>2
  <2> HIDE DEF n, big
  <2> QED  BY <2>2, <2>3, <1>1
<1> HIDE DEF n, big
<1>4. ASSUME NEW m \in 0 .. n
      PROVE  l.start[m] \in Nat /\ l.start[m] <= l.start[n] /\ l.start[n] \in Nat
  BY <1>2
<1>5. n >= 2
  <2>1. n # 0
    BY <1>1, <1>2, <1>3
  <2>2. n # 1
    <3> SUFFICES ASSUME n = 1 PROVE FALSE
      OBVIOUS
    <3>1. l.start[1] <= l.start[1 - 1] + big + 4 /\ l.start[1] \in Nat
      BY <1>s
    <3>2. l.start[1] <= big + 4
      BY <3>1, <1>2, <1>1
    <3> QED  BY <3>1, <3>2, <1>1, <1>3
  <2> QED  BY <2>1, <2>2, <1>2
<1>6. left \in [0 .. n - 1 -> Nat] /\ right \in [0 .. n - 1 -> Nat]
  <2>1. ASSUME NEW m \in 0 .. n - 1
        PROVE  11 + l.start[m] \in Nat /\ 11 + (l.start[n] - l.start[m]) \in Nat
    <3>1. m \in 0 .. n
      BY <1>2
    <3>2. /\ l.start[m] \in Nat /\ l.start[n] \in Nat
          /\ l.start[m] <= l.start[n]
      BY <3>1, <1>4
    <3> QED  BY <3>2
  <2> QED  BY <2>1
<1>7. left[1] <= P /\ right[n - 1] <= P
  <2>0. 1 \in 1 .. n /\ n \in 1 .. n /\ 1 - 1 = 0 /\ 1 \in 0 .. n /\ n - 1 \in 0 .. n
    BY <1>5, <1>2
  <2>1. l.start[1] <= l.start[0] + big + 4
    BY <2>0, <1>s
  <2>2. l.start[n] <= l.start[n - 1] + big + 4
    BY <2>0, <1>s
  <2>3. left[1] = 11 + l.start[1] /\ right[n - 1] = 11 + (l.start[n] - l.start[n - 1])
    BY <1>2, <1>5
  <2>4. l.start[1] \in Nat /\ l.start[n] \in Nat /\ l.start[n - 1] \in Nat
    BY <2>0, <1>4
  <2>5. l.start[0] = 0
    BY <1>2
  <2> HIDE DEF left, right
  <2> QED  BY <2>1, <2>2, <2>3, <2>4, <2>5, <1>1
<1>8. ASSUME NEW m \in 1 .. n - 1, right[m - 1] > P PROVE left[m] <= P
  <2>1. right[m - 1] = 11 + (l.start[n] - l.start[m - 1]) /\ left[m] = 11 + l.start[m]
    BY <1>2
  <2>2. /\ l.start[m] <= l.start[m - 1] + big + 4
        /\ l.start[m] \in Nat /\ l.start[m - 1] \in Nat /\ l.start[n] \in Nat
    BY <1>s, <1>4, <1>2
  <2> HIDE DEF left, right
  <2> QED  BY <2>1, <2>2, <1>1, <1>3, <1>8
<1> DEFINE first == FirstStop(left, P, n \div 2)
           point == SecondStop(left, right, P, n \div 2, n - 1)
<1>9. point \in 1 .. n - 1 /\ left[point] <= P /\ right[point] <= P
  <2>1. n - 1 \in Nat /\ n \div 2 \in 1 .. n - 1 /\ n - 1 \in n \div 2 .. n - 1
    BY <1>2, <1>5
  <2>2. \A m \in 1 .. n - 1 : right[m - 1] > P => left[m] <= P
    BY <1>8
  <2> HIDE DEF left, right
  <2>3. /\ P \in Nat /\ n - 1 \in Nat /\ n \div 2 \in 1 .. n - 1
        /\ n - 1 \in n \div 2 .. n - 1
        /\ left \in [0 .. n - 1 -> Nat] /\ right \in [0 .. n - 1 -> Nat]
        /\ left[1] <= P /\ right[n - 1] <= P
    BY <2>1, <1>1, <1>6, <1>7
  <2> QED  BY <2>2, <2>3, TwoLoops
<1>10. U16(P) = P
  BY <1>1, NoWrap
<1>11. ASSUME NEW m \in 0 .. n - 1
       PROVE  /\ U16(11 + U16(l.start[m])) = left[m]
              /\ U16(11 + U16(U16(l.start[n]) - U16(l.start[m]))) = right[m]
  <2>0. m \in 0 .. n
    BY <1>2
  <2>1. l.start[m] \in Nat /\ l.start[n] \in Nat /\ l.start[m] <= l.start[n]
    BY <2>0, <1>4
  <2>2. 11 + l.start[n] < 65536
    BY <2>1, <1>1, <1>3
  <2>3. U16(l.start[m]) = l.start[m] /\ U16(l.start[n]) = l.start[n]
    BY <2>1, <2>2, NoWrap
  <2>4. l.start[n] - l.start[m] \in Nat /\ l.start[n] - l.start[m] <= l.start[n]
    BY <2>1
  <2>5. U16(l.start[n] - l.start[m]) = l.start[n] - l.start[m]
    BY <2>1, <2>2, <2>4, NoWrap
  <2>6. U16(11 + l.start[m]) = 11 + l.start[m]
    BY <2>1, <2>2, NoWrap
  <2>7. U16(11 + (l.start[n] - l.start[m])) = 11 + (l.start[n] - l.start[m])
    BY <2>1, <2>2, <2>4, NoWrap
  <2> QED  BY <2>3, <2>5, <2>6, <2>7
<1>12. first \in Nat
  <2> DEFINE A == {m \in 0 .. n \div 2 : m = 0 \/ left[m] <= P}
  <2>1. A \subseteq 0 .. n \div 2 /\ n \div 2 \in Nat /\ A # {}
    BY <1>2
  <2>0. A \subseteq Nat
    OBVIOUS
  <2> HIDE DEF A
  <2>2. Max(A) \in A
    BY <2>1, MaxIsGreatest
  <2>3. Max(A) \in Nat
    BY <2>0, <2>2
  <2> QED  BY <2>3 DEF A, FirstStop
<1>13. LeafSplitPoint(l, P) = point
  <2>1. \A m \in 0 .. n \div 2 :
           U16(LEAF_HEADER + U16(l.start[m])) <= U16(P) <=> left[m] <= P
    <3>1. \A m \in 0 .. n \div 2 : m \in 0 .. n - 1
      BY <1>2, <1>5
    <3> HIDE DEF left, right
    <3> QED  BY <3>1, <1>10, <1>11 DEF LEAF_HEADER
  <2>2. {m \in 0 .. n \div 2 : m = 0 \/ U16(LEAF_HEADER + U16(l.start[m])) <= U16(P)}
        = {m \in 0 .. n \div 2 : m = 0 \/ left[m] <= P}
    <3> HIDE DEF left, right
    <3> QED  BY <2>1
  <2>3. \A m \in first .. n - 1 :
           U16(LEAF_HEADER + U16(U16(l.start[n]) - U16(l.start[m]))) <= U16(P)
             <=> right[m] <= P
    <3>1. \A m \in first .. n - 1 : m \in 0 .. n - 1
      <4> HIDE DEF first
      <4> QED  BY <1>12, <1>2
    <3> HIDE DEF left, right, first
    <3> QED  BY <3>1, <1>10, <1>11 DEF LEAF_HEADER
  <2>4. {m \in first .. n - 1 : m = n - 1
            \/ U16(LEAF_HEADER + U16(U16(l.start[n]) - U16(l.start[m]))) <= U16(P)}
        = {m \in first .. n - 1 : m = n - 1 \/ right[m] <= P}
    <3> HIDE DEF left, right, first
    <3> QED  BY <2>3
  <2> HIDE DEF left, right
  <2> QED  BY <2>2, <2>4 DEF LeafSplitPoint, FirstStop, SecondStop, n
<1>14. /\ left[point] = 11 + l.start[point]
       /\ right[point] = 11 + (l.start[n] - l.start[point])
  <2>1. point \in 0 .. n - 1
    BY <1>9, <1>2
  <2> HIDE DEF point
  <2> QED  BY <2>1
<1> HIDE DEF left, right, point, first
<1> QED  BY <1>2, <1>9, <1>13, <1>14 DEF n

\* The keys of a sound leaf, as keys of its entries.
LEMMA LeafKeys ==
    ASSUME NEW P, NEW l, SoundLeaf(l, P)
    PROVE  \A i, j \in 1 .. Len(l.entries) : i < j => l.entries[i].key < l.entries[j].key
BY DEF SoundLeaf, LeafType, InOrder, Pieces, PieceKey

\* What it takes to be a sound leaf: these are its entries and where each ends.
LeafParts(e, s, P) ==
    /\ e \in Seq(Entry) /\ s \in [0 .. Len(e) -> Nat] /\ s[0] = 0
    /\ \A i \in 1 .. Len(e) : /\ s[i] = s[i - 1] + EntryBytes(e[i])
                              /\ EntryBytes(e[i]) <= MaxKvSize(P) + 4
    /\ \A i, j \in 1 .. Len(e) : i < j => e[i].key < e[j].key

\* A leaf that is put together of them is one.
LEMMA MakeLeaf ==
    ASSUME NEW P, NEW e, NEW s, LeafParts(e, s, P)
    PROVE  /\ SoundLeaf(LeafOf(e, s), P)
           /\ LeafOf(e, s).entries = e /\ LeafOf(e, s).start = s
           /\ LeafOf(e, s).kind = "leaf"
           /\ LeafBytes(LeafOf(e, s)) = 11 + s[Len(e)]
<1> DEFINE l == LeafOf(e, s)
<1>1. l.entries = e /\ l.start = s /\ l.kind = "leaf"
  BY DEF LeafOf
<1>2. LeafType(l)
  BY <1>1 DEF LeafType, LeafParts
<1>3. Offsets(l)
  BY <1>1 DEF Offsets, Pieces, PieceBytes, LeafParts
<1>4. InOrder(l)
  BY <1>1 DEF InOrder, Pieces, PieceKey, LeafParts
<1>5. Within(l, P)
  BY <1>1 DEF Within, Pieces, PieceBytes, LeafParts
<1>6. LeafBytes(l) = 11 + s[Len(e)]
  BY <1>1 DEF LeafBytes, LEAF_HEADER
<1> HIDE DEF l
<1> QED  BY <1>1, <1>2, <1>3, <1>4, <1>5, <1>6 DEF SoundLeaf, l

\* A range of the entries of a sound leaf is a sound leaf.
LEMMA LeafPart ==
    ASSUME NEW P \in Sizes, NEW l, SoundLeaf(l, P),
           NEW from \in 0 .. Len(l.entries), NEW to \in from .. Len(l.entries)
    PROVE  LET part == LeafOf(SubSeq(l.entries, from + 1, to),
                              Slice(l.start, from, to))
           IN  /\ SoundLeaf(part, P) /\ part.kind = "leaf"
               /\ LeafBytes(part) = 11 + (l.start[to] - l.start[from])
               /\ Len(part.entries) = to - from
<1> DEFINE n == Len(l.entries)
           e == SubSeq(l.entries, from + 1, to)
           s == Slice(l.start, from, to)
           k == to - from
<1>1. /\ n \in Nat /\ l.entries \in Seq(Entry) /\ l.start \in [0 .. n -> Nat]
      /\ \A i \in 1 .. n : /\ l.entries[i] \in Entry
                          /\ EntryBytes(l.entries[i]) \in 4 .. MaxKvSize(P) + 4
                          /\ l.start[i] = l.start[i - 1] + EntryBytes(l.entries[i])
      /\ \A i \in 0 .. n : \A j \in i .. n : l.start[i] <= l.start[j]
  BY LeafFacts
<1>2. MaxKvSize(P) \in Nat
  BY LimitFacts
<1>3. /\ k \in Nat /\ e \in Seq(Entry) /\ Len(e) = k
      /\ \A i \in 1 .. k : e[i] = l.entries[from + i]
  <2>1. from + 1 \in 1 .. n + 1 /\ to \in (from + 1) - 1 .. n
    BY <1>1
  <2>2. /\ e \in Seq(Entry) /\ Len(e) = to - (from + 1) + 1
        /\ \A j \in 1 .. to - (from + 1) + 1 : e[j] = l.entries[(from + 1) + j - 1]
    <3> HIDE DEF e
    <3> QED  BY <2>1, <1>1, SubSeqElements DEF e
  <2>3. k \in Nat /\ to - (from + 1) + 1 = k
    BY <1>1
  <2>4. \A j \in 1 .. k : (from + 1) + j - 1 = from + j
    BY <1>1, <2>3
  <2> HIDE DEF e, k
  <2> QED  BY <2>2, <2>3, <2>4
<1>4. ASSUME NEW i \in 0 .. k
      PROVE  /\ l.start[from + i] \in Nat /\ l.start[from] \in Nat
             /\ l.start[from] <= l.start[from + i]
             /\ s[i] = l.start[from + i] - l.start[from]
  <2>1. from \in 0 .. n /\ from + i \in from .. n /\ from + i \in 0 .. n
    BY <1>1
  <2>2. s[i] = l.start[from + i] - l.start[from]
    BY DEF Slice
  <2> HIDE DEF n, k, s
  <2> QED  BY <2>1, <2>2, <1>1
<1>5. s \in [0 .. k -> Nat] /\ DOMAIN s = 0 .. k
  <2>1. s = [i \in 0 .. k |-> l.start[from + i] - l.start[from]]
    BY DEF Slice
  <2>2. ASSUME NEW i \in 0 .. k PROVE l.start[from + i] - l.start[from] \in Nat
    <3>1. /\ l.start[from + i] \in Nat /\ l.start[from] \in Nat
          /\ l.start[from] <= l.start[from + i]
      BY <1>4
    <3> QED  BY <3>1
  <2> HIDE DEF k, s
  <2> QED  BY <2>1, <2>2
<1>6. s[0] = 0 /\ s[k] = l.start[to] - l.start[from]
  <2>1. 0 \in 0 .. k /\ k \in 0 .. k /\ from + 0 = from /\ from + k = to
    BY <1>1
  <2> HIDE DEF s, k
  <2> QED  BY <2>1, <1>4
<1>7. ASSUME NEW i \in 1 .. k
      PROVE  /\ s[i] = s[i - 1] + EntryBytes(e[i])
             /\ EntryBytes(e[i]) <= MaxKvSize(P) + 4
  <2>1. from + i \in 1 .. n /\ (from + i) - 1 = from + (i - 1)
        /\ i \in 0 .. k /\ i - 1 \in 0 .. k
    <3>1. n \in Nat /\ k \in Nat /\ from \in Nat /\ from + k <= n
      BY <1>1
    <3> HIDE DEF n, k
    <3> QED  BY <3>1
  <2>2. /\ EntryBytes(l.entries[from + i]) \in 4 .. MaxKvSize(P) + 4
        /\ l.start[from + i] = l.start[(from + i) - 1] + EntryBytes(l.entries[from + i])
    BY <2>1, <1>1
  <2>3. e[i] = l.entries[from + i]
    BY <1>3
  <2>4. /\ s[i] = l.start[from + i] - l.start[from]
        /\ s[i - 1] = l.start[from + (i - 1)] - l.start[from]
        /\ l.start[from] \in Nat /\ l.start[from + (i - 1)] \in Nat
    BY <2>1, <1>4
  <2> HIDE DEF e, s, n, k
  <2> QED  BY <2>1, <2>2, <2>3, <2>4, <1>2
<1>8. ASSUME NEW i \in 1 .. k, NEW j \in 1 .. k, i < j PROVE e[i].key < e[j].key
  <2>1. from + i \in 1 .. n /\ from + j \in 1 .. n /\ from + i < from + j
    BY <1>1, <1>8
  <2>2. l.entries[from + i].key < l.entries[from + j].key
    BY <2>1, LeafKeys
  <2> HIDE DEF e, n, k
  <2> QED  BY <2>2, <1>3
<1> HIDE DEF e, s, k
<1>9. s \in [0 .. Len(e) -> Nat] /\ e \in Seq(Entry) /\ s[0] = 0
  BY <1>3, <1>5, <1>6
<1>10. \A i \in 1 .. Len(e) : /\ s[i] = s[i - 1] + EntryBytes(e[i])
                             /\ EntryBytes(e[i]) <= MaxKvSize(P) + 4
  BY <1>3, <1>7
<1>11. \A i, j \in 1 .. Len(e) : i < j => e[i].key < e[j].key
  BY <1>3, <1>8
<1>12. LeafParts(e, s, P)
  BY <1>9, <1>10, <1>11 DEF LeafParts
<1>13. /\ SoundLeaf(LeafOf(e, s), P) /\ LeafOf(e, s).kind = "leaf"
       /\ LeafOf(e, s).entries = e /\ LeafBytes(LeafOf(e, s)) = 11 + s[Len(e)]
  BY <1>12, MakeLeaf
<1> QED  BY <1>3, <1>6, <1>13 DEF e, s, k

\* Both parts of a leaf that has outgrown its page are sound, have entries
\* and fit.
LEMMA LeafSplitSound ==
    ASSUME NEW P \in Sizes, NEW l, SoundLeaf(l, P),
           LeafBytes(l) > P, LeafBytes(l) <= P + MaxKvSize(P) + 4
    PROVE  LET half == LeafSplitBySize(l, P)
           IN  /\ SoundLeaf(half.left, P) /\ SoundLeaf(half.right, P)
               /\ half.left.kind = "leaf" /\ half.right.kind = "leaf"
               /\ LeafBytes(half.left) <= P /\ LeafBytes(half.right) <= P
               /\ Len(half.left.entries) >= 1 /\ Len(half.right.entries) >= 1
<1> DEFINE n == Len(l.entries)
           m == LeafSplitPoint(l, P)
           left == LeafOf(SubSeq(l.entries, 1, m), Slice(l.start, 0, m))
           right == LeafOf(SubSeq(l.entries, m + 1, n), Slice(l.start, m, n))
<1>1. /\ n \in Nat /\ m \in 1 .. n - 1
      /\ 11 + l.start[m] <= P /\ 11 + (l.start[n] - l.start[m]) <= P
  BY LeafSplitPointFits
<1>2. l.start[0] = 0 /\ l.start \in [0 .. n -> Nat]
  BY LeafFacts
<1>3. LeafSplitBySize(l, P) = [left |-> left, right |-> right]
  BY DEF LeafSplitBySize
<1> HIDE DEF m
<1>4. /\ 0 \in 0 .. n /\ m \in 0 .. n /\ n \in m .. n /\ 0 + 1 = 1
      /\ m - 0 >= 1 /\ n - m >= 1 /\ m \in Int
  BY <1>1
<1>5. /\ SoundLeaf(left, P) /\ left.kind = "leaf"
      /\ LeafBytes(left) = 11 + (l.start[m] - l.start[0])
      /\ Len(left.entries) = m - 0
  <2>1. LET part == LeafOf(SubSeq(l.entries, 0 + 1, m), Slice(l.start, 0, m))
        IN  /\ SoundLeaf(part, P) /\ part.kind = "leaf"
            /\ LeafBytes(part) = 11 + (l.start[m] - l.start[0])
            /\ Len(part.entries) = m - 0
    BY <1>4, LeafPart
  <2> QED  BY <2>1, <1>4
<1>6. /\ SoundLeaf(right, P) /\ right.kind = "leaf"
      /\ LeafBytes(right) = 11 + (l.start[n] - l.start[m])
      /\ Len(right.entries) = n - m
  BY <1>4, LeafPart
<1>7. l.start[m] - l.start[0] = l.start[m]
  BY <1>2, <1>4
<1> HIDE DEF left, right, n
<1>8. /\ LeafSplitBySize(l, P).left = left
      /\ LeafSplitBySize(l, P).right = right
  BY <1>3
<1> QED  BY <1>1, <1>4, <1>5, <1>6, <1>7, <1>8

---------------------------------------------------------------------------
(* Putting an entry into a leaf. *)

\* Keys are naturals.
LEMMA EntryIsSized ==
    ASSUME NEW e \in Entry
    PROVE  e.key \in Key /\ e.key \in Nat /\ EntryBytes(e) \in Nat /\ EntryBytes(e) >= 4
<1>1. e.key \in Key /\ e.val \in Value
  BY DEF Entry
<1>2. e.key \in Nat /\ KeyLen[e.key] \in Nat /\ ValLen[e.val] \in Nat
  BY <1>1, KeyAssumption, ValueAssumption
<1>3. EntryBytes(e) = 4 + KeyLen[e.key] + ValLen[e.val]
  BY DEF EntryBytes
<1> QED  BY <1>1, <1>2, <1>3

\* leaf_search() returns the place of a key, or where it belongs.
LEMMA LeafPlace ==
    ASSUME NEW P \in Sizes, NEW l, SoundLeaf(l, P), NEW key \in Key
    PROVE  LET s == LeafSearch(l, key)
               n == Len(l.entries)
           IN  /\ s.at \in 0 .. n
               /\ s.found => s.at \in 0 .. n - 1 /\ l.entries[s.at + 1].key = key
               /\ \A i \in 1 .. n : i <= s.at => l.entries[i].key < key
               /\ ~s.found => \A i \in 1 .. n : i > s.at => key < l.entries[i].key
<1> DEFINE n == Len(l.entries)
           S == {i \in 0 .. n : i = n \/ key <= l.entries[i + 1].key}
           at == Min(S)
           found == at < n /\ l.entries[at + 1].key = key
<1>1. n \in Nat /\ \A i \in 1 .. n : l.entries[i] \in Entry
  BY LeafFacts
<1>2. key \in Nat
  BY KeyAssumption
<1>3. \A i \in 1 .. n : l.entries[i].key \in Nat
  BY <1>1, EntryIsSized
<1>4. \A i, j \in 1 .. n : i < j => l.entries[i].key < l.entries[j].key
  BY LeafKeys
<1>5. S \subseteq Nat /\ n \in S
  BY <1>1
<1>6. LeafSearch(l, key) = [found |-> found, at |-> at]
  BY DEF LeafSearch
<1> HIDE DEF n
<1>7. at \in S /\ \A j \in S : at <= j
  <2> HIDE DEF S
  <2> QED  BY <1>5, MinIsLeast
<1>8. at \in 0 .. n /\ (at = n \/ key <= l.entries[at + 1].key)
  <2> HIDE DEF at
  <2> QED  BY <1>7
<1>9. ASSUME NEW i \in 1 .. n, i <= at PROVE l.entries[i].key < key
  <2>1. i - 1 \in 0 .. n /\ i - 1 < at
    <3> HIDE DEF at
    <3> QED  BY <1>9, <1>8, <1>1
  <2>2. i - 1 \notin S
    <3> HIDE DEF at, S
    <3> QED  BY <2>1, <1>7, <1>8, <1>5
  <2>3. ~ (key <= l.entries[(i - 1) + 1].key)
    BY <2>1, <2>2
  <2>4. (i - 1) + 1 = i /\ l.entries[i].key \in Nat
    BY <1>3, <1>1
  <2> HIDE DEF S, at
  <2> QED  BY <2>3, <2>4, <1>2
<1>10. ASSUME NEW i \in 1 .. n, i > at, ~found PROVE key < l.entries[i].key
  <2>1. at < n /\ at + 1 \in 1 .. n /\ at \in Nat
    <3> HIDE DEF at
    <3> QED  BY <1>10, <1>8, <1>1
  <2>2. key <= l.entries[at + 1].key /\ l.entries[at + 1].key # key
    <3> HIDE DEF at, S
    <3> QED  BY <2>1, <1>8, <1>10
  <2>3. l.entries[at + 1].key \in Nat /\ l.entries[i].key \in Nat
    BY <2>1, <1>3
  <2> HIDE DEF at, S, found
  <2>4. CASE i = at + 1
    BY <2>2, <2>3, <2>4, <1>2
  <2>5. CASE i # at + 1
    <3>1. at + 1 < i
      BY <2>5, <2>1, <1>10, <1>1
    <3>2. l.entries[at + 1].key < l.entries[i].key
      BY <3>1, <2>1, <1>4
    <3> QED  BY <3>2, <2>2, <2>3, <1>2
  <2> QED  BY <2>4, <2>5
<1>11. found => at \in 0 .. n - 1 /\ l.entries[at + 1].key = key
  <2> HIDE DEF at
  <2> QED  BY <1>8, <1>1
<1> HIDE DEF at, found, S
<1>12. LeafSearch(l, key).found = found /\ LeafSearch(l, key).at = at
  BY <1>6
<1> QED  BY <1>8, <1>9, <1>10, <1>11, <1>12 DEF n

\* A function with one element more, as InsertAt makes it of a sequence.
Spliced(g, at, x, j) ==
    IF j < at + 1 THEN g[j] ELSE IF j = at + 1 THEN x ELSE g[j - 1]

\* Offsets that were true are true after a push(): they grow by the size of
\* what now is at each place.
LEMMA PushedOffsets ==
    ASSUME NEW n \in Nat, NEW start \in [0 .. n -> Nat], NEW at \in 0 .. n,
           NEW bytes \in Nat, NEW size \in [1 .. n -> Nat],
           \A i \in 1 .. n : start[i] = start[i - 1] + size[i]
    PROVE  LET s == Pushed(start, n, at, bytes)
           IN  /\ s \in [0 .. n + 1 -> Nat]
               /\ s[0] = start[0] /\ s[n + 1] = start[n] + bytes
               /\ \A i \in 1 .. n + 1 : s[i] = s[i - 1] + Spliced(size, at, bytes, i)
<1> DEFINE s == Pushed(start, n, at, bytes)
<1>1. /\ DOMAIN s = 0 .. n + 1
      /\ \A i \in 0 .. n + 1 :
            s[i] = IF i <= at THEN start[i] ELSE start[i - 1] + bytes
  BY DEF Pushed
<1>2. ASSUME NEW i \in 0 .. n + 1
      PROVE  (IF i <= at THEN start[i] ELSE start[i - 1] + bytes) \in Nat
  <2>1. CASE i <= at
    <3>1. start[i] \in Nat
      BY <2>1
    <3> QED  BY <2>1, <3>1
  <2>2. CASE ~ (i <= at)
    <3>1. start[i - 1] \in Nat
      BY <2>2
    <3> QED  BY <2>2, <3>1
  <2> QED  BY <2>1, <2>2
<1>3. s \in [0 .. n + 1 -> Nat]
  BY <1>2 DEF Pushed
<1> HIDE DEF s
<1>4. s[0] = start[0] /\ s[n + 1] = start[n] + bytes
  <2>1. 0 \in 0 .. n + 1 /\ 0 <= at /\ n + 1 \in 0 .. n + 1 /\ ~ (n + 1 <= at)
        /\ (n + 1) - 1 = n
    OBVIOUS
  <2> QED  BY <2>1, <1>1
<1>5. ASSUME NEW i \in 1 .. n + 1
      PROVE  s[i] = s[i - 1] + Spliced(size, at, bytes, i)
  <2>0. i \in 0 .. n + 1 /\ i - 1 \in 0 .. n + 1
    OBVIOUS
  <2>1. CASE i <= at
    <3>1. i - 1 <= at /\ i < at + 1 /\ i \in 1 .. n
      BY <2>1
    <3>2. s[i] = start[i] /\ s[i - 1] = start[i - 1]
      BY <2>0, <2>1, <3>1, <1>1
    <3>3. start[i] = start[i - 1] + size[i]
      BY <3>1
    <3>4. Spliced(size, at, bytes, i) = size[i]
      BY <3>1 DEF Spliced
    <3> QED  BY <3>2, <3>3, <3>4
  <2>2. CASE i = at + 1
    <3>1. ~ (i <= at) /\ i - 1 <= at /\ ~ (i < at + 1)
      BY <2>2
    <3>2. s[i] = start[i - 1] + bytes /\ s[i - 1] = start[i - 1]
      BY <2>0, <3>1, <1>1
    <3>3. Spliced(size, at, bytes, i) = bytes
      BY <2>2, <3>1 DEF Spliced
    <3> QED  BY <3>2, <3>3
  <2>3. CASE ~ (i <= at) /\ i # at + 1
    <3>1. /\ ~ (i <= at) /\ ~ (i - 1 <= at) /\ ~ (i < at + 1)
          /\ i - 1 \in 1 .. n /\ i - 2 \in 0 .. n /\ (i - 1) - 1 = i - 2
      BY <2>3
    <3>2. s[i] = start[i - 1] + bytes
      BY <2>0, <3>1, <1>1
    <3>3. s[i - 1] = start[(i - 1) - 1] + bytes
      BY <2>0, <3>1, <1>1
    <3>4. start[i - 1] = start[(i - 1) - 1] + size[i - 1]
      BY <3>1
    <3>5. Spliced(size, at, bytes, i) = size[i - 1]
      BY <2>3, <3>1 DEF Spliced
    <3>6. start[i - 2] \in Nat /\ size[i - 1] \in Nat
      BY <3>1
    <3> QED  BY <3>1, <3>2, <3>3, <3>4, <3>5, <3>6
  <2> QED  BY <2>1, <2>2, <2>3
<1> QED  BY <1>3, <1>4, <1>5 DEF s

\* Keys in order, with one more where it belongs, are in order.
LEMMA SplicedInOrder ==
    ASSUME NEW n \in Nat, NEW at \in 0 .. n, NEW k \in Nat,
           NEW g \in [1 .. n -> Nat],
           \A i, j \in 1 .. n : i < j => g[i] < g[j],
           \A i \in 1 .. n : i <= at => g[i] < k,
           \A i \in 1 .. n : i > at => k < g[i],
           NEW i \in 1 .. n + 1, NEW j \in 1 .. n + 1, i < j
    PROVE  Spliced(g, at, k, i) < Spliced(g, at, k, j)
<1>1. CASE i < at + 1
  <2>1. i \in 1 .. n /\ i <= at /\ g[i] < k /\ g[i] \in Nat
    BY <1>1
  <2>2. Spliced(g, at, k, i) = g[i]
    BY <1>1 DEF Spliced
  <2>3. CASE j < at + 1
    <3>1. j \in 1 .. n /\ g[i] < g[j]
      BY <2>1, <2>3
    <3> QED  BY <2>2, <2>3, <3>1 DEF Spliced
  <2>4. CASE j = at + 1
    BY <2>1, <2>2, <2>4 DEF Spliced
  <2>5. CASE j > at + 1
    <3>1. j - 1 \in 1 .. n /\ i < j - 1
      BY <2>5, <1>1
    <3>2. g[i] < g[j - 1]
      BY <3>1, <2>1
    <3>3. Spliced(g, at, k, j) = g[j - 1]
      BY <2>5 DEF Spliced
    <3> QED  BY <3>2, <3>3, <2>2
  <2> QED  BY <2>3, <2>4, <2>5
<1>2. CASE i = at + 1
  <2>1. j - 1 \in 1 .. n /\ j - 1 > at
    BY <1>2
  <2>2. k < g[j - 1]
    BY <2>1
  <2>3. Spliced(g, at, k, i) = k /\ Spliced(g, at, k, j) = g[j - 1]
    BY <1>2 DEF Spliced
  <2> QED  BY <2>2, <2>3
<1>3. CASE i > at + 1
  <2>1. i - 1 \in 1 .. n /\ j - 1 \in 1 .. n /\ i - 1 < j - 1
    BY <1>3
  <2>2. g[i - 1] < g[j - 1]
    BY <2>1
  <2>3. Spliced(g, at, k, i) = g[i - 1] /\ Spliced(g, at, k, j) = g[j - 1]
    BY <1>3 DEF Spliced
  <2> QED  BY <2>2, <2>3
<1> QED  BY <1>1, <1>2, <1>3

\* leaf_insert() at the place where a key belongs keeps a leaf sound and adds
\* the size of the entry.
LEMMA LeafInsertSound ==
    ASSUME NEW P \in Sizes, NEW l, SoundLeaf(l, P),
           NEW e \in Entry, EntryBytes(e) <= MaxKvSize(P) + 4,
           NEW at \in 0 .. Len(l.entries),
           \A i \in 1 .. Len(l.entries) : i <= at => l.entries[i].key < e.key,
           \A i \in 1 .. Len(l.entries) : i > at => e.key < l.entries[i].key
    PROVE  LET new == LeafInsert(l, at, e)
           IN  /\ SoundLeaf(new, P) /\ new.kind = "leaf"
               /\ LeafBytes(new) = LeafBytes(l) + EntryBytes(e)
               /\ Len(new.entries) = Len(l.entries) + 1
<1> DEFINE n == Len(l.entries)
           es == InsertAt(l.entries, at + 1, e)
           s == Pushed(l.start, n, at, EntryBytes(e))
           size == [i \in 1 .. n |-> EntryBytes(l.entries[i])]
           keys == [i \in 1 .. n |-> l.entries[i].key]
<1>1. /\ n \in Nat /\ l.entries \in Seq(Entry) /\ l.start \in [0 .. n -> Nat]
      /\ l.start[0] = 0
  BY LeafFacts
<1>2. \A i \in 1 .. n : /\ l.entries[i] \in Entry
                       /\ EntryBytes(l.entries[i]) \in 4 .. MaxKvSize(P) + 4
                       /\ l.start[i] = l.start[i - 1] + EntryBytes(l.entries[i])
  BY LeafFacts
<1>3. MaxKvSize(P) \in Nat /\ EntryBytes(e) \in Nat /\ e.key \in Nat
  BY LimitFacts, EntryIsSized
<1>4. /\ at \in 0 .. n /\ at + 1 \in 1 .. n + 1
      /\ \A i \in 1 .. n : i <= at => keys[i] < e.key
      /\ \A i \in 1 .. n : i > at => e.key < keys[i]
      /\ \A i, j \in 1 .. n : i < j => keys[i] < keys[j]
  BY <1>1, LeafKeys
<1>5. size \in [1 .. n -> Nat] /\ keys \in [1 .. n -> Nat]
  <2>1. ASSUME NEW i \in 1 .. n
        PROVE  EntryBytes(l.entries[i]) \in Nat /\ l.entries[i].key \in Nat
    BY <1>2, EntryIsSized
  <2> QED  BY <2>1
<1>6. \A i \in 1 .. n : l.start[i] = l.start[i - 1] + size[i]
  BY <1>2
<1>7. \A i \in 1 .. n : size[i] = EntryBytes(l.entries[i]) /\ keys[i] = l.entries[i].key
  OBVIOUS
<1> HIDE DEF size, keys
<1>8. /\ es \in Seq(Entry) /\ Len(es) = n + 1
      /\ \A j \in 1 .. n + 1 : es[j] = IF j < at + 1 THEN l.entries[j]
                                     ELSE IF j = at + 1 THEN e ELSE l.entries[j - 1]
  <2> DEFINE place == at + 1
             old == l.entries
             x == InsertAt(old, place, e)
  <2>1. place \in 1 .. Len(old) + 1
    BY <1>4
  <2>2. old \in Seq(Entry)
    BY <1>1
  <2> HIDE DEF place, old
  <2>3. /\ x \in Seq(Entry) /\ Len(x) = Len(old) + 1
        /\ \A j \in 1 .. Len(old) + 1 :
              x[j] = IF j < place THEN old[j]
                     ELSE IF j = place THEN e ELSE old[j - 1]
    BY <2>1, <2>2, InsertAtElements
  <2> HIDE DEF x
  <2>4. es = x
    BY DEF x, place, old
  <2> HIDE DEF es, n
  <2> QED  BY <2>3, <2>4 DEF n, place, old
<1> HIDE DEF n, es, s
<1>9. /\ s \in [0 .. n + 1 -> Nat] /\ s[0] = 0
      /\ s[n + 1] = l.start[n] + EntryBytes(e)
      /\ \A i \in 1 .. n + 1 : s[i] = s[i - 1] + Spliced(size, at, EntryBytes(e), i)
  <2> DEFINE bytes == EntryBytes(e)
             offsets == l.start
  <2>1. /\ n \in Nat /\ offsets \in [0 .. n -> Nat] /\ at \in 0 .. n
        /\ bytes \in Nat /\ size \in [1 .. n -> Nat]
    BY <1>1, <1>3, <1>4, <1>5
  <2>2. \A i \in 1 .. n : offsets[i] = offsets[i - 1] + size[i]
    BY <1>6
  <2>3. s = Pushed(offsets, n, at, bytes) /\ offsets[0] = 0
    BY <1>1 DEF s
  <2> HIDE DEF bytes, offsets
  <2>4. LET x == Pushed(offsets, n, at, bytes)
        IN  /\ x \in [0 .. n + 1 -> Nat]
            /\ x[0] = offsets[0] /\ x[n + 1] = offsets[n] + bytes
            /\ \A i \in 1 .. n + 1 : x[i] = x[i - 1] + Spliced(size, at, bytes, i)
    BY <2>1, <2>2, PushedOffsets
  <2> QED  BY <2>3, <2>4 DEF bytes, offsets
<1>10. ASSUME NEW i \in 1 .. n + 1
       PROVE  /\ Spliced(size, at, EntryBytes(e), i) = EntryBytes(es[i])
              /\ Spliced(keys, at, e.key, i) = es[i].key
              /\ EntryBytes(es[i]) <= MaxKvSize(P) + 4
  <2>1. CASE i < at + 1
    <3>1. i \in 1 .. n /\ es[i] = l.entries[i]
      BY <2>1, <1>8, <1>4, <1>1
    <3>2. EntryBytes(l.entries[i]) <= MaxKvSize(P) + 4
      BY <3>1, <1>2, <1>3
    <3> QED  BY <2>1, <3>1, <3>2, <1>7 DEF Spliced
  <2>2. CASE i = at + 1
    <3>1. ~ (i < at + 1) /\ es[i] = e
      BY <2>2, <1>8, <1>4, <1>1
    <3> QED  BY <2>2, <3>1 DEF Spliced
  <2>3. CASE i > at + 1
    <3>1. i - 1 \in 1 .. n /\ ~ (i < at + 1) /\ i # at + 1
      BY <2>3, <1>4, <1>1
    <3>2. es[i] = l.entries[i - 1]
      BY <3>1, <1>8
    <3>3. EntryBytes(l.entries[i - 1]) <= MaxKvSize(P) + 4
      BY <3>1, <1>2, <1>3
    <3> QED  BY <3>1, <3>2, <3>3, <1>7 DEF Spliced
  <2> QED  BY <2>1, <2>2, <2>3, <1>1, <1>4
<1>11. ASSUME NEW i \in 1 .. n + 1, NEW j \in 1 .. n + 1, i < j
       PROVE  es[i].key < es[j].key
  <2>1. Spliced(keys, at, e.key, i) < Spliced(keys, at, e.key, j)
    BY <1>1, <1>3, <1>4, <1>5, <1>11, SplicedInOrder
  <2> QED  BY <2>1, <1>10
<1>12. LeafParts(es, s, P)
  BY <1>8, <1>9, <1>10, <1>11 DEF LeafParts
<1>13. /\ SoundLeaf(LeafOf(es, s), P) /\ LeafOf(es, s).entries = es
       /\ LeafOf(es, s).kind = "leaf"
       /\ LeafBytes(LeafOf(es, s)) = 11 + s[Len(es)]
  BY <1>12, MakeLeaf
<1>14. LeafInsert(l, at, e) = LeafOf(es, s)
  BY DEF LeafInsert, es, s, n
<1>15. LeafBytes(l) = 11 + l.start[n] /\ l.start[n] \in Nat
  BY <1>1 DEF LeafBytes, LEAF_HEADER, n
<1>16. LeafBytes(LeafOf(es, s)) = LeafBytes(l) + EntryBytes(e)
  BY <1>3, <1>8, <1>9, <1>13, <1>15
<1> QED  BY <1>8, <1>13, <1>14, <1>16 DEF n

\* leaf_update() of an entry of the same key keeps a leaf sound and exchanges
\* the size of the old entry for that of the new one.
LEMMA LeafUpdateSound ==
    ASSUME NEW P \in Sizes, NEW l, SoundLeaf(l, P),
           NEW e \in Entry, EntryBytes(e) <= MaxKvSize(P) + 4,
           NEW at \in 0 .. Len(l.entries) - 1, l.entries[at + 1].key = e.key
    PROVE  LET new == LeafUpdate(l, at, e)
           IN  /\ SoundLeaf(new, P) /\ new.kind = "leaf"
               /\ LeafBytes(new) <= LeafBytes(l) + EntryBytes(e)
               /\ Len(new.entries) = Len(l.entries)
<1> DEFINE n == Len(l.entries)
           es == ReplaceAt(l.entries, at + 1, e)
           was == EntryBytes(l.entries[at + 1])
           is == EntryBytes(e)
           offset(i) == IF i <= at THEN l.start[i] ELSE l.start[i] - was + is
           s == [i \in 0 .. n |-> offset(i)]
<1>1. /\ n \in Nat /\ l.entries \in Seq(Entry) /\ l.start \in [0 .. n -> Nat]
      /\ l.start[0] = 0
  BY LeafFacts
<1>2. \A i \in 1 .. n : /\ l.entries[i] \in Entry
                       /\ EntryBytes(l.entries[i]) \in 4 .. MaxKvSize(P) + 4
                       /\ l.start[i] = l.start[i - 1] + EntryBytes(l.entries[i])
  BY LeafFacts
<1>3. \A i \in 0 .. n : \A j \in i .. n : l.start[i] <= l.start[j]
  BY LeafFacts
<1>4. at \in Nat /\ at + 1 \in 1 .. n /\ at \in 0 .. n /\ at < n
  BY <1>1
<1>5. MaxKvSize(P) \in Nat /\ is \in Nat /\ is <= MaxKvSize(P) + 4
  BY LimitFacts, EntryIsSized
<1>6. was \in Nat /\ l.start[at + 1] = l.start[at] + was /\ l.start[at] \in Nat
  <2>1. was \in 4 .. MaxKvSize(P) + 4 /\ l.start[at + 1] = l.start[(at + 1) - 1] + was
    BY <1>2, <1>4
  <2>2. (at + 1) - 1 = at
    BY <1>4
  <2> QED  BY <2>1, <2>2, <1>1, <1>4, <1>5
<1>7. /\ es \in Seq(Entry) /\ Len(es) = n
      /\ \A j \in 1 .. n : es[j] = IF j = at + 1 THEN e ELSE l.entries[j]
  <2> DEFINE place == at + 1
             old == l.entries
             x == ReplaceAt(old, place, e)
  <2>1. place \in 1 .. Len(old) /\ old \in Seq(Entry)
    BY <1>1, <1>4
  <2> HIDE DEF place, old
  <2>2. /\ x \in Seq(Entry) /\ Len(x) = Len(old)
        /\ \A j \in 1 .. Len(old) : x[j] = IF j = place THEN e ELSE old[j]
    BY <2>1, ReplaceAtElements
  <2>3. es = x
    BY DEF x, place, old
  <2> HIDE DEF x, es, n
  <2> QED  BY <2>2, <2>3 DEF n, place, old
<1> HIDE DEF was, is, es
<1>8. ASSUME NEW i \in 0 .. n PROVE offset(i) \in Nat /\ l.start[i] \in Nat
  <2>0. l.start[i] \in Nat
    BY <1>1
  <2>1. CASE i <= at
    BY <2>0, <2>1
  <2>2. CASE ~ (i <= at)
    <3>1. at + 1 \in 0 .. n /\ i \in at + 1 .. n
      BY <2>2, <1>4, <1>1
    <3>2. l.start[at + 1] <= l.start[i]
      <4> DEFINE after == at + 1
      <4>1. after \in 0 .. n /\ i \in after .. n
        BY <3>1
      <4> HIDE DEF after, n
      <4>2. l.start[after] <= l.start[i]
        BY <4>1, <1>3
      <4> QED  BY <4>2 DEF after
    <3>3. l.start[i] - was + is \in Nat
      <4> DEFINE here == l.start[i]
                 before == l.start[at]
      <4>1. here \in Nat /\ before \in Nat /\ before + was <= here
        BY <3>2, <2>0, <1>6
      <4>2. was \in Nat /\ is \in Nat
        BY <1>5, <1>6
      <4> HIDE DEF here, before
      <4>3. here - was + is \in Nat
        BY <4>1, <4>2
      <4> QED  BY <4>3 DEF here
    <3> QED  BY <2>0, <2>2, <3>3
  <2> QED  BY <2>1, <2>2
<1>9. s \in [0 .. n -> Nat] /\ \A i \in 0 .. n : s[i] = offset(i)
  <2> HIDE DEF offset, n
  <2> QED  BY <1>8
<1> HIDE DEF s, n
<1>10. s[0] = 0 /\ s[n] = l.start[n] - was + is
  <2>1. 0 \in 0 .. n /\ 0 <= at /\ n \in 0 .. n /\ ~ (n <= at)
    BY <1>1, <1>4
  <2> QED  BY <2>1, <1>1, <1>9
<1>11. ASSUME NEW i \in 1 .. n
       PROVE  /\ s[i] = s[i - 1] + EntryBytes(es[i])
              /\ EntryBytes(es[i]) <= MaxKvSize(P) + 4
  <2>0. i \in 0 .. n /\ i - 1 \in 0 .. n
    BY <1>1
  <2>1. s[i] = offset(i) /\ s[i - 1] = offset(i - 1)
    BY <2>0, <1>9
  <2>2. l.start[i] \in Nat /\ l.start[i - 1] \in Nat
    BY <2>0, <1>8
  <2>3. /\ EntryBytes(l.entries[i]) \in 4 .. MaxKvSize(P) + 4
        /\ l.start[i] = l.start[i - 1] + EntryBytes(l.entries[i])
    BY <1>2
  <2>4. es[i] = IF i = at + 1 THEN e ELSE l.entries[i]
    BY <1>7
  <2>5. CASE i <= at
    <3>1. i - 1 <= at /\ i # at + 1
      BY <2>5, <1>4
    <3> QED  BY <2>1, <2>2, <2>3, <2>4, <2>5, <3>1, <1>5
  <2>6. CASE i = at + 1
    <3>1. i - 1 <= at /\ ~ (i <= at) /\ i - 1 = at
      BY <2>6, <1>4
    <3>2. es[i] = e /\ EntryBytes(es[i]) = is
      BY <2>4, <2>6 DEF is
    <3>3. s[i] = l.start[i] - was + is /\ s[i - 1] = l.start[i - 1]
      BY <2>1, <3>1
    <3>4. l.start[i] = l.start[i - 1] + was
      BY <2>6, <3>1, <1>6
    <3> QED  BY <2>2, <3>2, <3>3, <3>4, <1>5, <1>6
  <2>7. CASE ~ (i <= at) /\ i # at + 1
    <3>1. ~ (i - 1 <= at)
      BY <2>7, <1>4
    <3>2. s[i] = l.start[i] - was + is /\ s[i - 1] = l.start[i - 1] - was + is
      BY <2>1, <2>7, <3>1
    <3>3. es[i] = l.entries[i]
      BY <2>4, <2>7
    <3> DEFINE bytes == EntryBytes(l.entries[i])
    <3>4. l.start[i] = l.start[i - 1] + bytes /\ bytes \in 4 .. MaxKvSize(P) + 4
      BY <2>3
    <3> HIDE DEF bytes
    <3>5. l.start[i] - was + is = l.start[i - 1] - was + is + bytes
      <4> DEFINE here == l.start[i]
                 before == l.start[i - 1]
      <4>1. here \in Nat /\ before \in Nat /\ here = before + bytes
        BY <2>2, <3>4
      <4>2. bytes \in Int
        BY <3>4
      <4>3. was \in Int /\ is \in Int
        BY <1>5, <1>6
      <4> HIDE DEF here, before
      <4>4. here - was + is = before - was + is + bytes
        BY <4>1, <4>2, <4>3
      <4> QED  BY <4>4 DEF here, before
    <3>6. bytes <= MaxKvSize(P) + 4
      BY <3>4, <1>5
    <3> QED  BY <3>2, <3>3, <3>5, <3>6 DEF bytes
  <2> QED  BY <2>5, <2>6, <2>7
<1>12. ASSUME NEW i \in 1 .. n PROVE es[i].key = l.entries[i].key
  BY <1>7
<1>13. ASSUME NEW i \in 1 .. n, NEW j \in 1 .. n, i < j PROVE es[i].key < es[j].key
  <2>1. l.entries[i].key < l.entries[j].key
    BY <1>13, LeafKeys DEF n
  <2> QED  BY <2>1, <1>12
<1>14. /\ SoundLeaf(LeafOf(es, s), P) /\ LeafOf(es, s).entries = es
       /\ LeafOf(es, s).kind = "leaf"
       /\ LeafBytes(LeafOf(es, s)) = 11 + s[Len(es)]
  <2>1. LeafParts(es, s, P)
    BY <1>7, <1>9, <1>10, <1>11, <1>13 DEF LeafParts
  <2> QED  BY <2>1, MakeLeaf
<1>15. LeafUpdate(l, at, e) = LeafOf(es, s)
  BY DEF LeafUpdate, es, s, n, was, is
<1>16. LeafBytes(l) = 11 + l.start[n] /\ l.start[n] \in Nat
  BY <1>1 DEF LeafBytes, LEAF_HEADER, n
<1>17. LeafBytes(LeafOf(es, s)) <= LeafBytes(l) + is
  <2> DEFINE last == l.start[n]
             end == s[Len(es)]
  <2>1. Len(es) = n
    BY <1>7
  <2>2. last \in Nat /\ was \in Nat /\ is \in Nat
    BY <1>5, <1>6, <1>16
  <2>3. end = last - was + is
    BY <2>1, <1>10
  <2>4. LeafBytes(LeafOf(es, s)) = 11 + end /\ LeafBytes(l) = 11 + last
    BY <1>14, <1>16
  <2> HIDE DEF last, end
  <2>5. 11 + end <= 11 + last + is
    BY <2>2, <2>3
  <2> QED  BY <2>4, <2>5
<1> QED  BY <1>7, <1>14, <1>15, <1>17 DEF n, is

\* insert_leaf(): a leaf that fits becomes one that fits, or two.
LEMMA InsertLeafSound ==
    ASSUME NEW P \in Sizes, NEW l, SoundLeaf(l, P), LeafBytes(l) <= P,
           NEW e \in Entry, CheckLimits(P, e.key, e.val)
    PROVE  LET r == InsertLeaf(l, e, P)
           IN  /\ SoundLeaf(r.left, P) /\ LeafBytes(r.left) <= P
               /\ r.left.kind = "leaf" /\ Len(r.left.entries) >= 1
               /\ r.split \in BOOLEAN
               /\ r.split => /\ SoundLeaf(r.right, P) /\ LeafBytes(r.right) <= P
                             /\ r.right.kind = "leaf" /\ Len(r.right.entries) >= 1
                             /\ r.sep = r.right.entries[1].key
                             /\ r.sep \in Key /\ SepBytes(r.sep) <= MaxKvSize(P) + 2
<1> DEFINE s == LeafSearch(l, e.key)
           n == Len(l.entries)
           built == IF s.found THEN LeafUpdate(l, s.at, e) ELSE LeafInsert(l, s.at, e)
           half == LeafSplitBySize(built, P)
<1>1. EntryBytes(e) <= MaxKvSize(P) + 4 /\ EntryBytes(e) \in Nat /\ MaxKvSize(P) \in Nat
  <2>1. /\ e.key \in Key /\ e.val \in Value
        /\ KeyLen[e.key] \in Nat /\ ValLen[e.val] \in Nat
    BY KeyAssumption, ValueAssumption DEF Entry
  <2>2. KeyLen[e.key] + ValLen[e.val] <= MaxKvSize(P) /\ MaxKvSize(P) \in Nat
    BY LimitFacts DEF CheckLimits
  <2> QED  BY <2>1, <2>2 DEF EntryBytes
<1>2. n \in Nat /\ e.key \in Key /\ LeafBytes(l) \in Nat
  <2>1. n \in Nat /\ l.start \in [0 .. n -> Nat]
    BY LeafFacts
  <2>2. l.start[n] \in Nat
    BY <2>1
  <2> QED  BY <2>1, <2>2, EntryIsSized DEF LeafBytes, LEAF_HEADER
<1>3. /\ s.at \in 0 .. n
      /\ s.found => s.at \in 0 .. n - 1 /\ l.entries[s.at + 1].key = e.key
      /\ \A i \in 1 .. n : i <= s.at => l.entries[i].key < e.key
      /\ ~s.found => \A i \in 1 .. n : i > s.at => e.key < l.entries[i].key
  BY <1>2, LeafPlace
<1> HIDE DEF s
<1>4. /\ SoundLeaf(built, P) /\ built.kind = "leaf"
      /\ LeafBytes(built) <= LeafBytes(l) + EntryBytes(e)
      /\ Len(built.entries) >= 1
  <2>1. CASE s.found
    <3>1. s.at \in 0 .. n - 1 /\ l.entries[s.at + 1].key = e.key /\ n >= 1
      BY <2>1, <1>2, <1>3
    <3>2. LET new == LeafUpdate(l, s.at, e)
          IN  /\ SoundLeaf(new, P) /\ new.kind = "leaf"
              /\ LeafBytes(new) <= LeafBytes(l) + EntryBytes(e)
              /\ Len(new.entries) = n
      BY <3>1, <1>1, LeafUpdateSound
    <3> QED  BY <2>1, <3>1, <3>2
  <2>2. CASE ~s.found
    <3>1. LET new == LeafInsert(l, s.at, e)
          IN  /\ SoundLeaf(new, P) /\ new.kind = "leaf"
              /\ LeafBytes(new) = LeafBytes(l) + EntryBytes(e)
              /\ Len(new.entries) = n + 1
      BY <2>2, <1>1, <1>3, LeafInsertSound
    <3>2. n + 1 >= 1 /\ LeafBytes(l) + EntryBytes(e) <= LeafBytes(l) + EntryBytes(e)
      BY <1>1, <1>2
    <3> QED  BY <2>2, <3>1, <3>2
  <2> QED  BY <2>1, <2>2
<1> HIDE DEF built, n
<1>5. P \in Nat /\ LeafBytes(built) \in Nat
  <2>1. Len(built.entries) \in Nat /\ built.start \in [0 .. Len(built.entries) -> Nat]
    BY <1>4, LeafFacts
  <2>2. built.start[Len(built.entries)] \in Nat
    BY <2>1
  <2> QED  BY <2>2, LimitFacts DEF LeafBytes, LEAF_HEADER
<1>6. CASE LeafBytes(built) <= P
  <2>1. InsertLeaf(l, e, P) = Single(built)
    BY <1>6 DEF InsertLeaf, built, s
  <2> QED  BY <2>1, <1>4, <1>6 DEF Single
<1>7. CASE ~ (LeafBytes(built) <= P)
  <2>1. LeafBytes(built) > P /\ LeafBytes(built) <= P + MaxKvSize(P) + 4
    BY <1>1, <1>2, <1>4, <1>5, <1>7
  <2>2. /\ SoundLeaf(half.left, P) /\ SoundLeaf(half.right, P)
        /\ half.left.kind = "leaf" /\ half.right.kind = "leaf"
        /\ LeafBytes(half.left) <= P /\ LeafBytes(half.right) <= P
        /\ Len(half.left.entries) >= 1 /\ Len(half.right.entries) >= 1
    BY <2>1, <1>4, LeafSplitSound
  <2>3. InsertLeaf(l, e, P) = Split(half.left, half.right.entries[1].key, half.right)
    BY <1>7 DEF InsertLeaf, built, s
  <2> HIDE DEF half
  <2> DEFINE first == half.right.entries[1]
  <2>4. first \in Entry /\ EntryBytes(first) <= MaxKvSize(P) + 4
    <3>1. Len(half.right.entries) \in Nat
      BY <2>2, LeafFacts
    <3>2. 1 \in 1 .. Len(half.right.entries)
      BY <3>1, <2>2
    <3>3. first \in Entry /\ EntryBytes(first) \in 4 .. MaxKvSize(P) + 4
      BY <2>2, <3>2, LeafFacts
    <3> QED  BY <3>3, <1>1
  <2>5. first.key \in Key /\ SepBytes(first.key) <= MaxKvSize(P) + 2
    <3>1. /\ first.key \in Key /\ first.val \in Value
          /\ KeyLen[first.key] \in Nat /\ ValLen[first.val] \in Nat
      BY <2>4, KeyAssumption, ValueAssumption DEF Entry
    <3> QED  BY <2>4, <3>1, <1>1 DEF EntryBytes, SepBytes
  <2> QED  BY <2>2, <2>3, <2>5 DEF Split
<1> QED  BY <1>6, <1>7

---------------------------------------------------------------------------
(* Internal nodes: the same, with eight bytes more for each child, and one *)
(* key that stays in neither part.                                         *)

\* Separators are sized.
LEMMA SepIsSized ==
    ASSUME NEW key \in Key
    PROVE  key \in Nat /\ SepBytes(key) \in Nat /\ SepBytes(key) >= 2
BY KeyAssumption DEF SepBytes

\* What the keys of a sound internal node say about its offsets.
LEMMA InternalFacts ==
    ASSUME NEW P \in Sizes, NEW n, SoundInternal(n, P)
    PROVE  LET np == Len(n.keys)
           IN  /\ n.kind = "internal" /\ n.keys \in Seq(Key) /\ np \in Nat
               /\ n.children \in Seq(Ids) /\ Len(n.children) = np + 1
               /\ n.start \in [0 .. np -> Nat] /\ n.start[0] = 0
               /\ \A i \in 1 .. np : /\ n.keys[i] \in Key
                                    /\ SepBytes(n.keys[i]) \in 2 .. MaxKvSize(P) + 2
                                    /\ n.start[i] = n.start[i - 1] + SepBytes(n.keys[i])
               /\ \A i, j \in 1 .. np : i < j => n.keys[i] < n.keys[j]
               /\ \A i \in 0 .. np : \A j \in i .. np : n.start[i] <= n.start[j]
<1> DEFINE np == Len(n.keys)
<1>1. /\ n.kind = "internal" /\ n.keys \in Seq(Key) /\ np \in Nat
      /\ n.children \in Seq(Ids) /\ Len(n.children) = np + 1
      /\ n.start \in [0 .. np -> Nat] /\ n.start[0] = 0
  BY DEF SoundInternal, InternalType, Offsets
<1>2. MaxKvSize(P) \in Nat
  BY LimitFacts
<1>3. ASSUME NEW i \in 1 .. np
      PROVE  /\ n.keys[i] \in Key
             /\ SepBytes(n.keys[i]) \in 2 .. MaxKvSize(P) + 2
             /\ n.start[i] = n.start[i - 1] + SepBytes(n.keys[i])
  <2>1. n.keys[i] \in Key
    BY <1>1
  <2>2. /\ SepBytes(n.keys[i]) <= MaxKvSize(P) + 2
        /\ n.start[i] = n.start[i - 1] + SepBytes(n.keys[i])
    BY <1>1 DEF SoundInternal, Within, Offsets, Pieces, PieceBytes
  <2> QED  BY <2>1, <2>2, <1>2, SepIsSized
<1>4. \A i, j \in 1 .. np : i < j => n.keys[i] < n.keys[j]
  BY <1>1 DEF SoundInternal, InOrder, Pieces, PieceKey
<1>5. ASSUME NEW i \in 1 .. np PROVE n.start[i - 1] <= n.start[i]
  <2>1. i - 1 \in 0 .. np
    BY <1>1
  <2>2. n.start[i - 1] \in Nat
    BY <2>1, <1>1
  <2>3. SepBytes(n.keys[i]) \in Nat
    BY <1>2, <1>3
  <2>4. n.start[i] = n.start[i - 1] + SepBytes(n.keys[i])
    BY <1>3
  <2> HIDE DEF np
  <2> QED  BY <2>2, <2>3, <2>4
<1>6. \A i \in 0 .. np : \A j \in i .. np : n.start[i] <= n.start[j]
  BY <1>1, <1>5, Monotone
<1> QED  BY <1>1, <1>3, <1>4, <1>6

\* What it takes to be a sound internal node.
LEMMA MakeInternal ==
    ASSUME NEW P, NEW k \in Seq(Key), NEW s \in [0 .. Len(k) -> Nat], s[0] = 0,
           NEW c \in Seq(Ids), Len(c) = Len(k) + 1,
           \A i \in 1 .. Len(k) : /\ s[i] = s[i - 1] + SepBytes(k[i])
                                 /\ SepBytes(k[i]) <= MaxKvSize(P) + 2,
           \A i, j \in 1 .. Len(k) : i < j => k[i] < k[j]
    PROVE  LET n == InternalOf(k, s, c)
           IN  /\ SoundInternal(n, P) /\ n.keys = k /\ n.kind = "internal"
               /\ InternalBytes(n) = 11 + s[Len(k)] + 8 * (Len(k) + 1)
<1> DEFINE n == InternalOf(k, s, c)
<1>1. n.keys = k /\ n.start = s /\ n.children = c /\ n.kind = "internal"
  BY DEF InternalOf
<1>2. InternalType(n, Ids)
  BY <1>1 DEF InternalType
<1>3. Offsets(n)
  BY <1>1 DEF Offsets, Pieces, PieceBytes
<1>4. InOrder(n)
  BY <1>1 DEF InOrder, Pieces, PieceKey
<1>5. Within(n, P)
  BY <1>1 DEF Within, Pieces, PieceBytes
<1>6. InternalBytes(n) = 11 + s[Len(k)] + 8 * (Len(k) + 1)
  BY <1>1 DEF InternalBytes, INTERNAL_HEADER
<1> HIDE DEF n
<1> QED  BY <1>1, <1>2, <1>3, <1>4, <1>5, <1>6 DEF SoundInternal, n

\* put()'s new root is sound and fits.
LEMMA NewRootSound ==
    ASSUME NEW P \in Sizes, NEW sep \in Key, SepBytes(sep) <= MaxKvSize(P) + 2,
           NEW lid \in Ids, NEW rid \in Ids
    PROVE  LET n == NewRoot(sep, lid, rid)
           IN  /\ SoundInternal(n, P) /\ n.kind = "internal"
               /\ Len(n.keys) >= 1 /\ InternalBytes(n) <= P
<1> DEFINE k == <<sep>>
           s == [i \in 0 .. 1 |-> IF i = 0 THEN 0 ELSE SepBytes(sep)]
           c == <<lid, rid>>
<1>1. SepBytes(sep) \in Nat /\ sep \in Nat
  BY SepIsSized
<1>2. /\ k \in Seq(Key) /\ Len(k) = 1 /\ k[1] = sep
      /\ c \in Seq(Ids) /\ Len(c) = 2
  OBVIOUS
<1>3. s \in [0 .. 1 -> Nat] /\ s[0] = 0 /\ s[1] = SepBytes(sep)
  BY <1>1
<1> HIDE DEF k, s, c
<1>4. /\ \A i \in 1 .. Len(k) : /\ s[i] = s[i - 1] + SepBytes(k[i])
                               /\ SepBytes(k[i]) <= MaxKvSize(P) + 2
      /\ \A i, j \in 1 .. Len(k) : i < j => k[i] < k[j]
  <2>1. \A i \in 1 .. Len(k) : i = 1 /\ i - 1 = 0
    BY <1>2
  <2>2. s[1] = s[0] + SepBytes(k[1]) /\ SepBytes(k[1]) <= MaxKvSize(P) + 2
    BY <1>1, <1>2, <1>3
  <2>3. \A i \in 1 .. Len(k) : /\ s[i] = s[i - 1] + SepBytes(k[i])
                              /\ SepBytes(k[i]) <= MaxKvSize(P) + 2
    BY <2>1, <2>2
  <2>4. \A i, j \in 1 .. Len(k) : ~ (i < j)
    BY <1>2
  <2> QED  BY <2>3, <2>4
<1>5. LET n == InternalOf(k, s, c)
      IN  /\ SoundInternal(n, P) /\ n.keys = k /\ n.kind = "internal"
          /\ InternalBytes(n) = 11 + s[Len(k)] + 8 * (Len(k) + 1)
  <2>1. s \in [0 .. Len(k) -> Nat] /\ Len(c) = Len(k) + 1
    BY <1>2, <1>3
  <2> QED  BY <2>1, <1>2, <1>3, <1>4, MakeInternal
<1>6. NewRoot(sep, lid, rid) = InternalOf(k, s, c)
  BY DEF NewRoot, k, s, c
<1>7. 11 + s[Len(k)] + 8 * (Len(k) + 1) <= P
  BY <1>1, <1>2, <1>3, LimitFacts
<1>8. Len(k) >= 1
  BY <1>2
<1> DEFINE n == InternalOf(k, s, c)
<1>9. /\ SoundInternal(n, P) /\ n.keys = k /\ n.kind = "internal"
      /\ InternalBytes(n) = 11 + s[Len(k)] + 8 * (Len(k) + 1)
  BY <1>5
<1> HIDE DEF n
<1>10. Len(n.keys) >= 1 /\ InternalBytes(n) <= P
  BY <1>7, <1>8, <1>9
<1> QED  BY <1>6, <1>9, <1>10 DEF n

\* A range of the keys of a sound internal node, with the children around
\* them, is a sound internal node.
LEMMA InternalPart ==
    ASSUME NEW P \in Sizes, NEW n, SoundInternal(n, P),
           NEW from \in 0 .. Len(n.keys), NEW to \in from .. Len(n.keys)
    PROVE  LET part == InternalOf(SubSeq(n.keys, from + 1, to),
                                  Slice(n.start, from, to),
                                  SubSeq(n.children, from + 1, to + 1))
           IN  /\ SoundInternal(part, P) /\ part.kind = "internal"
               /\ InternalBytes(part)
                    = 11 + (n.start[to] - n.start[from]) + 8 * (to - from + 1)
               /\ Len(part.keys) = to - from
<1> DEFINE np == Len(n.keys)
           k == SubSeq(n.keys, from + 1, to)
           s == Slice(n.start, from, to)
           c == SubSeq(n.children, from + 1, to + 1)
           w == to - from
<1>1. /\ np \in Nat /\ n.keys \in Seq(Key) /\ n.start \in [0 .. np -> Nat]
      /\ n.children \in Seq(Ids) /\ Len(n.children) = np + 1
  BY InternalFacts
<1>2. \A i \in 1 .. np : /\ SepBytes(n.keys[i]) \in 2 .. MaxKvSize(P) + 2
                        /\ n.start[i] = n.start[i - 1] + SepBytes(n.keys[i])
  BY InternalFacts
<1>3. /\ \A i, j \in 1 .. np : i < j => n.keys[i] < n.keys[j]
      /\ \A i \in 0 .. np : \A j \in i .. np : n.start[i] <= n.start[j]
  BY InternalFacts
<1>4. /\ MaxKvSize(P) \in Nat /\ w \in Nat /\ from \in Nat /\ to \in Nat
      /\ from + w = to /\ to <= np
  BY <1>1, LimitFacts
<1>5. /\ k \in Seq(Key) /\ Len(k) = w /\ \A i \in 1 .. w : k[i] = n.keys[from + i]
  <2> DEFINE old == n.keys
             m == from + 1
  <2>1. m \in 1 .. Len(old) + 1 /\ to \in m - 1 .. Len(old) /\ old \in Seq(Key)
    BY <1>1
  <2>2. to - m + 1 = w /\ \A i \in 1 .. w : m + i - 1 = from + i
    BY <1>4
  <2> HIDE DEF old, m
  <2> DEFINE x == SubSeq(old, m, to)
  <2>3. /\ x \in Seq(Key) /\ Len(x) = to - m + 1
        /\ \A j \in 1 .. to - m + 1 : x[j] = old[m + j - 1]
    BY <2>1, SubSeqElements
  <2>4. k = x
    BY DEF old, m
  <2> HIDE DEF x, k, w
  <2> QED  BY <2>2, <2>3, <2>4 DEF old
<1>6. c \in Seq(Ids) /\ Len(c) = w + 1
  <2> DEFINE old == n.children
             m == from + 1
             last == to + 1
  <2>1. m \in 1 .. Len(old) + 1 /\ last \in m - 1 .. Len(old) /\ old \in Seq(Ids)
    BY <1>1
  <2>2. last - m + 1 = w + 1
    BY <1>4
  <2> HIDE DEF old, m, last
  <2>3. SubSeq(old, m, last) \in Seq(Ids) /\ Len(SubSeq(old, m, last)) = last - m + 1
    BY <2>1, SubSeqElements
  <2> QED  BY <2>2, <2>3 DEF old, m, last
<1>7. ASSUME NEW i \in 0 .. w
      PROVE  /\ n.start[from + i] \in Nat /\ n.start[from] \in Nat
             /\ n.start[from] <= n.start[from + i]
             /\ s[i] = n.start[from + i] - n.start[from]
  <2>1. from \in 0 .. np /\ from + i \in from .. np /\ from + i \in 0 .. np
    BY <1>4
  <2>2. s[i] = n.start[from + i] - n.start[from]
    BY DEF Slice
  <2> HIDE DEF np, w, s
  <2>3. n.start[from] <= n.start[from + i]
    BY <2>1, <1>3
  <2> QED  BY <2>1, <2>2, <2>3, <1>1
<1>8. s \in [0 .. w -> Nat]
  <2>1. s = [i \in 0 .. w |-> n.start[from + i] - n.start[from]]
    BY DEF Slice
  <2>2. ASSUME NEW i \in 0 .. w PROVE n.start[from + i] - n.start[from] \in Nat
    <3>1. /\ n.start[from + i] \in Nat /\ n.start[from] \in Nat
          /\ n.start[from] <= n.start[from + i]
      BY <1>7
    <3> QED  BY <3>1
  <2> HIDE DEF w, s
  <2> QED  BY <2>1, <2>2
<1>9. s[0] = 0 /\ s[w] = n.start[to] - n.start[from]
  <2>1. 0 \in 0 .. w /\ w \in 0 .. w /\ from + 0 = from /\ from + w = to
    BY <1>4
  <2> HIDE DEF s, w
  <2> QED  BY <2>1, <1>7
<1>10. ASSUME NEW i \in 1 .. w
       PROVE  /\ s[i] = s[i - 1] + SepBytes(k[i])
              /\ SepBytes(k[i]) <= MaxKvSize(P) + 2
  <2>0. i \in Nat /\ 1 <= i /\ i <= w
    BY <1>4
  <2>1. from + i \in 1 .. np /\ (from + i) - 1 = from + (i - 1)
        /\ i \in 0 .. w /\ i - 1 \in 0 .. w
    <3>1. np \in Nat /\ w \in Nat /\ from \in Nat /\ from + w <= np
      BY <1>1, <1>4
    <3> HIDE DEF np, w
    <3> QED  BY <2>0, <3>1
  <2>2. /\ SepBytes(n.keys[from + i]) \in 2 .. MaxKvSize(P) + 2
        /\ n.start[from + i] = n.start[(from + i) - 1] + SepBytes(n.keys[from + i])
    BY <2>1, <1>2
  <2>3. k[i] = n.keys[from + i]
    BY <1>5
  <2>4. /\ s[i] = n.start[from + i] - n.start[from]
        /\ s[i - 1] = n.start[from + (i - 1)] - n.start[from]
        /\ n.start[from] \in Nat /\ n.start[from + (i - 1)] \in Nat
    BY <2>1, <1>7
  <2> HIDE DEF k, s, np, w
  <2>5. SepBytes(k[i]) = SepBytes(n.keys[from + i])
    BY <2>3
  <2> DEFINE size == SepBytes(n.keys[from + i])
             here == n.start[from + i]
             before == n.start[from + (i - 1)]
  <2>6. /\ size \in Nat /\ size <= MaxKvSize(P) + 2
        /\ here = before + size /\ before \in Nat
    <3>1. size \in Nat /\ size <= MaxKvSize(P) + 2
      BY <2>2, <1>4
    <3>2. n.start[(from + i) - 1] = before
      BY <2>1
    <3> QED  BY <2>2, <2>4, <3>1, <3>2
  <2>7. s[i] = here - n.start[from] /\ s[i - 1] = before - n.start[from]
    BY <2>4
  <2> HIDE DEF size, here, before
  <2>8. s[i] = s[i - 1] + size
    BY <2>4, <2>6, <2>7
  <2> QED  BY <2>5, <2>6, <2>8 DEF size
<1>11. ASSUME NEW i \in 1 .. w, NEW j \in 1 .. w, i < j PROVE k[i] < k[j]
  <2>0. i \in Nat /\ 1 <= i /\ j \in Nat /\ j <= w /\ i < j
    BY <1>4, <1>11
  <2>1. from + i \in 1 .. np /\ from + j \in 1 .. np /\ from + i < from + j
    BY <2>0, <1>1, <1>4
  <2>2. n.keys[from + i] < n.keys[from + j]
    BY <2>1, <1>3
  <2> HIDE DEF k, np, w
  <2> QED  BY <2>2, <1>5
<1> HIDE DEF k, s, c, w
<1>12. /\ k \in Seq(Key) /\ s \in [0 .. Len(k) -> Nat] /\ s[0] = 0
       /\ c \in Seq(Ids) /\ Len(c) = Len(k) + 1
       /\ \A i \in 1 .. Len(k) : /\ s[i] = s[i - 1] + SepBytes(k[i])
                                /\ SepBytes(k[i]) <= MaxKvSize(P) + 2
       /\ \A i, j \in 1 .. Len(k) : i < j => k[i] < k[j]
  BY <1>5, <1>6, <1>8, <1>9, <1>10, <1>11
<1>13. LET x == InternalOf(k, s, c)
       IN  /\ SoundInternal(x, P) /\ x.keys = k /\ x.kind = "internal"
           /\ InternalBytes(x) = 11 + s[Len(k)] + 8 * (Len(k) + 1)
  BY <1>12, MakeInternal
<1>14. /\ 11 + s[Len(k)] + 8 * (Len(k) + 1)
            = 11 + (n.start[to] - n.start[from]) + 8 * (to - from + 1)
       /\ Len(k) = to - from
  BY <1>5, <1>9 DEF w
<1> QED  BY <1>13, <1>14 DEF k, s, c

\* An internal node that has outgrown its page by one separator gives one of
\* its keys away, and what lies on either side of that key fits.
LEMMA PromotionPointFits ==
    ASSUME NEW P \in Sizes, NEW n, SoundInternal(n, P),
           InternalBytes(n) > P, InternalBytes(n) <= P + MaxKvSize(P) + 10
    PROVE  LET np == Len(n.keys)
               m == PromotionPoint(n, P)
           IN  /\ np \in Nat /\ m \in 1 .. np - 2
               /\ 11 + n.start[m] + 8 * (m + 1) <= P
               /\ 11 + (n.start[np] - n.start[m + 1]) + 8 * (np - m) <= P
<1> DEFINE np == Len(n.keys)
           big == MaxKvSize(P)
           st == n.start
           left == [m \in 0 .. np - 1 |-> 11 + st[m] + 8 * (m + 1)]
           right == [m \in 0 .. np - 1 |-> 11 + (st[np] - st[m + 1]) + 8 * (np - m)]
<1>1. /\ P \in Nat /\ 49 <= P /\ big \in Nat
      /\ 2 * big + 39 <= P /\ P + big + 10 < 65536
  BY LimitFacts
<1>2. /\ np \in Nat /\ st \in [0 .. np -> Nat] /\ st[0] = 0
      /\ \A i \in 0 .. np : \A j \in i .. np : st[i] <= st[j]
  BY InternalFacts
<1>3. 11 + st[np] + 8 * (np + 1) > P /\ 11 + st[np] + 8 * (np + 1) <= P + big + 10
  <2>1. InternalBytes(n) = 11 + st[np] + 8 * (np + 1)
    BY InternalFacts DEF InternalBytes, INTERNAL_HEADER
  <2> QED  BY <2>1
<1>s. ASSUME NEW i \in 1 .. np
      PROVE  /\ st[i] \in Nat /\ st[i - 1] \in Nat
             /\ st[i] <= st[i - 1] + big + 2
  <2>1. i \in 0 .. np /\ i - 1 \in 0 .. np
    BY <1>2
  <2>2. st[i] \in Nat /\ st[i - 1] \in Nat
    BY <2>1, <1>2
  <2>3. /\ SepBytes(n.keys[i]) \in 2 .. big + 2
        /\ st[i] = st[i - 1] + SepBytes(n.keys[i])
    BY InternalFacts
  <2> HIDE DEF np, big, st
  <2> QED  BY <2>2, <2>3, <1>1
<1> HIDE DEF np, big, st
<1>4. ASSUME NEW m \in 0 .. np
      PROVE  st[m] \in Nat /\ st[m] <= st[np] /\ st[np] \in Nat
  BY <1>2
<1>5. np >= 3
  <2>0. np # 0
    BY <1>1, <1>2, <1>3
  <2>1. np # 1
    <3> SUFFICES ASSUME np = 1 PROVE FALSE
      OBVIOUS
    <3>1. st[1] <= st[1 - 1] + big + 2 /\ st[1] \in Nat
      BY <1>s
    <3> QED  BY <3>1, <1>1, <1>2, <1>3
  <2>2. np # 2
    <3> SUFFICES ASSUME np = 2 PROVE FALSE
      OBVIOUS
    <3>1. st[1] <= st[1 - 1] + big + 2 /\ st[1] \in Nat
      BY <1>s
    <3>2. st[2] <= st[2 - 1] + big + 2 /\ st[2] \in Nat
      BY <1>s
    <3>3. st[1 - 1] = 0 /\ st[2 - 1] = st[1]
      BY <1>2
    <3> QED  BY <3>1, <3>2, <3>3, <1>1, <1>3
  <2> QED  BY <2>0, <2>1, <2>2, <1>2
<1>6. left \in [0 .. np - 1 -> Nat] /\ right \in [0 .. np - 1 -> Nat]
  <2>1. ASSUME NEW m \in 0 .. np - 1
        PROVE  /\ 11 + st[m] + 8 * (m + 1) \in Nat
               /\ 11 + (st[np] - st[m + 1]) + 8 * (np - m) \in Nat
    <3>1. m \in 0 .. np /\ m + 1 \in 0 .. np
      BY <1>2
    <3>2. st[m] \in Nat /\ st[m + 1] \in Nat /\ st[np] \in Nat /\ st[m + 1] <= st[np]
      BY <3>1, <1>4
    <3>3. m \in Nat /\ np - m \in Nat
      BY <1>2
    <3> QED  BY <3>2, <3>3
  <2> QED  BY <2>1
<1>l. ASSUME NEW m \in 0 .. np - 1
      PROVE  /\ left[m] = 11 + st[m] + 8 * (m + 1)
             /\ right[m] = 11 + (st[np] - st[m + 1]) + 8 * (np - m)
  OBVIOUS
<1> HIDE DEF left, right
<1>7. left[1] <= P /\ right[np - 2] <= P
  <2>0. /\ 1 \in 1 .. np /\ np \in 1 .. np /\ 1 - 1 = 0 /\ 1 \in 0 .. np - 1
        /\ np - 2 \in 0 .. np - 1 /\ (np - 2) + 1 = np - 1 /\ np - (np - 2) = 2
    BY <1>5, <1>2
  <2>1. st[1] <= st[0] + big + 2 /\ st[1] \in Nat /\ st[0] = 0
    BY <2>0, <1>s, <1>2
  <2>2. /\ st[np] <= st[np - 1] + big + 2
        /\ st[np] \in Nat /\ st[np - 1] \in Nat
    BY <2>0, <1>s
  <2>3. left[1] = 11 + st[1] + 8 * (1 + 1)
    BY <2>0, <1>l
  <2>4. right[np - 2] = 11 + (st[np] - st[(np - 2) + 1]) + 8 * (np - (np - 2))
    BY <2>0, <1>l
  <2>5. right[np - 2] = 11 + (st[np] - st[np - 1]) + 16
    BY <2>0, <2>4
  <2> QED  BY <2>1, <2>2, <2>3, <2>5, <1>1
<1>8. ASSUME NEW m \in 1 .. np - 2, right[m - 1] > P PROVE left[m] <= P
  <2>0. /\ m - 1 \in 0 .. np - 1 /\ m \in 0 .. np - 1 /\ m \in 0 .. np
        /\ (m - 1) + 1 = m /\ m \in Nat
    BY <1>2
  <2>1. right[m - 1] = 11 + (st[np] - st[(m - 1) + 1]) + 8 * (np - (m - 1))
    BY <2>0, <1>l
  <2>2. left[m] = 11 + st[m] + 8 * (m + 1)
    BY <2>0, <1>l
  <2>3. st[m] \in Nat /\ st[np] \in Nat
    BY <2>0, <1>4
  <2>4. right[m - 1] = 11 + (st[np] - st[m]) + 8 * (np - m + 1)
    BY <2>0, <2>1, <1>2
  <2>5. left[m] + right[m - 1] = (11 + st[np] + 8 * (np + 1)) + 19
    BY <2>0, <2>2, <2>3, <2>4, <1>2
  <2>6. left[m] \in Int /\ right[m - 1] \in Int
    BY <2>0, <2>2, <2>3, <2>4, <1>2
  <2> DEFINE whole == 11 + st[np] + 8 * (np + 1)
             a == left[m]
             b == right[m - 1]
  <2>7. whole \in Int /\ whole <= P + big + 10 /\ a + b = whole + 19
    BY <2>3, <2>5, <1>2, <1>3
  <2>8. a \in Int /\ b \in Int /\ b > P
    BY <2>6, <1>8
  <2> HIDE DEF whole, a, b
  <2>9. a <= P
    BY <2>7, <2>8, <1>1
  <2> QED  BY <2>9 DEF a
<1> DEFINE first == FirstStop(left, P, np \div 2)
           point == SecondStop(left, right, P, np \div 2, np - 1)
<1>9. point \in 1 .. np - 2 /\ left[point] <= P /\ right[point] <= P
  <2>1. /\ np - 1 \in Nat /\ np \div 2 \in 1 .. np - 1
        /\ np - 2 \in np \div 2 .. np - 1
    BY <1>2, <1>5
  <2>2. \A m \in 1 .. np - 2 : right[m - 1] > P => left[m] <= P
    BY <1>8
  <2>3. /\ P \in Nat /\ np - 1 \in Nat /\ np \div 2 \in 1 .. np - 1
        /\ np - 2 \in np \div 2 .. np - 1
        /\ left \in [0 .. np - 1 -> Nat] /\ right \in [0 .. np - 1 -> Nat]
        /\ left[1] <= P /\ right[np - 2] <= P
    BY <2>1, <1>1, <1>6, <1>7
  <2> QED  BY <2>2, <2>3, TwoLoops
<1>10. U16(P) = P
  BY <1>1, NoWrap
<1>11. ASSUME NEW m \in 0 .. np - 1
       PROVE  /\ U16(11 + U16(st[m]) + 8 * (m + 1)) = left[m]
              /\ U16(11 + U16(U16(st[np]) - U16(st[m + 1])) + 8 * (np - m)) = right[m]
  <2>0. m \in 0 .. np /\ m + 1 \in 0 .. np /\ m \in Nat /\ m + 1 <= np
    BY <1>2
  <2>1. /\ st[m] \in Nat /\ st[np] \in Nat /\ st[m] <= st[np]
        /\ st[m + 1] \in Nat /\ st[m + 1] <= st[np]
    BY <2>0, <1>4
  <2>2. 11 + st[np] + 8 * (np + 1) < 65536
    BY <2>1, <1>1, <1>2, <1>3
  <2>3. /\ U16(st[m]) = st[m] /\ U16(st[np]) = st[np]
        /\ U16(st[m + 1]) = st[m + 1]
    BY <2>1, <2>2, <1>2, NoWrap
  <2>4. st[np] - st[m + 1] \in Nat /\ st[np] - st[m + 1] <= st[np]
    BY <2>1
  <2>5. U16(st[np] - st[m + 1]) = st[np] - st[m + 1]
    BY <2>1, <2>2, <2>4, <1>2, NoWrap
  <2>6. 11 + st[m] + 8 * (m + 1) \in Nat /\ 11 + st[m] + 8 * (m + 1) < 65536
    BY <2>0, <2>1, <2>2, <1>2
  <2>7. /\ 11 + (st[np] - st[m + 1]) + 8 * (np - m) \in Nat
        /\ 11 + (st[np] - st[m + 1]) + 8 * (np - m) < 65536
    BY <2>0, <2>1, <2>2, <2>4, <1>2
  <2>8. U16(11 + st[m] + 8 * (m + 1)) = 11 + st[m] + 8 * (m + 1)
    BY <2>6, NoWrap
  <2>9. U16(11 + (st[np] - st[m + 1]) + 8 * (np - m))
          = 11 + (st[np] - st[m + 1]) + 8 * (np - m)
    BY <2>7, NoWrap
  <2> QED  BY <2>3, <2>5, <2>8, <2>9, <1>l
<1>12. first \in Nat
  <2> DEFINE A == {m \in 0 .. np \div 2 : m = 0 \/ left[m] <= P}
  <2>1. A \subseteq 0 .. np \div 2 /\ np \div 2 \in Nat /\ A # {}
    BY <1>2
  <2>0. A \subseteq Nat
    OBVIOUS
  <2> HIDE DEF A
  <2>2. Max(A) \in A
    BY <2>1, MaxIsGreatest
  <2>3. Max(A) \in Nat
    BY <2>0, <2>2
  <2> QED  BY <2>3 DEF A, FirstStop
<1>13. PromotionPoint(n, P) = point
  <2>1. \A m \in 0 .. np \div 2 :
           U16(INTERNAL_HEADER + U16(st[m]) + 8 * (m + 1)) <= U16(P) <=> left[m] <= P
    <3>1. \A m \in 0 .. np \div 2 : m \in 0 .. np - 1
      BY <1>2, <1>5
    <3> QED  BY <3>1, <1>10, <1>11 DEF INTERNAL_HEADER
  <2>2. {m \in 0 .. np \div 2 :
            m = 0 \/ U16(INTERNAL_HEADER + U16(st[m]) + 8 * (m + 1)) <= U16(P)}
        = {m \in 0 .. np \div 2 : m = 0 \/ left[m] <= P}
    BY <2>1
  <2>3. \A m \in first .. np - 1 :
           U16(INTERNAL_HEADER + U16(U16(st[np]) - U16(st[m + 1])) + 8 * (np - m))
               <= U16(P)
             <=> right[m] <= P
    <3>1. \A m \in first .. np - 1 : m \in 0 .. np - 1
      <4> HIDE DEF first
      <4> QED  BY <1>12, <1>2
    <3> HIDE DEF first
    <3> QED  BY <3>1, <1>10, <1>11 DEF INTERNAL_HEADER
  <2>4. {m \in first .. np - 1 : m = np - 1
            \/ U16(INTERNAL_HEADER + U16(U16(st[np]) - U16(st[m + 1])) + 8 * (np - m))
                 <= U16(P)}
        = {m \in first .. np - 1 : m = np - 1 \/ right[m] <= P}
    <3> HIDE DEF first
    <3> QED  BY <2>3
  <2> QED  BY <2>2, <2>4 DEF PromotionPoint, FirstStop, SecondStop, np, st
<1>14. /\ left[point] = 11 + st[point] + 8 * (point + 1)
       /\ right[point] = 11 + (st[np] - st[point + 1]) + 8 * (np - point)
  <2>1. point \in 0 .. np - 1
    BY <1>9, <1>2
  <2> HIDE DEF point
  <2> QED  BY <2>1, <1>l
<1> HIDE DEF point, first
<1> QED  BY <1>2, <1>9, <1>13, <1>14 DEF np, st

\* Both parts of an internal node that has outgrown its page are sound, have
\* keys and fit; so does a new root with the key between them.
LEMMA InternalSplitSound ==
    ASSUME NEW P \in Sizes, NEW n, SoundInternal(n, P),
           InternalBytes(n) > P, InternalBytes(n) <= P + MaxKvSize(P) + 10
    PROVE  LET half == SplitWithPromotion(n, P)
           IN  /\ SoundInternal(half.left, P) /\ SoundInternal(half.right, P)
               /\ half.left.kind = "internal" /\ half.right.kind = "internal"
               /\ InternalBytes(half.left) <= P /\ InternalBytes(half.right) <= P
               /\ Len(half.left.keys) >= 1 /\ Len(half.right.keys) >= 1
               /\ half.sep \in Key /\ SepBytes(half.sep) <= MaxKvSize(P) + 2
<1> DEFINE np == Len(n.keys)
           m == PromotionPoint(n, P)
           left == InternalOf(SubSeq(n.keys, 1, m), Slice(n.start, 0, m),
                              SubSeq(n.children, 1, m + 1))
           right == InternalOf(SubSeq(n.keys, m + 2, np), Slice(n.start, m + 1, np),
                               SubSeq(n.children, m + 2, np + 1))
<1>1. /\ np \in Nat /\ m \in 1 .. np - 2
      /\ 11 + n.start[m] + 8 * (m + 1) <= P
      /\ 11 + (n.start[np] - n.start[m + 1]) + 8 * (np - m) <= P
  BY PromotionPointFits
<1>2. n.start[0] = 0 /\ n.start \in [0 .. np -> Nat]
  BY InternalFacts
<1>3. SplitWithPromotion(n, P) = [left |-> left, sep |-> n.keys[m + 1], right |-> right]
  BY DEF SplitWithPromotion
<1> HIDE DEF m
<1>4. /\ 0 \in 0 .. np /\ m \in 0 .. np /\ m \in Nat /\ 0 + 1 = 1
      /\ m + 1 \in 0 .. np /\ np \in m + 1 .. np /\ (m + 1) + 1 = m + 2
      /\ m + 1 \in 1 .. np
      /\ m - 0 = m /\ m >= 1 /\ np - (m + 1) >= 1 /\ np - (m + 1) + 1 = np - m
  BY <1>1
<1>5. /\ SoundInternal(left, P) /\ left.kind = "internal"
      /\ InternalBytes(left) = 11 + (n.start[m] - n.start[0]) + 8 * (m - 0 + 1)
      /\ Len(left.keys) = m - 0
  <2>1. LET part == InternalOf(SubSeq(n.keys, 0 + 1, m), Slice(n.start, 0, m),
                               SubSeq(n.children, 0 + 1, m + 1))
        IN  /\ SoundInternal(part, P) /\ part.kind = "internal"
            /\ InternalBytes(part)
                 = 11 + (n.start[m] - n.start[0]) + 8 * (m - 0 + 1)
            /\ Len(part.keys) = m - 0
    BY <1>4, InternalPart
  <2> QED  BY <2>1, <1>4
<1>6. /\ SoundInternal(right, P) /\ right.kind = "internal"
      /\ InternalBytes(right)
           = 11 + (n.start[np] - n.start[m + 1]) + 8 * (np - (m + 1) + 1)
      /\ Len(right.keys) = np - (m + 1)
  <2> DEFINE after == m + 1
  <2>1. after \in 0 .. np /\ np \in after .. np
    BY <1>4
  <2> HIDE DEF after
  <2>2. LET part == InternalOf(SubSeq(n.keys, after + 1, np), Slice(n.start, after, np),
                               SubSeq(n.children, after + 1, np + 1))
        IN  /\ SoundInternal(part, P) /\ part.kind = "internal"
            /\ InternalBytes(part)
                 = 11 + (n.start[np] - n.start[after]) + 8 * (np - after + 1)
            /\ Len(part.keys) = np - after
    BY <2>1, InternalPart
  <2>3. after + 1 = m + 2
    BY <1>4 DEF after
  <2> QED  BY <2>2, <2>3 DEF after
<1>7. n.start[m] - n.start[0] = n.start[m]
  BY <1>2, <1>4
<1>8. n.keys[m + 1] \in Key /\ SepBytes(n.keys[m + 1]) <= MaxKvSize(P) + 2
  <2>1. /\ n.keys[m + 1] \in Key
        /\ SepBytes(n.keys[m + 1]) \in 2 .. MaxKvSize(P) + 2
    BY <1>4, InternalFacts
  <2> QED  BY <2>1, LimitFacts
<1> HIDE DEF left, right, np
<1>9. InternalBytes(left) <= P /\ Len(left.keys) >= 1
  BY <1>1, <1>4, <1>5, <1>7
<1>10. InternalBytes(right) <= P /\ Len(right.keys) >= 1
  BY <1>1, <1>4, <1>6
<1>11. /\ SplitWithPromotion(n, P).left = left
       /\ SplitWithPromotion(n, P).right = right
       /\ SplitWithPromotion(n, P).sep = n.keys[m + 1]
  BY <1>3
<1> QED  BY <1>5, <1>6, <1>8, <1>9, <1>10, <1>11

\* internal_child_index() returns the child that has a key: every separator
\* on its left is at most the key, every one on its right is greater.
LEMMA InternalPlace ==
    ASSUME NEW P \in Sizes, NEW n, SoundInternal(n, P), NEW key \in Key
    PROVE  LET at == ChildIndex(n, key)
               np == Len(n.keys)
           IN  /\ at \in 0 .. np
               /\ \A i \in 1 .. np : i <= at => n.keys[i] <= key
               /\ \A i \in 1 .. np : i > at => key < n.keys[i]
<1> DEFINE np == Len(n.keys)
           S == {i \in 0 .. np : i = np \/ key < n.keys[i + 1]}
           at == Min(S)
<1>1. /\ np \in Nat /\ \A i \in 1 .. np : n.keys[i] \in Key
      /\ \A i, j \in 1 .. np : i < j => n.keys[i] < n.keys[j]
  BY InternalFacts
<1>2. key \in Nat /\ \A i \in 1 .. np : n.keys[i] \in Nat
  BY <1>1, SepIsSized
<1>3. S \subseteq Nat /\ np \in S
  BY <1>1
<1>4. ChildIndex(n, key) = at
  BY DEF ChildIndex
<1> HIDE DEF np
<1>5. at \in S /\ \A j \in S : at <= j
  <2> HIDE DEF S
  <2> QED  BY <1>3, MinIsLeast
<1>6. at \in 0 .. np /\ (at = np \/ key < n.keys[at + 1])
  <2> HIDE DEF at
  <2> QED  BY <1>5
<1>7. ASSUME NEW i \in 1 .. np, i <= at PROVE n.keys[i] <= key
  <2>1. i - 1 \in 0 .. np /\ i - 1 < at
    <3> HIDE DEF at
    <3> QED  BY <1>7, <1>6, <1>1
  <2>2. i - 1 \notin S
    <3> HIDE DEF at, S
    <3> QED  BY <2>1, <1>5, <1>6, <1>3
  <2>3. ~ (key < n.keys[(i - 1) + 1])
    BY <2>1, <2>2
  <2>4. (i - 1) + 1 = i /\ n.keys[i] \in Nat
    BY <1>2, <1>1
  <2> HIDE DEF S, at
  <2> QED  BY <2>3, <2>4, <1>2
<1>8. ASSUME NEW i \in 1 .. np, i > at PROVE key < n.keys[i]
  <2>1. at < np /\ at + 1 \in 1 .. np /\ at \in Nat
    <3> HIDE DEF at
    <3> QED  BY <1>8, <1>6, <1>1
  <2>2. key < n.keys[at + 1] /\ n.keys[at + 1] \in Nat /\ n.keys[i] \in Nat
    <3> HIDE DEF at, S
    <3> QED  BY <2>1, <1>6, <1>2
  <2> HIDE DEF at, S
  <2>3. CASE i = at + 1
    BY <2>2, <2>3
  <2>4. CASE i # at + 1
    <3>1. at + 1 < i
      BY <2>4, <2>1, <1>8, <1>1
    <3>2. n.keys[at + 1] < n.keys[i]
      BY <3>1, <2>1, <1>1
    <3> QED  BY <3>2, <2>2, <1>2
  <2> QED  BY <2>3, <2>4
<1> HIDE DEF at
<1> QED  BY <1>4, <1>6, <1>7, <1>8 DEF np

\* internal_insert_split_child() keeps an internal node sound and adds the
\* size of the separator and of a child.
LEMMA InsertSplitChildSound ==
    ASSUME NEW P \in Sizes, NEW n, SoundInternal(n, P),
           NEW sep \in Key, SepBytes(sep) <= MaxKvSize(P) + 2,
           \A i \in 1 .. Len(n.keys) : n.keys[i] # sep,
           NEW lid \in Ids, NEW rid \in Ids
    PROVE  LET grown == InsertSplitChild(n, ChildIndex(n, sep), sep, lid, rid)
           IN  /\ SoundInternal(grown, P) /\ grown.kind = "internal"
               /\ InternalBytes(grown) = InternalBytes(n) + SepBytes(sep) + 8
               /\ Len(grown.keys) = Len(n.keys) + 1
<1> DEFINE np == Len(n.keys)
           at == ChildIndex(n, sep)
           st == n.start
           old == n.keys
           place == at + 1
           k == InsertAt(old, place, sep)
           bytes == SepBytes(sep)
           s == Pushed(st, np, at, bytes)
           kids == n.children
           kids1 == ReplaceAt(kids, place, rid)
           c == InsertAt(kids1, place, lid)
           size == [i \in 1 .. np |-> SepBytes(n.keys[i])]
<1>1. /\ np \in Nat /\ old \in Seq(Key) /\ st \in [0 .. np -> Nat] /\ st[0] = 0
      /\ kids \in Seq(Ids) /\ Len(kids) = np + 1
      /\ \A i, j \in 1 .. np : i < j => old[i] < old[j]
  BY InternalFacts
<1>2. \A i \in 1 .. np : /\ old[i] \in Key
                        /\ SepBytes(old[i]) \in 2 .. MaxKvSize(P) + 2
                        /\ st[i] = st[i - 1] + SepBytes(old[i])
  BY InternalFacts
<1>3. MaxKvSize(P) \in Nat /\ bytes \in Nat /\ sep \in Nat
  BY LimitFacts, SepIsSized
<1>4. /\ at \in 0 .. np
      /\ \A i \in 1 .. np : i <= at => old[i] <= sep
      /\ \A i \in 1 .. np : i > at => sep < old[i]
  BY InternalPlace
<1>5. /\ size \in [1 .. np -> Nat] /\ old \in [1 .. np -> Nat]
      /\ \A i \in 1 .. np : st[i] = st[i - 1] + size[i]
  <2>1. ASSUME NEW i \in 1 .. np PROVE SepBytes(old[i]) \in Nat /\ old[i] \in Nat
    BY <1>2, SepIsSized
  <2>2. old = [i \in 1 .. np |-> old[i]]
    BY <1>1
  <2> QED  BY <1>2, <2>1, <2>2
<1>6. \A i \in 1 .. np : size[i] = SepBytes(old[i])
  OBVIOUS
<1>7. \A i \in 1 .. np : i <= at => old[i] < sep
  <2>1. ASSUME NEW i \in 1 .. np, i <= at PROVE old[i] < sep
    <3>1. old[i] \in Nat /\ old[i] <= sep /\ old[i] # sep
      BY <1>2, <1>4, <2>1, SepIsSized
    <3> QED  BY <3>1, <1>3
  <2> QED  BY <2>1
<1>8. place \in 1 .. np + 1 /\ np = Len(old)
  BY <1>1, <1>4
<1> HIDE DEF np, at, st, old, k, bytes, s, kids, kids1, c, size
<1>9. /\ k \in Seq(Key) /\ Len(k) = np + 1
      /\ \A j \in 1 .. np + 1 : k[j] = IF j < at + 1 THEN old[j]
                                     ELSE IF j = at + 1 THEN sep ELSE old[j - 1]
  <2>1. place \in 1 .. Len(old) + 1 /\ old \in Seq(Key) /\ sep \in Key
    BY <1>1, <1>8
  <2> HIDE DEF place
  <2> DEFINE x == InsertAt(old, place, sep)
  <2>2. x \in Seq(Key) /\ Len(x) = Len(old) + 1
    BY <2>1, InsertAtElements
  <2>3. ASSUME NEW j \in 1 .. Len(old) + 1
        PROVE  x[j] = IF j < place THEN old[j]
                      ELSE IF j = place THEN sep ELSE old[j - 1]
    BY <2>1, InsertAtElements
  <2>4. k = x
    BY DEF k
  <2> HIDE DEF x
  <2> QED  BY <2>2, <2>3, <2>4, <1>8 DEF place
<1>10. c \in Seq(Ids) /\ Len(c) = np + 2
  <2>1. lid \in Ids /\ rid \in Ids /\ place \in 1 .. Len(kids) /\ place \in 1 .. Len(kids) + 1
    BY <1>1, <1>8
  <2> HIDE DEF place
  <2> DEFINE x == ReplaceAt(kids, place, rid)
  <2>5. x \in Seq(Ids) /\ Len(x) = Len(kids)
    <3>1. kids \in Seq(Ids) /\ place \in 1 .. Len(kids) /\ rid \in Ids
      BY <2>1, <1>1
    <3> QED  BY <3>1, ReplaceAtElements
  <2>6. kids1 = x
    BY DEF kids1
  <2> HIDE DEF x
  <2>2. kids1 \in Seq(Ids) /\ Len(kids1) = Len(kids)
    BY <2>5, <2>6
  <2>3. place \in 1 .. Len(kids1) + 1
    BY <2>1, <2>2
  <2> DEFINE y == InsertAt(kids1, place, lid)
  <2>7. y \in Seq(Ids) /\ Len(y) = Len(kids1) + 1
    <3>1. kids1 \in Seq(Ids) /\ place \in 1 .. Len(kids1) + 1 /\ lid \in Ids
      BY <2>1, <2>2, <2>3
    <3> HIDE DEF y
    <3>2. /\ InsertAt(kids1, place, lid) \in Seq(Ids)
          /\ Len(InsertAt(kids1, place, lid)) = Len(kids1) + 1
      BY <3>1, InsertAtElements
    <3> QED  BY <3>2 DEF y
  <2>8. c = y
    BY DEF c
  <2> HIDE DEF y
  <2>4. c \in Seq(Ids) /\ Len(c) = Len(kids1) + 1
    BY <2>7, <2>8
  <2> QED  BY <2>2, <2>4, <1>1
<1>11. /\ s \in [0 .. np + 1 -> Nat] /\ s[0] = 0
       /\ s[np + 1] = st[np] + bytes
       /\ \A i \in 1 .. np + 1 : s[i] = s[i - 1] + Spliced(size, at, bytes, i)
  <2>1. LET x == Pushed(st, np, at, bytes)
        IN  /\ x \in [0 .. np + 1 -> Nat]
            /\ x[0] = st[0] /\ x[np + 1] = st[np] + bytes
            /\ \A i \in 1 .. np + 1 : x[i] = x[i - 1] + Spliced(size, at, bytes, i)
    <3>1. np \in Nat /\ st \in [0 .. np -> Nat] /\ at \in 0 .. np /\ bytes \in Nat
          /\ size \in [1 .. np -> Nat]
      BY <1>1, <1>3, <1>4, <1>5
    <3>2. \A i \in 1 .. np : st[i] = st[i - 1] + size[i]
      BY <1>5
    <3> QED  BY <3>1, <3>2, PushedOffsets
  <2> QED  BY <2>1, <1>1 DEF s
<1>12. ASSUME NEW i \in 1 .. np + 1
       PROVE  /\ Spliced(size, at, bytes, i) = SepBytes(k[i])
              /\ Spliced(old, at, sep, i) = k[i]
              /\ SepBytes(k[i]) <= MaxKvSize(P) + 2
  <2>1. CASE i < at + 1
    <3>1. i \in 1 .. np /\ k[i] = old[i]
      BY <2>1, <1>9, <1>4, <1>1
    <3>2. SepBytes(old[i]) <= MaxKvSize(P) + 2
      BY <3>1, <1>2, <1>3
    <3> QED  BY <2>1, <3>1, <3>2, <1>6 DEF Spliced
  <2>2. CASE i = at + 1
    <3>1. ~ (i < at + 1) /\ k[i] = sep
      BY <2>2, <1>9, <1>4, <1>1
    <3> QED  BY <2>2, <3>1 DEF Spliced, bytes
  <2>3. CASE i > at + 1
    <3>1. i - 1 \in 1 .. np /\ ~ (i < at + 1) /\ i # at + 1
      BY <2>3, <1>4, <1>1
    <3>2. k[i] = old[i - 1]
      BY <3>1, <1>9
    <3>3. SepBytes(old[i - 1]) <= MaxKvSize(P) + 2
      BY <3>1, <1>2, <1>3
    <3> QED  BY <3>1, <3>2, <3>3, <1>6 DEF Spliced
  <2> QED  BY <2>1, <2>2, <2>3, <1>1, <1>4
<1>13. ASSUME NEW i \in 1 .. np + 1, NEW j \in 1 .. np + 1, i < j PROVE k[i] < k[j]
  <2>1. Spliced(old, at, sep, i) < Spliced(old, at, sep, j)
    BY <1>1, <1>3, <1>4, <1>5, <1>7, <1>13, SplicedInOrder
  <2> QED  BY <2>1, <1>12
<1>14. LET grown == InternalOf(k, s, c)
       IN  /\ SoundInternal(grown, P) /\ grown.keys = k /\ grown.kind = "internal"
           /\ InternalBytes(grown) = 11 + s[Len(k)] + 8 * (Len(k) + 1)
  <2>1. /\ k \in Seq(Key) /\ s \in [0 .. Len(k) -> Nat] /\ s[0] = 0
        /\ c \in Seq(Ids) /\ Len(c) = Len(k) + 1
        /\ \A i \in 1 .. Len(k) : /\ s[i] = s[i - 1] + SepBytes(k[i])
                                 /\ SepBytes(k[i]) <= MaxKvSize(P) + 2
        /\ \A i, j \in 1 .. Len(k) : i < j => k[i] < k[j]
    BY <1>1, <1>9, <1>10, <1>11, <1>12, <1>13
  <2> QED  BY <2>1, MakeInternal
<1>15. InsertSplitChild(n, at, sep, lid, rid) = InternalOf(k, s, c)
  BY DEF InsertSplitChild, k, s, c, kids1, kids, st, old, bytes, np
<1>16. InternalBytes(n) = 11 + st[np] + 8 * (np + 1) /\ st[np] \in Nat
  BY <1>1 DEF InternalBytes, INTERNAL_HEADER, st, np, kids
<1>17. 11 + s[Len(k)] + 8 * (Len(k) + 1) = InternalBytes(n) + bytes + 8
  <2>1. Len(k) = np + 1 /\ s[Len(k)] = st[np] + bytes
    BY <1>9, <1>11
  <2> DEFINE a == st[np]
             whole == InternalBytes(n)
  <2>2. whole = 11 + a + 8 * (np + 1) /\ a \in Nat /\ s[Len(k)] = a + bytes
    BY <2>1, <1>16
  <2>3. np \in Nat /\ bytes \in Nat
    BY <1>1, <1>3
  <2> HIDE DEF a, whole
  <2>4. 11 + (a + bytes) + 8 * ((np + 1) + 1) = whole + bytes + 8
    BY <2>2, <2>3
  <2> QED  BY <2>1, <2>2, <2>4 DEF whole
<1> HIDE DEF place
<1> QED  BY <1>9, <1>14, <1>15, <1>17 DEF np, bytes, at

\* The end of insert_internal(): an internal node that fits becomes one that
\* fits, or two.
LEMMA InsertInternalSound ==
    ASSUME NEW P \in Sizes, NEW n, SoundInternal(n, P), InternalBytes(n) <= P,
           NEW sep \in Key, SepBytes(sep) <= MaxKvSize(P) + 2,
           \A i \in 1 .. Len(n.keys) : n.keys[i] # sep,
           NEW lid \in Ids, NEW rid \in Ids
    PROVE  LET r == InsertInternal(n, ChildIndex(n, sep), sep, lid, rid, P)
           IN  /\ SoundInternal(r.left, P) /\ InternalBytes(r.left) <= P
               /\ r.left.kind = "internal" /\ Len(r.left.keys) >= 1
               /\ r.split \in BOOLEAN
               /\ r.split => /\ SoundInternal(r.right, P) /\ InternalBytes(r.right) <= P
                             /\ r.right.kind = "internal" /\ Len(r.right.keys) >= 1
                             /\ r.sep \in Key /\ SepBytes(r.sep) <= MaxKvSize(P) + 2
<1> DEFINE at == ChildIndex(n, sep)
           grown == InsertSplitChild(n, at, sep, lid, rid)
           half == SplitWithPromotion(grown, P)
<1>1. /\ SoundInternal(grown, P) /\ grown.kind = "internal"
      /\ InternalBytes(grown) = InternalBytes(n) + SepBytes(sep) + 8
      /\ Len(grown.keys) = Len(n.keys) + 1
  BY InsertSplitChildSound
<1>2. /\ Len(n.keys) \in Nat /\ InternalBytes(n) \in Nat
      /\ SepBytes(sep) \in Nat /\ P \in Nat /\ MaxKvSize(P) \in Nat
  <2>1. /\ Len(n.keys) \in Nat /\ n.start \in [0 .. Len(n.keys) -> Nat]
        /\ Len(n.children) = Len(n.keys) + 1
    BY InternalFacts
  <2>2. n.start[Len(n.keys)] \in Nat
    BY <2>1
  <2>3. InternalBytes(n) = 11 + n.start[Len(n.keys)] + 8 * (Len(n.keys) + 1)
    BY <2>1 DEF InternalBytes, INTERNAL_HEADER
  <2>4. InternalBytes(n) \in Nat
    BY <2>1, <2>2, <2>3
  <2>5. SepBytes(sep) \in Nat /\ P \in Nat /\ MaxKvSize(P) \in Nat
    BY SepIsSized, LimitFacts
  <2> QED  BY <2>1, <2>4, <2>5
<1> HIDE DEF grown, at
<1>3. CASE InternalBytes(grown) <= P
  <2>1. InsertInternal(n, at, sep, lid, rid, P) = Single(grown)
    BY <1>3 DEF InsertInternal, grown
  <2>2. Len(grown.keys) >= 1
    BY <1>1, <1>2
  <2> QED  BY <2>1, <2>2, <1>1, <1>3 DEF Single, at
<1>4. CASE ~ (InternalBytes(grown) <= P)
  <2>1. InternalBytes(grown) > P /\ InternalBytes(grown) <= P + MaxKvSize(P) + 10
    BY <1>1, <1>2, <1>4
  <2>2. /\ SoundInternal(half.left, P) /\ SoundInternal(half.right, P)
        /\ half.left.kind = "internal" /\ half.right.kind = "internal"
        /\ InternalBytes(half.left) <= P /\ InternalBytes(half.right) <= P
        /\ Len(half.left.keys) >= 1 /\ Len(half.right.keys) >= 1
        /\ half.sep \in Key /\ SepBytes(half.sep) <= MaxKvSize(P) + 2
    BY <2>1, <1>1, InternalSplitSound
  <2>3. InsertInternal(n, at, sep, lid, rid, P)
          = Split(half.left, half.sep, half.right)
    BY <1>4 DEF InsertInternal, grown
  <2> HIDE DEF half
  <2> QED  BY <2>2, <2>3 DEF Split, at
<1> QED  BY <1>3, <1>4

\* The empty leaf that a store starts from is sound.
LEMMA EmptyLeafSound ==
    ASSUME NEW P \in Sizes
    PROVE  SoundNode(EmptyLeaf, P)
<1> DEFINE e == <<>>
           s == NoStart
<1>2. e \in Seq(Entry) /\ Len(e) = 0 /\ s \in [0 .. Len(e) -> Nat] /\ s[0] = 0
  BY DEF NoStart
<1>3. \A i \in 1 .. Len(e) : FALSE
  BY <1>2
<1> HIDE DEF e, s
<1>4. SoundLeaf(LeafOf(e, s), P) /\ LeafBytes(LeafOf(e, s)) = 11 + s[Len(e)]
  <2>1. LeafParts(e, s, P)
    BY <1>2, <1>3 DEF LeafParts
  <2> QED  BY <2>1, MakeLeaf
<1>5. LeafBytes(LeafOf(e, s)) <= P
  BY <1>2, <1>4, LimitFacts
<1> QED  BY <1>4, <1>5 DEF SoundNode, EmptyLeaf, e, s

---------------------------------------------------------------------------
(* What a node holds, and what each of its children covers. *)

\* The entries of a leaf, and the children of an internal node.
Holding(l) == {l.entries[i] : i \in 1 .. Len(l.entries)}
Kids(n) == {n.children[i] : i \in 1 .. Len(n.children)}

\* Those but the one at an index.
Others(n, at) == {n.children[i] : i \in (1 .. Len(n.children)) \ {at + 1}}

\* Child i covers the keys from separator i - 1 up to separator i.
InSlot(n, i, k) ==
    (i > 1 => n.keys[i - 1] <= k) /\ (i <= Len(n.keys) => k < n.keys[i])

\* A node for the keys of U has its own keys there, and each child is for
\* the keys of its slot, if u says what keys a page is for.
KeysIn(n, U) == \A i \in 1 .. Pieces(n) : PieceKey(n, i) \in U

Covers(n, U, u) ==
    \A i \in 1 .. Len(n.children) : u[n.children[i]] = {k \in U : InSlot(n, i, k)}

\* The keys of U on either side of a separator.
Below(U, sep) == {k \in U : k < sep}
From(U, sep) == {k \in U : sep <= k}

\* A leaf's entries once e was put there.
With(held, e) == {x \in held : x.key # e.key} \cup {e}

\* Every key belongs into one slot, that of the child that ChildIndex finds.
LEMMA SlotOfKey ==
    ASSUME NEW P \in Sizes, NEW n, SoundInternal(n, P), NEW key \in Key
    PROVE  LET at == ChildIndex(n, key)
           IN  /\ at \in 0 .. Len(n.keys) /\ at + 1 \in 1 .. Len(n.children)
               /\ InSlot(n, at + 1, key)
               /\ \A i \in 1 .. Len(n.children) : InSlot(n, i, key) => i = at + 1
<1> DEFINE at == ChildIndex(n, key)
           np == Len(n.keys)
<1>1. /\ at \in 0 .. np
      /\ \A i \in 1 .. np : i <= at => n.keys[i] <= key
      /\ \A i \in 1 .. np : i > at => key < n.keys[i]
  BY InternalPlace
<1>2. np \in Nat /\ Len(n.children) = np + 1 /\ \A i \in 1 .. np : n.keys[i] \in Nat
  <2>1. \A i \in 1 .. np : n.keys[i] \in Key
    BY InternalFacts
  <2> QED  BY <2>1, InternalFacts, KeyAssumption
<1>3. key \in Nat
  BY KeyAssumption
<1> HIDE DEF at
<1>4. InSlot(n, at + 1, key)
  BY <1>1, <1>2 DEF InSlot, np
<1>5. ASSUME NEW i \in 1 .. np + 1, InSlot(n, i, key)
      PROVE  i = at + 1
  <2>1. CASE i < at + 1
    <3>1. i \in 1 .. np /\ i <= at
      BY <2>1, <1>1, <1>2
    <3>2. key < n.keys[i] /\ n.keys[i] <= key /\ n.keys[i] \in Nat
      BY <3>1, <1>1, <1>2, <1>5 DEF InSlot, np
    <3> QED  BY <3>2, <1>3
  <2>2. CASE i > at + 1
    <3>1. i - 1 \in 1 .. np /\ i - 1 > at /\ i > 1
      BY <2>2, <1>1, <1>2
    <3>2. n.keys[i - 1] <= key /\ key < n.keys[i - 1] /\ n.keys[i - 1] \in Nat
      BY <3>1, <1>1, <1>2, <1>5 DEF InSlot
    <3> QED  BY <3>2, <1>3
  <2>3. i \in Int /\ at \in Int
    BY <1>1, <1>2
  <2> QED  BY <2>1, <2>2, <2>3
<1> QED  BY <1>1, <1>2, <1>4, <1>5 DEF at, np

\* A sound node with one child replaced is as sound, and as large.
LEMMA ReplaceChildSound ==
    ASSUME NEW P \in Sizes, NEW n, SoundInternal(n, P),
           NEW at \in 0 .. Len(n.keys), NEW c \in Ids
    PROVE  LET r == ReplaceChild(n, at, c)
           IN  /\ SoundInternal(r, P) /\ r.kind = "internal" /\ r.keys = n.keys
               /\ InternalBytes(r) = InternalBytes(n)
               /\ Len(r.children) = Len(n.children)
               /\ \A i \in 1 .. Len(n.children) :
                     r.children[i] = IF i = at + 1 THEN c ELSE n.children[i]
<1> DEFINE kids == ReplaceAt(n.children, at + 1, c)
           r == ReplaceChild(n, at, c)
           np == Len(n.keys)
<1>1. /\ np \in Nat /\ n.keys \in Seq(Key) /\ n.children \in Seq(Ids)
      /\ Len(n.children) = np + 1 /\ n.start \in [0 .. np -> Nat] /\ n.start[0] = 0
      /\ \A i \in 1 .. np : /\ n.start[i] = n.start[i - 1] + SepBytes(n.keys[i])
                           /\ SepBytes(n.keys[i]) \in 2 .. MaxKvSize(P) + 2
      /\ \A i, j \in 1 .. np : i < j => n.keys[i] < n.keys[j]
  BY InternalFacts
<1>2. /\ kids \in Seq(Ids) /\ Len(kids) = np + 1
      /\ \A i \in 1 .. np + 1 : kids[i] = IF i = at + 1 THEN c ELSE n.children[i]
  <2>1. at + 1 \in 1 .. Len(n.children) /\ n.children \in Seq(Ids)
    BY <1>1
  <2> DEFINE old == n.children
             place == at + 1
             x == ReplaceAt(old, place, c)
  <2>2. place \in 1 .. Len(old) /\ old \in Seq(Ids) /\ c \in Ids
    BY <2>1
  <2> HIDE DEF place, old
  <2>3. x \in Seq(Ids) /\ Len(x) = Len(old)
    BY <2>2, ReplaceAtElements
  <2>4. ASSUME NEW j \in 1 .. Len(old)
        PROVE  x[j] = IF j = place THEN c ELSE old[j]
    BY <2>2, ReplaceAtElements
  <2>5. kids = x
    BY DEF old, place
  <2> HIDE DEF x
  <2> QED  BY <2>3, <2>4, <2>5, <1>1 DEF old, place
<1>3. r = InternalOf(n.keys, n.start, kids)
  BY DEF ReplaceChild
<1>4. \A i \in 1 .. np : SepBytes(n.keys[i]) <= MaxKvSize(P) + 2
  BY <1>1, LimitFacts
<1> HIDE DEF kids, r
<1>5. /\ SoundInternal(r, P) /\ r.keys = n.keys /\ r.kind = "internal"
      /\ InternalBytes(r) = 11 + n.start[np] + 8 * (np + 1)
  BY <1>1, <1>2, <1>3, <1>4, MakeInternal
<1>6. r.children = kids
  BY <1>3 DEF InternalOf
<1>7. InternalBytes(n) = 11 + n.start[np] + 8 * (np + 1)
  BY <1>1 DEF InternalBytes, INTERNAL_HEADER
<1> QED  BY <1>1, <1>2, <1>5, <1>6, <1>7 DEF r

\* What its children cover has not changed if the new one covers what the
\* old one did.
LEMMA ReplacedCovers ==
    ASSUME NEW P \in Sizes, NEW n, SoundInternal(n, P),
           NEW at \in 0 .. Len(n.keys), NEW c \in Ids, NEW U, NEW u, NEW w,
           Covers(n, U, u), KeysIn(n, U),
           \A i \in 1 .. Len(n.children) : i # at + 1 => w[n.children[i]] = u[n.children[i]],
           w[c] = u[n.children[at + 1]]
    PROVE  Covers(ReplaceChild(n, at, c), U, w) /\ KeysIn(ReplaceChild(n, at, c), U)
<1> DEFINE r == ReplaceChild(n, at, c)
<1>1. /\ r.kind = "internal" /\ r.keys = n.keys /\ Len(r.children) = Len(n.children)
      /\ \A i \in 1 .. Len(n.children) :
            r.children[i] = IF i = at + 1 THEN c ELSE n.children[i]
  BY ReplaceChildSound
<1> HIDE DEF r
<1>2. n.kind = "internal"
  BY InternalFacts
<1>3. KeysIn(r, U)
  BY <1>1, <1>2 DEF KeysIn, Pieces, PieceKey
<1>4. ASSUME NEW i \in 1 .. Len(r.children)
      PROVE  w[r.children[i]] = {k \in U : InSlot(r, i, k)}
  <2>1. i \in 1 .. Len(n.children)
    BY <1>1
  <2>2. \A k : InSlot(r, i, k) <=> InSlot(n, i, k)
    BY <1>1 DEF InSlot
  <2>3. w[r.children[i]] = u[n.children[i]]
    BY <1>1, <2>1
  <2>4. u[n.children[i]] = {k \in U : InSlot(n, i, k)}
    BY <2>1 DEF Covers
  <2> QED  BY <2>2, <2>3, <2>4
<1> QED  BY <1>3, <1>4 DEF Covers, r

\* What insertion of a separator and the two children around it leaves where.
LEMMA GrownIs ==
    ASSUME NEW P \in Sizes, NEW n, SoundInternal(n, P),
           NEW at \in 0 .. Len(n.keys), NEW sep \in Key, NEW lid \in Ids, NEW rid \in Ids
    PROVE  LET g  == InsertSplitChild(n, at, sep, lid, rid)
               np == Len(n.keys)
           IN  /\ g.kind = "internal" /\ np \in Nat
               /\ Len(g.keys) = np + 1 /\ Len(g.children) = np + 2
               /\ \A j \in 1 .. np + 1 :
                     g.keys[j] = IF j <= at THEN n.keys[j]
                                 ELSE IF j = at + 1 THEN sep ELSE n.keys[j - 1]
               /\ \A j \in 1 .. np + 2 :
                     g.children[j] = IF j <= at THEN n.children[j]
                                     ELSE IF j = at + 1 THEN lid
                                     ELSE IF j = at + 2 THEN rid ELSE n.children[j - 1]
<1> DEFINE g == InsertSplitChild(n, at, sep, lid, rid)
           np == Len(n.keys)
           keys == n.keys
           kids == n.children
           place == at + 1
           k == InsertAt(keys, place, sep)
           kids1 == ReplaceAt(kids, place, rid)
           c == InsertAt(kids1, place, lid)
<1>1. np \in Nat /\ keys \in Seq(Key) /\ kids \in Seq(Ids) /\ Len(kids) = np + 1
  BY InternalFacts
<1>2. /\ place \in 1 .. Len(keys) + 1 /\ place \in 1 .. Len(kids) + 1
      /\ place \in 1 .. Len(kids) /\ at \in Int
  BY <1>1
<1>3. g.kind = "internal" /\ g.keys = k /\ g.children = c
  BY DEF InsertSplitChild, InternalOf
<1>4. Len(keys) = np
  OBVIOUS
<1> HIDE DEF g, keys, kids, place, np
<1>5. /\ k \in Seq(Key) /\ Len(k) = Len(keys) + 1
      /\ \A j \in 1 .. Len(keys) + 1 :
            k[j] = IF j < place THEN keys[j] ELSE IF j = place THEN sep ELSE keys[j - 1]
  <2>1. place \in 1 .. Len(keys) + 1 /\ keys \in Seq(Key) /\ sep \in Key
    BY <1>1, <1>2
  <2>2. k \in Seq(Key) /\ Len(k) = Len(keys) + 1
    BY <2>1, InsertAtElements
  <2>3. ASSUME NEW j \in 1 .. Len(keys) + 1
        PROVE  k[j] = IF j < place THEN keys[j] ELSE IF j = place THEN sep ELSE keys[j - 1]
    BY <2>1, InsertAtElements
  <2> HIDE DEF k
  <2> QED  BY <2>2, <2>3
<1>6. /\ kids1 \in Seq(Ids) /\ Len(kids1) = Len(kids)
      /\ \A j \in 1 .. Len(kids) : kids1[j] = IF j = place THEN rid ELSE kids[j]
  <2>1. place \in 1 .. Len(kids) /\ kids \in Seq(Ids) /\ rid \in Ids
    BY <1>1, <1>2
  <2>2. kids1 \in Seq(Ids) /\ Len(kids1) = Len(kids)
    BY <2>1, ReplaceAtElements
  <2>3. ASSUME NEW j \in 1 .. Len(kids)
        PROVE  kids1[j] = IF j = place THEN rid ELSE kids[j]
    BY <2>1, ReplaceAtElements
  <2> HIDE DEF kids1
  <2> QED  BY <2>2, <2>3
<1> HIDE DEF k, kids1
<1>7. /\ c \in Seq(Ids) /\ Len(c) = Len(kids1) + 1
      /\ \A j \in 1 .. Len(kids1) + 1 :
            c[j] = IF j < place THEN kids1[j] ELSE IF j = place THEN lid ELSE kids1[j - 1]
  <2>1. place \in 1 .. Len(kids1) + 1 /\ kids1 \in Seq(Ids) /\ lid \in Ids
    BY <1>1, <1>2, <1>6
  <2>2. c \in Seq(Ids) /\ Len(c) = Len(kids1) + 1
    BY <2>1, InsertAtElements
  <2>3. ASSUME NEW j \in 1 .. Len(kids1) + 1
        PROVE  c[j] = IF j < place THEN kids1[j] ELSE IF j = place THEN lid ELSE kids1[j - 1]
    BY <2>1, InsertAtElements
  <2> HIDE DEF c
  <2> QED  BY <2>2, <2>3
<1> HIDE DEF c
<1>8. ASSUME NEW j \in 1 .. np + 1
       PROVE  g.keys[j] = IF j <= at THEN keys[j]
                          ELSE IF j = at + 1 THEN sep ELSE keys[j - 1]
  BY <1>2, <1>3, <1>4, <1>5 DEF place
<1>9. ASSUME NEW j \in 1 .. np + 2
       PROVE  g.children[j] = IF j <= at THEN kids[j]
                              ELSE IF j = at + 1 THEN lid
                              ELSE IF j = at + 2 THEN rid ELSE kids[j - 1]
  <2>1. /\ g.children[j] = c[j] /\ np + 1 \in Int /\ np \in Nat /\ at \in 0 .. np
        /\ j \in 1 .. Len(kids1) + 1
    BY <1>1, <1>3, <1>6 DEF np
  <2>2. CASE j <= at
    <3>1. j < place /\ j \in 1 .. np + 1 /\ j # place
      BY <2>1, <2>2 DEF place
    <3>2. c[j] = kids1[j] /\ kids1[j] = kids[j]
      BY <2>1, <3>1, <1>1, <1>6, <1>7
    <3> QED  BY <2>1, <2>2, <3>2
  <2>3. CASE ~ (j <= at)
    <3>1. ~ (j < place)
      BY <2>1, <2>3 DEF place
    <3>2. CASE j = place
      BY <2>1, <2>3, <3>1, <3>2, <1>7 DEF place
    <3>3. CASE j # place
      <4>1. j - 1 \in 1 .. np + 1 /\ (j - 1 = place <=> j = at + 2) /\ j # at + 1
        BY <2>1, <2>3, <3>3 DEF place
      <4>2. c[j] = kids1[j - 1]
        BY <2>1, <3>1, <3>3, <1>7
      <4>3. kids1[j - 1] = IF j - 1 = place THEN rid ELSE kids[j - 1]
        BY <4>1, <1>1, <1>6
      <4> QED  BY <2>1, <2>3, <4>1, <4>2, <4>3
    <3> QED  BY <3>2, <3>3
  <2> QED  BY <2>2, <2>3
<1>10. Len(k) = np + 1 /\ Len(c) = np + 2
  BY <1>1, <1>4, <1>5, <1>6, <1>7
<1> QED  BY <1>1, <1>3, <1>8, <1>9, <1>10 DEF g, np, keys, kids

\* What a split with promotion leaves where.
LEMMA PromotedIs ==
    ASSUME NEW P \in Sizes, NEW n, SoundInternal(n, P),
           InternalBytes(n) > P, InternalBytes(n) <= P + MaxKvSize(P) + 10
    PROVE  LET half == SplitWithPromotion(n, P)
               np   == Len(n.keys)
               m    == PromotionPoint(n, P)
           IN  /\ np \in Nat /\ m \in 1 .. np - 2
               /\ half.sep = n.keys[m + 1]
               /\ half.left.kind = "internal" /\ half.right.kind = "internal"
               /\ Len(half.left.keys) = m /\ Len(half.left.children) = m + 1
               /\ Len(half.right.keys) = np - m - 1 /\ Len(half.right.children) = np - m
               /\ \A j \in 1 .. m : half.left.keys[j] = n.keys[j]
               /\ \A j \in 1 .. m + 1 : half.left.children[j] = n.children[j]
               /\ \A j \in 1 .. np - m - 1 : half.right.keys[j] = n.keys[m + 1 + j]
               /\ \A j \in 1 .. np - m : half.right.children[j] = n.children[m + 1 + j]
<1> DEFINE half == SplitWithPromotion(n, P)
           np == Len(n.keys)
           m == PromotionPoint(n, P)
           keys == n.keys
           kids == n.children
           lk == SubSeq(keys, 1, m)
           lc == SubSeq(kids, 1, m + 1)
           rk == SubSeq(keys, m + 2, np)
           rc == SubSeq(kids, m + 2, np + 1)
<1>1. np \in Nat /\ keys \in Seq(Key) /\ kids \in Seq(Ids) /\ Len(kids) = np + 1
  BY InternalFacts
<1>2. m \in 1 .. np - 2
  BY PromotionPointFits
<1>3. /\ half.sep = keys[m + 1]
      /\ half.left.kind = "internal" /\ half.right.kind = "internal"
      /\ half.left.keys = lk /\ half.left.children = lc
      /\ half.right.keys = rk /\ half.right.children = rc
  BY DEF SplitWithPromotion, InternalOf
<1>4. Len(keys) = np
  OBVIOUS
<1> HIDE DEF half, m, keys, kids, np
<1>5. /\ 1 \in 1 .. Len(keys) + 1 /\ m \in 1 - 1 .. Len(keys)
      /\ 1 \in 1 .. Len(kids) + 1 /\ m + 1 \in 1 - 1 .. Len(kids)
      /\ m + 2 \in 1 .. Len(keys) + 1 /\ np \in m + 2 - 1 .. Len(keys)
      /\ m + 2 \in 1 .. Len(kids) + 1 /\ np + 1 \in m + 2 - 1 .. Len(kids)
  BY <1>1, <1>2, <1>4
<1>6. Len(lk) = m /\ \A j \in 1 .. m : lk[j] = keys[j]
  <2>1. Len(lk) = m - 1 + 1 /\ \A j \in 1 .. m - 1 + 1 : lk[j] = keys[1 + j - 1]
    BY <1>1, <1>5, SubSeqElements
  <2> HIDE DEF lk
  <2> QED  BY <2>1, <1>1, <1>2
<1>7. Len(lc) = m + 1 /\ \A j \in 1 .. m + 1 : lc[j] = kids[j]
  <2>1. Len(lc) = m + 1 - 1 + 1 /\ \A j \in 1 .. m + 1 - 1 + 1 : lc[j] = kids[1 + j - 1]
    BY <1>1, <1>5, SubSeqElements
  <2> HIDE DEF lc
  <2> QED  BY <2>1, <1>1, <1>2
<1>8. Len(rk) = np - m - 1 /\ \A j \in 1 .. np - m - 1 : rk[j] = keys[m + 1 + j]
  <2>1. /\ Len(rk) = np - (m + 2) + 1
        /\ \A j \in 1 .. np - (m + 2) + 1 : rk[j] = keys[m + 2 + j - 1]
    BY <1>1, <1>5, SubSeqElements
  <2> HIDE DEF rk
  <2> QED  BY <2>1, <1>1, <1>2
<1>9. Len(rc) = np - m /\ \A j \in 1 .. np - m : rc[j] = kids[m + 1 + j]
  <2>1. /\ Len(rc) = np + 1 - (m + 2) + 1
        /\ \A j \in 1 .. np + 1 - (m + 2) + 1 : rc[j] = kids[m + 2 + j - 1]
    BY <1>1, <1>5, SubSeqElements
  <2> HIDE DEF rc
  <2> QED  BY <2>1, <1>1, <1>2
<1> HIDE DEF lk, lc, rk, rc
<1> QED  BY <1>1, <1>2, <1>3, <1>6, <1>7, <1>8, <1>9 DEF half, m, keys, kids, np

\* An internal node for the keys of U that took a separator of one of its
\* slots covers the same keys: that slot's, on either side of the separator,
\* with the two new children, and the others as before.
LEMMA GrownCovers ==
    ASSUME NEW P \in Sizes, NEW n, SoundInternal(n, P), NEW sep \in Key,
           NEW lid \in Ids, NEW rid \in Ids, NEW U \in SUBSET Key, NEW u, NEW w,
           sep \in U, Covers(n, U, u), KeysIn(n, U),
           NEW at, at = ChildIndex(n, sep),
           \A i \in 1 .. Len(n.children) : i # at + 1 => w[n.children[i]] = u[n.children[i]],
           w[lid] = Below(u[n.children[at + 1]], sep),
           w[rid] = From(u[n.children[at + 1]], sep)
    PROVE  LET g == InsertSplitChild(n, at, sep, lid, rid)
           IN  Covers(g, U, w) /\ KeysIn(g, U)
<1> DEFINE g == InsertSplitChild(n, at, sep, lid, rid)
           np == Len(n.keys)
<1>1. /\ at \in 0 .. np
      /\ \A i \in 1 .. np : i <= at => n.keys[i] <= sep
      /\ \A i \in 1 .. np : i > at => sep < n.keys[i]
  BY InternalPlace
<1>2. /\ np \in Nat /\ Len(n.children) = np + 1 /\ n.kind = "internal"
      /\ \A i \in 1 .. np : n.keys[i] \in Nat
  <2>1. \A i \in 1 .. np : n.keys[i] \in Key
    BY InternalFacts
  <2> QED  BY <2>1, InternalFacts, KeyAssumption
<1>3. sep \in Nat /\ \A k \in U : k \in Nat
  BY KeyAssumption
<1>4. /\ g.kind = "internal" /\ Len(g.keys) = np + 1 /\ Len(g.children) = np + 2
      /\ \A j \in 1 .. np + 1 :
            g.keys[j] = IF j <= at THEN n.keys[j]
                        ELSE IF j = at + 1 THEN sep ELSE n.keys[j - 1]
      /\ \A j \in 1 .. np + 2 :
            g.children[j] = IF j <= at THEN n.children[j]
                            ELSE IF j = at + 1 THEN lid
                            ELSE IF j = at + 2 THEN rid ELSE n.children[j - 1]
  BY <1>1, GrownIs
<1> HIDE DEF g, np
<1>5. \A i \in 1 .. np : n.keys[i] \in U
  BY <1>2 DEF KeysIn, Pieces, PieceKey, np
<1>6. KeysIn(g, U)
  <2> SUFFICES ASSUME NEW j \in 1 .. np + 1
               PROVE  g.keys[j] \in U
    BY <1>4 DEF KeysIn, Pieces, PieceKey
  <2>1. CASE j <= at
    BY <2>1, <1>1, <1>2, <1>4, <1>5
  <2>2. CASE j = at + 1
    BY <2>2, <1>1, <1>2, <1>4
  <2>3. CASE ~ (j <= at) /\ j # at + 1
    <3>1. j - 1 \in 1 .. np
      BY <2>3, <1>1, <1>2
    <3> QED  BY <2>3, <3>1, <1>4, <1>5
  <2> QED  BY <2>1, <2>2, <2>3
<1>7. \A i \in 1 .. np + 1 : u[n.children[i]] = {k \in U : InSlot(n, i, k)}
  BY <1>2 DEF Covers
<1>8. ASSUME NEW j \in 1 .. np + 2
      PROVE  w[g.children[j]] = {k \in U : InSlot(g, j, k)}
  <2>0. j \in Int /\ at \in Int /\ np \in Int /\ 0 <= at /\ at <= np /\ 1 <= j /\ j <= np + 2
    BY <1>1, <1>2
  <2>1. CASE j <= at
    <3>1. j \in 1 .. np /\ j \in 1 .. np + 1 /\ j # at + 1 /\ j <= np + 1
      BY <2>0, <2>1
    <3>2. w[g.children[j]] = {k \in U : InSlot(n, j, k)}
      BY <3>1, <2>1, <1>2, <1>4, <1>7
    <3>3. g.keys[j] = n.keys[j] /\ (j > 1 => g.keys[j - 1] = n.keys[j - 1])
      <4>1. j > 1 => j - 1 \in 1 .. np + 1 /\ j - 1 <= at
        BY <2>0, <2>1
      <4> QED  BY <4>1, <2>1, <3>1, <1>4
    <3>4. \A k : InSlot(g, j, k) <=> InSlot(n, j, k)
      BY <3>1, <3>3, <1>4 DEF InSlot, np
    <3> QED  BY <3>2, <3>4
  <2>2. CASE j = at + 1
    <3>1. w[g.children[j]] = {k \in U : InSlot(n, j, k) /\ k < sep}
      <4>1. g.children[j] = lid /\ j \in 1 .. np + 1
        BY <2>0, <2>2, <1>4
      <4> QED  BY <4>1, <2>2, <1>7 DEF Below
    <3>2. g.keys[j] = sep /\ (j > 1 => g.keys[j - 1] = n.keys[j - 1])
      <4>1. j > 1 => j - 1 \in 1 .. np + 1 /\ j - 1 <= at
        BY <2>0, <2>2
      <4>2. j \in 1 .. np + 1 /\ ~ (j <= at)
        BY <2>0, <2>2
      <4> QED  BY <4>1, <4>2, <2>2, <1>4
    <3>3. j <= np => n.keys[j] \in Nat /\ sep < n.keys[j]
      <4>1. j <= np => j \in 1 .. np /\ j > at
        BY <2>0, <2>2
      <4> QED  BY <4>1, <1>1, <1>2
    <3>4. ASSUME NEW k \in U
          PROVE  InSlot(g, j, k) <=> InSlot(n, j, k) /\ k < sep
      <4>1. j <= np + 1 /\ k \in Nat
        BY <2>0, <2>2, <1>3
      <4>2. k < sep => (j <= np => k < n.keys[j])
        BY <4>1, <3>3, <1>3
      <4> QED  BY <4>1, <4>2, <3>2, <1>4 DEF InSlot, np
    <3> QED  BY <3>1, <3>4
  <2>3. CASE j = at + 2
    <3>1. w[g.children[j]] = {k \in U : InSlot(n, at + 1, k) /\ sep <= k}
      <4>1. g.children[j] = rid /\ at + 1 \in 1 .. np + 1
        BY <2>0, <2>3, <1>4
      <4> QED  BY <4>1, <2>3, <1>7 DEF From
    <3>2. g.keys[j - 1] = sep /\ (j <= np + 1 => g.keys[j] = n.keys[at + 1])
      <4>1. j - 1 \in 1 .. np + 1 /\ j - 1 = at + 1 /\ ~ (j - 1 <= at)
        BY <2>0, <2>3
      <4>2. j <= np + 1 => j \in 1 .. np + 1 /\ ~ (j <= at) /\ j # at + 1 /\ j - 1 = at + 1
        BY <2>0, <2>3
      <4> QED  BY <4>1, <4>2, <1>4
    <3>3. at + 1 > 1 => n.keys[at] \in Nat /\ n.keys[at] <= sep
      <4>1. at + 1 > 1 => at \in 1 .. np /\ at <= at
        BY <2>0
      <4> QED  BY <4>1, <1>1, <1>2
    <3>4. ASSUME NEW k \in U
          PROVE  InSlot(g, j, k) <=> InSlot(n, at + 1, k) /\ sep <= k
      <4>1. j > 1 /\ (j <= np + 1 <=> at + 1 <= np) /\ k \in Nat /\ at + 1 - 1 = at
        BY <2>0, <2>3, <1>3
      <4>2. sep <= k => (at + 1 > 1 => n.keys[at] <= k)
        BY <4>1, <3>3, <1>3
      <4>3. InSlot(g, j, k) <=> sep <= k /\ (j <= np + 1 => k < n.keys[at + 1])
        BY <4>1, <3>2, <1>4 DEF InSlot
      <4>4. InSlot(n, at + 1, k) <=>
              (at + 1 > 1 => n.keys[at] <= k) /\ (at + 1 <= np => k < n.keys[at + 1])
        <5> DEFINE i == at + 1
        <5>1. i - 1 = at /\ i \in Int
          BY <2>0
        <5> HIDE DEF i
        <5>2. InSlot(n, i, k) <=> (i > 1 => n.keys[i - 1] <= k) /\ (i <= np => k < n.keys[i])
          BY DEF InSlot, np
        <5>3. InSlot(n, i, k) <=> (i > 1 => n.keys[at] <= k) /\ (i <= np => k < n.keys[i])
          BY <5>1, <5>2
        <5> QED  BY <5>3 DEF i
      <4> QED  BY <4>1, <4>2, <4>3, <4>4
    <3> QED  BY <3>1, <3>4
  <2>4. CASE j > at + 2
    <3>1. /\ j - 1 \in 1 .. np + 1 /\ j - 1 # at + 1 /\ ~ (j <= at) /\ j # at + 1 /\ j # at + 2
          /\ ~ (j - 1 <= at) /\ j - 1 # at + 1 /\ j > 1 /\ j - 1 > 1 /\ j - 1 - 1 = j - 2
          /\ (j <= np + 1 <=> j - 1 <= np)
      BY <2>0, <2>4
    <3>2. w[g.children[j]] = {k \in U : InSlot(n, j - 1, k)}
      BY <3>1, <1>2, <1>4, <1>7
    <3>3. g.keys[j - 1] = n.keys[j - 2] /\ (j <= np + 1 => g.keys[j] = n.keys[j - 1])
      <4>1. j <= np + 1 => j \in 1 .. np + 1
        BY <2>0
      <4> QED  BY <3>1, <4>1, <1>4
    <3>4. \A k : InSlot(g, j, k) <=> InSlot(n, j - 1, k)
      <4>1. \A k : InSlot(g, j, k) <=> n.keys[j - 2] <= k /\ (j <= np + 1 => k < n.keys[j - 1])
        BY <3>1, <3>3, <1>4 DEF InSlot
      <4>2. \A k : InSlot(n, j - 1, k)
                      <=> n.keys[j - 2] <= k /\ (j - 1 <= np => k < n.keys[j - 1])
        BY <3>1 DEF InSlot, np
      <4> QED  BY <3>1, <4>1, <4>2
    <3> QED  BY <3>2, <3>4
  <2> QED  BY <2>0, <2>1, <2>2, <2>3, <2>4
<1> QED  BY <1>4, <1>6, <1>8 DEF Covers, g

\* Each half of a node that split covers what is on its side of the key that
\* went up.
LEMMA PromotedCovers ==
    ASSUME NEW P \in Sizes, NEW n, SoundInternal(n, P),
           InternalBytes(n) > P, InternalBytes(n) <= P + MaxKvSize(P) + 10,
           NEW U \in SUBSET Key, NEW w, Covers(n, U, w), KeysIn(n, U)
    PROVE  LET half == SplitWithPromotion(n, P)
           IN  /\ half.sep \in U
               /\ Covers(half.left, Below(U, half.sep), w)
               /\ KeysIn(half.left, Below(U, half.sep))
               /\ Covers(half.right, From(U, half.sep), w)
               /\ KeysIn(half.right, From(U, half.sep))
<1> DEFINE half == SplitWithPromotion(n, P)
           np == Len(n.keys)
           m == PromotionPoint(n, P)
           sep == half.sep
<1>1. /\ np \in Nat /\ m \in 1 .. np - 2
      /\ half.sep = n.keys[m + 1]
      /\ half.left.kind = "internal" /\ half.right.kind = "internal"
      /\ Len(half.left.keys) = m /\ Len(half.left.children) = m + 1
      /\ Len(half.right.keys) = np - m - 1 /\ Len(half.right.children) = np - m
      /\ \A j \in 1 .. m : half.left.keys[j] = n.keys[j]
      /\ \A j \in 1 .. m + 1 : half.left.children[j] = n.children[j]
      /\ \A j \in 1 .. np - m - 1 : half.right.keys[j] = n.keys[m + 1 + j]
      /\ \A j \in 1 .. np - m : half.right.children[j] = n.children[m + 1 + j]
  BY PromotedIs
<1>2. /\ Len(n.children) = np + 1 /\ n.kind = "internal"
      /\ \A i \in 1 .. np : n.keys[i] \in Nat
      /\ \A i, j \in 1 .. np : i < j => n.keys[i] < n.keys[j]
  <2>1. \A i \in 1 .. np : n.keys[i] \in Key
    BY InternalFacts
  <2> QED  BY <2>1, InternalFacts, KeyAssumption
<1> HIDE DEF half, np, m
<1>3. \A i \in 1 .. np : n.keys[i] \in U
  BY <1>2 DEF KeysIn, Pieces, PieceKey, np
<1>4. m \in Int /\ np \in Int /\ 1 <= m /\ m <= np - 2 /\ m + 1 \in 1 .. np
  BY <1>1
<1>5. sep \in U /\ sep \in Nat /\ sep = n.keys[m + 1] /\ \A k \in U : k \in Nat
  BY <1>1, <1>2, <1>3, <1>4, KeyAssumption
<1> HIDE DEF sep
<1>6. \A i \in 1 .. np + 1 : w[n.children[i]] = {k \in U : InSlot(n, i, k)}
  BY <1>2 DEF Covers
<1>7. KeysIn(half.left, Below(U, sep))
  <2> SUFFICES ASSUME NEW j \in 1 .. m
               PROVE  half.left.keys[j] \in Below(U, sep)
    BY <1>1 DEF KeysIn, Pieces, PieceKey
  <2>1. j \in 1 .. np /\ j < m + 1
    BY <1>4
  <2> QED  BY <2>1, <1>1, <1>2, <1>3, <1>4, <1>5 DEF Below
<1>8. KeysIn(half.right, From(U, sep))
  <2> SUFFICES ASSUME NEW j \in 1 .. np - m - 1
               PROVE  half.right.keys[j] \in From(U, sep)
    BY <1>1 DEF KeysIn, Pieces, PieceKey
  <2>1. m + 1 + j \in 1 .. np /\ m + 1 < m + 1 + j
    BY <1>4
  <2>2. sep < n.keys[m + 1 + j] /\ n.keys[m + 1 + j] \in U /\ n.keys[m + 1 + j] \in Nat
    BY <2>1, <1>2, <1>3, <1>4, <1>5
  <2>3. sep <= n.keys[m + 1 + j]
    BY <2>2, <1>5
  <2> QED  BY <2>2, <2>3, <1>1 DEF From
<1>9. ASSUME NEW j \in 1 .. m + 1
      PROVE  w[half.left.children[j]] = {k \in Below(U, sep) : InSlot(half.left, j, k)}
  <2>1. j \in 1 .. np + 1 /\ j \in Int /\ j <= m + 1 /\ 1 <= j
    BY <1>4
  <2>2. w[half.left.children[j]] = {k \in U : InSlot(n, j, k)}
    BY <2>1, <1>1, <1>6
  <2>3. ASSUME NEW k \in U
        PROVE  InSlot(n, j, k) <=> k < sep /\ InSlot(half.left, j, k)
    <3>1. j <= np /\ k \in Nat
      BY <2>1, <1>4, <1>5
    <3>2. j > 1 => half.left.keys[j - 1] = n.keys[j - 1]
      <4>1. j > 1 => j - 1 \in 1 .. m
        BY <2>1, <1>4
      <4> QED  BY <4>1, <1>1
    <3>3. InSlot(half.left, j, k) <=>
             (j > 1 => n.keys[j - 1] <= k) /\ (j <= m => k < n.keys[j])
      <4>1. j <= m => j \in 1 .. m
        BY <2>1
      <4> QED  BY <3>2, <4>1, <1>1 DEF InSlot
    <3>4. InSlot(n, j, k) <=> (j > 1 => n.keys[j - 1] <= k) /\ k < n.keys[j]
      BY <3>1 DEF InSlot, np
    <3>5. CASE j <= m
      <4>1. n.keys[j] < sep /\ n.keys[j] \in Nat
        <5>1. j \in 1 .. np /\ j < m + 1
          BY <3>5, <2>1, <1>4
        <5> QED  BY <5>1, <1>2, <1>4, <1>5
      <4>2. k < n.keys[j] => k < sep
        BY <4>1, <3>1, <1>5
      <4> QED  BY <3>3, <3>4, <3>5, <4>2
    <3>6. CASE ~ (j <= m)
      <4>1. j = m + 1
        BY <3>6, <2>1, <1>4
      <4> QED  BY <3>3, <3>4, <3>6, <4>1, <1>5
    <3> QED  BY <3>5, <3>6
  <2> QED  BY <2>2, <2>3 DEF Below
<1>10. ASSUME NEW j \in 1 .. np - m
       PROVE  w[half.right.children[j]] = {k \in From(U, sep) : InSlot(half.right, j, k)}
  <2> DEFINE i == m + 1 + j
  <2>1. /\ i \in 1 .. np + 1 /\ j \in Int /\ 1 <= j /\ j <= np - m /\ i > 1
        /\ i - 1 \in 1 .. np /\ i - 1 = m + j
    BY <1>4
  <2>2. w[half.right.children[j]] = {k \in U : InSlot(n, i, k)}
    BY <2>1, <1>1, <1>6
  <2>3. ASSUME NEW k \in U
        PROVE  InSlot(n, i, k) <=> sep <= k /\ InSlot(half.right, j, k)
    <3>1. j > 1 => half.right.keys[j - 1] = n.keys[i - 1]
      <4>1. j > 1 => j - 1 \in 1 .. np - m - 1 /\ m + 1 + (j - 1) = i - 1
        BY <2>1, <1>4
      <4> QED  BY <4>1, <1>1
    <3>2. j <= np - m - 1 => half.right.keys[j] = n.keys[i]
      <4>1. j <= np - m - 1 => j \in 1 .. np - m - 1
        BY <2>1, <1>4
      <4> QED  BY <4>1, <1>1
    <3>3. j <= np - m - 1 <=> i <= np
      BY <2>1, <1>4
    <3> HIDE DEF i
    <3>4. InSlot(half.right, j, k) <=>
             (j > 1 => n.keys[i - 1] <= k) /\ (i <= np => k < n.keys[i])
      BY <3>1, <3>2, <3>3, <1>1 DEF InSlot
    <3>5. InSlot(n, i, k) <=> n.keys[i - 1] <= k /\ (i <= np => k < n.keys[i])
      BY <2>1 DEF InSlot, np
    <3>6. CASE j > 1
      <4>1. sep < n.keys[i - 1] /\ n.keys[i - 1] \in Nat /\ k \in Nat
        <5>1. m + 1 < i - 1
          BY <3>6, <2>1, <1>4
        <5> QED  BY <5>1, <2>1, <1>2, <1>4, <1>5
      <4>2. n.keys[i - 1] <= k => sep <= k
        BY <4>1, <1>5
      <4> QED  BY <3>4, <3>5, <3>6, <4>2
    <3>7. CASE ~ (j > 1)
      <4>1. i - 1 = m + 1
        BY <3>7, <2>1, <1>4
      <4>2. n.keys[i - 1] = sep
        BY <4>1, <1>5
      <4> QED  BY <3>4, <3>5, <3>7, <4>2
    <3> QED  BY <3>6, <3>7
  <2> QED  BY <2>2, <2>3 DEF From
<1> QED  BY <1>1, <1>5, <1>7, <1>8, <1>9, <1>10 DEF Covers, half, sep

\* What a node that took two children for one covers, in one page or in two.
InsertedHolds(r, n, at, lid, rid, U, w) ==
    /\ ~r.split => /\ Covers(r.left, U, w) /\ KeysIn(r.left, U)
                   /\ Kids(r.left) = Others(n, at) \cup {lid, rid}
    /\ r.split =>
          /\ r.sep \in U
          /\ Covers(r.left, Below(U, r.sep), w) /\ KeysIn(r.left, Below(U, r.sep))
          /\ Covers(r.right, From(U, r.sep), w) /\ KeysIn(r.right, From(U, r.sep))
          /\ Kids(r.left) \cup Kids(r.right) = Others(n, at) \cup {lid, rid}

\* What becomes of an internal node for the keys of U whose child at a
\* separator's place came back as two: one node for the same keys, or two for
\* those on either side of a key of its own, with all of its other children
\* and the two.
LEMMA InsertInternalHolds ==
    ASSUME NEW P \in Sizes, NEW n, SoundInternal(n, P), InternalBytes(n) <= P,
           NEW sep \in Key, SepBytes(sep) <= MaxKvSize(P) + 2,
           \A i \in 1 .. Len(n.keys) : n.keys[i] # sep,
           NEW lid \in Ids, NEW rid \in Ids, NEW U \in SUBSET Key, NEW u, NEW w,
           sep \in U, Covers(n, U, u), KeysIn(n, U),
           NEW at, at = ChildIndex(n, sep),
           \A i \in 1 .. Len(n.children) : i # at + 1 => w[n.children[i]] = u[n.children[i]],
           w[lid] = Below(u[n.children[at + 1]], sep),
           w[rid] = From(u[n.children[at + 1]], sep)
    PROVE  InsertedHolds(InsertInternal(n, at, sep, lid, rid, P), n, at, lid, rid, U, w)
<1> DEFINE g == InsertSplitChild(n, at, sep, lid, rid)
           half == SplitWithPromotion(g, P)
           np == Len(n.keys)
           r == InsertInternal(n, at, sep, lid, rid, P)
           other == Others(n, at)
<1>1. at \in 0 .. np /\ np \in Nat /\ Len(n.children) = np + 1
  BY InternalPlace, InternalFacts
<1>2. SoundInternal(g, P) /\ InternalBytes(g) = InternalBytes(n) + SepBytes(sep) + 8
  BY InsertSplitChildSound
<1>3. Covers(g, U, w) /\ KeysIn(g, U)
  BY GrownCovers
<1>4. /\ Len(g.keys) = np + 1 /\ Len(g.children) = np + 2
      /\ \A j \in 1 .. np + 2 :
            g.children[j] = IF j <= at THEN n.children[j]
                            ELSE IF j = at + 1 THEN lid
                            ELSE IF j = at + 2 THEN rid ELSE n.children[j - 1]
  BY <1>1, GrownIs
<1> HIDE DEF g, np
<1>5. Kids(g) = other \cup {lid, rid}
  <2>1. ASSUME NEW j \in 1 .. np + 2 PROVE g.children[j] \in other \cup {lid, rid}
    <3>1. CASE j <= at
      <4>1. j \in (1 .. Len(n.children)) \ {at + 1}
        BY <3>1, <1>1
      <4> QED  BY <3>1, <4>1, <1>4 DEF Others
    <3>2. CASE j > at + 2
      <4>1. j - 1 \in (1 .. Len(n.children)) \ {at + 1} /\ ~ (j <= at)
            /\ j # at + 1 /\ j # at + 2
        BY <3>2, <1>1
      <4> QED  BY <4>1, <1>4 DEF Others
    <3>3. CASE j = at + 1 \/ j = at + 2
      <4>1. ~ (j <= at)
        BY <3>3, <1>1
      <4> QED  BY <3>3, <4>1, <1>4
    <3>4. j \in Int /\ at \in Int
      BY <1>1
    <3> QED  BY <3>1, <3>2, <3>3, <3>4
  <2>2. ASSUME NEW i \in (1 .. Len(n.children)) \ {at + 1}
        PROVE  \E j \in 1 .. np + 2 : g.children[j] = n.children[i]
    <3>1. CASE i <= at
      <4>1. i \in 1 .. np + 2
        BY <3>1, <1>1
      <4> QED  BY <3>1, <4>1, <1>4
    <3>2. CASE ~ (i <= at)
      <4> DEFINE j == i + 1
      <4>1. /\ j \in 1 .. np + 2 /\ ~ (j <= at) /\ j # at + 1 /\ j # at + 2
            /\ j - 1 = i
        BY <3>2, <1>1
      <4> HIDE DEF j
      <4>2. g.children[j] = n.children[j - 1]
        BY <4>1, <1>4
      <4> QED  BY <4>1, <4>2
    <3> QED  BY <3>1, <3>2
  <2>3. \E j \in 1 .. np + 2 : g.children[j] = lid
    <3>1. at + 1 \in 1 .. np + 2 /\ ~ (at + 1 <= at)
      BY <1>1
    <3> QED  BY <3>1, <1>4
  <2>4. \E j \in 1 .. np + 2 : g.children[j] = rid
    <3>1. at + 2 \in 1 .. np + 2 /\ ~ (at + 2 <= at) /\ at + 2 # at + 1
      BY <1>1
    <3> QED  BY <3>1, <1>4
  <2>5. Kids(g) = {g.children[j] : j \in 1 .. np + 2}
    BY <1>4 DEF Kids
  <2>6. Kids(g) \subseteq other \cup {lid, rid}
    BY <2>1, <2>5
  <2>7. other \subseteq Kids(g)
    BY <2>2, <2>5 DEF Others
  <2> HIDE DEF other
  <2> QED  BY <2>3, <2>4, <2>5, <2>6, <2>7
<1> HIDE DEF other
<1>6. CASE InternalBytes(g) <= P
  <2>1. r = Single(g)
    BY <1>6 DEF InsertInternal, g
  <2> QED  BY <2>1, <1>3, <1>5 DEF Single, other, InsertedHolds
<1>7. CASE ~ (InternalBytes(g) <= P)
  <2>1. InternalBytes(g) > P /\ InternalBytes(g) <= P + MaxKvSize(P) + 10
    <3>1. MaxKvSize(P) \in Nat /\ P \in Nat
      BY LimitFacts
    <3>2. InternalBytes(n) \in Nat /\ SepBytes(sep) \in Nat
      <4>1. n.start \in [0 .. np -> Nat]
        BY InternalFacts DEF np
      <4>2. n.start[np] \in Nat
        BY <4>1, <1>1
      <4>3. 11 + n.start[np] + 8 * Len(n.children) \in Nat
        BY <4>2, <1>1
      <4>4. InternalBytes(n) \in Nat
        BY <4>3 DEF InternalBytes, INTERNAL_HEADER, np
      <4> QED  BY <4>4, SepIsSized
    <3> QED  BY <3>1, <3>2, <1>2, <1>7
  <2>2. /\ half.sep \in U
        /\ Covers(half.left, Below(U, half.sep), w)
        /\ KeysIn(half.left, Below(U, half.sep))
        /\ Covers(half.right, From(U, half.sep), w)
        /\ KeysIn(half.right, From(U, half.sep))
    BY <2>1, <1>2, <1>3, PromotedCovers
  <2>3. r = Split(half.left, half.sep, half.right)
    BY <1>7 DEF InsertInternal, g
  <2> DEFINE m == PromotionPoint(g, P)
             q == Len(g.keys)
  <2>4. /\ m \in 1 .. q - 2
        /\ Len(half.left.children) = m + 1 /\ Len(half.right.children) = q - m
        /\ \A j \in 1 .. m + 1 : half.left.children[j] = g.children[j]
        /\ \A j \in 1 .. q - m : half.right.children[j] = g.children[m + 1 + j]
    BY <2>1, <1>2, PromotedIs
  <2>9. q = np + 1
    BY <1>4
  <2> HIDE DEF m, half, q
  <2>0. q = np + 1 /\ m \in Int /\ np \in Int /\ 1 <= m /\ m <= np - 1
    BY <2>4, <2>9, <1>1
  <2>5. Kids(half.left) \cup Kids(half.right) = Kids(g)
    <3>4. Kids(g) = {g.children[j] : j \in 1 .. np + 2}
      BY <1>4 DEF Kids
    <3>6. /\ Kids(half.left) = {half.left.children[j] : j \in 1 .. m + 1}
          /\ Kids(half.right) = {half.right.children[j] : j \in 1 .. q - m}
      BY <2>4 DEF Kids
    <3> HIDE DEF g
    <3>1. ASSUME NEW j \in 1 .. m + 1
          PROVE  half.left.children[j] \in Kids(g)
      <4>1. j \in 1 .. np + 2
        BY <2>0
      <4>2. half.left.children[j] = g.children[j]
        BY <2>4
      <4> QED  BY <4>1, <4>2, <3>4
    <3>2. ASSUME NEW j \in 1 .. q - m
          PROVE  half.right.children[j] \in Kids(g)
      <4>1. m + 1 + j \in 1 .. np + 2
        BY <2>0
      <4>2. half.right.children[j] = g.children[m + 1 + j]
        BY <2>4
      <4> QED  BY <4>1, <4>2, <3>4
    <3>3. ASSUME NEW j \in 1 .. np + 2
          PROVE  g.children[j] \in Kids(half.left) \cup Kids(half.right)
      <4>1. CASE j <= m + 1
        <5>1. j \in 1 .. m + 1
          BY <4>1, <2>0
        <5>2. half.left.children[j] = g.children[j]
          BY <5>1, <2>4
        <5> QED  BY <5>1, <5>2, <3>6
      <4>2. CASE ~ (j <= m + 1)
        <5>1. j - m - 1 \in 1 .. q - m /\ m + 1 + (j - m - 1) = j
          BY <4>2, <2>0
        <5>2. half.right.children[j - m - 1] = g.children[j]
          BY <5>1, <2>4
        <5> QED  BY <5>1, <5>2, <3>6
      <4> QED  BY <4>1, <4>2
    <3>5. Kids(g) \subseteq Kids(half.left) \cup Kids(half.right)
      BY <3>3, <3>4
    <3>7. Kids(half.left) \subseteq Kids(g) /\ Kids(half.right) \subseteq Kids(g)
      BY <3>1, <3>2, <3>6
    <3> QED  BY <3>5, <3>7
  <2> QED  BY <2>2, <2>3, <2>5, <1>5 DEF Split, other, InsertedHolds
<1> QED  BY <1>6, <1>7 DEF r, other

\* A leaf that took an entry under a new key holds one entry more.
LEMMA LeafInsertHolds ==
    ASSUME NEW P \in Sizes, NEW l, SoundLeaf(l, P), NEW e \in Entry,
           NEW at \in 0 .. Len(l.entries),
           \A i \in 1 .. Len(l.entries) : l.entries[i].key # e.key
    PROVE  Holding(LeafInsert(l, at, e)) = With(Holding(l), e)
<1> DEFINE n == Len(l.entries)
           old == l.entries
           place == at + 1
           x == InsertAt(old, place, e)
           new == LeafInsert(l, at, e)
<1>1. n \in Nat /\ old \in Seq(Entry) /\ e \in Entry
  BY LeafFacts
<1>2. at \in Int /\ 0 <= at /\ at <= n /\ n = Len(old)
  BY <1>1
<1>3. new.entries = x
  BY DEF LeafInsert, LeafOf
<1> HIDE DEF n, old, place, new
<1>4. place \in 1 .. Len(old) + 1 /\ old \in Seq(Entry) /\ e \in Entry
  BY <1>1, <1>2 DEF place
<1>5. Len(x) = Len(old) + 1
  BY <1>4, InsertAtElements
<1>6. ASSUME NEW j \in 1 .. Len(old) + 1
      PROVE  x[j] = IF j < place THEN old[j] ELSE IF j = place THEN e ELSE old[j - 1]
  BY <1>4, InsertAtElements, SMTT(30)
<1> HIDE DEF x
<1>7. Holding(new) = {x[j] : j \in 1 .. n + 1}
  BY <1>2, <1>3, <1>5 DEF Holding
<1>8. Holding(l) = {old[i] : i \in 1 .. n}
  BY DEF Holding, n, old
<1>9. \A y \in Holding(l) : y.key # e.key
  BY <1>8 DEF n, old
<1>10. With(Holding(l), e) = Holding(l) \cup {e}
  BY <1>9 DEF With
<1>11. ASSUME NEW j \in 1 .. n + 1 PROVE x[j] \in Holding(l) \cup {e}
  <2>1. CASE j < place
    <3>1. j \in 1 .. n
      BY <2>1, <1>1, <1>2 DEF place
    <3> QED  BY <2>1, <3>1, <1>2, <1>6, <1>8
  <2>2. CASE j = place
    BY <2>2, <1>2, <1>6, <1>4
  <2>3. CASE ~ (j < place) /\ j # place
    <3>1. j - 1 \in 1 .. n
      BY <2>3, <1>1, <1>2 DEF place
    <3> QED  BY <2>3, <3>1, <1>2, <1>6, <1>8
  <2> QED  BY <2>1, <2>2, <2>3
<1>12. ASSUME NEW i \in 1 .. n PROVE \E j \in 1 .. n + 1 : x[j] = old[i]
  <2>1. CASE i < place
    <3>1. i \in 1 .. n + 1
      BY <1>1
    <3> QED  BY <2>1, <3>1, <1>2, <1>6
  <2>2. CASE ~ (i < place)
    <3> DEFINE j == i + 1
    <3>1. j \in 1 .. n + 1 /\ ~ (j < place) /\ j # place /\ j - 1 = i
      BY <2>2, <1>1, <1>2 DEF place
    <3> HIDE DEF j
    <3> QED  BY <3>1, <1>2, <1>6
  <2> QED  BY <2>1, <2>2
<1>13. \E j \in 1 .. n + 1 : x[j] = e
  <2>1. place \in 1 .. n + 1 /\ ~ (place < place)
    BY <1>1, <1>2 DEF place
  <2> QED  BY <2>1, <1>2, <1>6
<1>14. Holding(l) \cup {e} \subseteq Holding(new)
  BY <1>7, <1>8, <1>12, <1>13
<1>15. Holding(new) \subseteq Holding(l) \cup {e}
  BY <1>7, <1>11
<1> QED  BY <1>10, <1>14, <1>15 DEF new

\* A leaf whose entry under a key was replaced.
LEMMA LeafUpdateHolds ==
    ASSUME NEW P \in Sizes, NEW l, SoundLeaf(l, P), NEW e \in Entry,
           NEW at \in 0 .. Len(l.entries) - 1, l.entries[at + 1].key = e.key
    PROVE  Holding(LeafUpdate(l, at, e)) = With(Holding(l), e)
<1> DEFINE n == Len(l.entries)
           old == l.entries
           place == at + 1
           x == ReplaceAt(old, place, e)
           new == LeafUpdate(l, at, e)
<1>1. n \in Nat /\ old \in Seq(Entry) /\ e \in Entry /\ old[place].key = e.key
  BY LeafFacts
<1>2. at \in Int /\ 0 <= at /\ at < n /\ n = Len(old)
  BY <1>1
<1>3. new.entries = x
  BY DEF LeafUpdate, LeafOf
<1>4. ASSUME NEW i \in 1 .. n, i # place PROVE old[i].key # e.key
  <2>1. \A a, b \in 1 .. n : a < b => old[a].key < old[b].key
    BY LeafKeys
  <2>2. place \in 1 .. n /\ place \in Int /\ i \in Int
    BY <1>1, <1>2
  <2>3. old[i].key \in Nat /\ old[place].key \in Nat
    <3>1. old[i] \in Entry /\ old[place] \in Entry
      BY <2>2, LeafFacts
    <3> QED  BY <3>1, EntryIsSized
  <2> HIDE DEF n, old, place
  <2>4. CASE i < place
    BY <2>1, <2>2, <2>3, <2>4, <1>1
  <2>5. CASE place < i
    BY <2>1, <2>2, <2>3, <2>5, <1>1
  <2> QED  BY <2>2, <2>4, <2>5, <1>4
<1> HIDE DEF n, old, place, new
<1>5. place \in 1 .. Len(old) /\ old \in Seq(Entry) /\ e \in Entry
  BY <1>1, <1>2 DEF place
<1>6. Len(x) = Len(old)
  BY <1>5, ReplaceAtElements
<1>7. ASSUME NEW j \in 1 .. Len(old) PROVE x[j] = IF j = place THEN e ELSE old[j]
  BY <1>5, ReplaceAtElements
<1> HIDE DEF x
<1>8. Holding(new) = {x[j] : j \in 1 .. n}
  BY <1>2, <1>3, <1>6 DEF Holding
<1>9. Holding(l) = {old[i] : i \in 1 .. n}
  BY DEF Holding, n, old
<1>10. Holding(new) \subseteq With(Holding(l), e)
  <2> SUFFICES ASSUME NEW j \in 1 .. n PROVE x[j] \in With(Holding(l), e)
    BY <1>8
  <2>1. x[j] = IF j = place THEN e ELSE old[j]
    BY <1>2, <1>7
  <2> QED  BY <2>1, <1>4, <1>9 DEF With
<1>11. With(Holding(l), e) \subseteq Holding(new)
  <2>1. x[place] = e /\ place \in 1 .. n
    BY <1>2, <1>5, <1>7
  <2>2. ASSUME NEW i \in 1 .. n, old[i].key # e.key PROVE x[i] = old[i]
    BY <2>2, <1>1, <1>2, <1>7
  <2> QED  BY <2>1, <2>2, <1>8, <1>9 DEF With
<1> QED  BY <1>10, <1>11 DEF new

\* The halves of a leaf that split hold what is on either side of the first
\* key of the right one, and the left one is not empty.
LEMMA LeafSplitHolds ==
    ASSUME NEW P \in Sizes, NEW l, SoundLeaf(l, P),
           LeafBytes(l) > P, LeafBytes(l) <= P + MaxKvSize(P) + 4
    PROVE  LET half == LeafSplitBySize(l, P)
               sep  == half.right.entries[1].key
           IN  /\ Holding(half.left) = {x \in Holding(l) : x.key < sep}
               /\ Holding(half.right) = {x \in Holding(l) : sep <= x.key}
               /\ \E i \in 1 .. Len(l.entries) : l.entries[i].key = sep
<1> DEFINE half == LeafSplitBySize(l, P)
           n == Len(l.entries)
           m == LeafSplitPoint(l, P)
           old == l.entries
           a == SubSeq(old, 1, m)
           b == SubSeq(old, m + 1, n)
<1>1. /\ n \in Nat /\ old \in Seq(Entry) /\ n = Len(old)
      /\ \A i \in 1 .. n : old[i] \in Entry
  BY LeafFacts
<1>2. m \in 1 .. n - 1
  BY LeafSplitPointFits
<1>3. half.left.entries = a /\ half.right.entries = b
  BY DEF LeafSplitBySize, LeafOf
<1>4. \A i, j \in 1 .. n : i < j => old[i].key < old[j].key
  BY LeafKeys
<1> HIDE DEF half, n, m, old
<1>5. m \in Int /\ n \in Int /\ 1 <= m /\ m <= n - 1
  BY <1>1, <1>2
<1>6. Len(a) = m /\ \A j \in 1 .. m : a[j] = old[j]
  <2>1. 1 \in 1 .. Len(old) + 1 /\ m \in 1 - 1 .. Len(old)
    BY <1>1, <1>5
  <2>2. Len(a) = m - 1 + 1 /\ \A j \in 1 .. m - 1 + 1 : a[j] = old[1 + j - 1]
    BY <1>1, <2>1, SubSeqElements
  <2> HIDE DEF a
  <2> QED  BY <2>2, <1>5
<1>7. Len(b) = n - m /\ \A j \in 1 .. n - m : b[j] = old[m + j]
  <2>1. m + 1 \in 1 .. Len(old) + 1 /\ n \in m + 1 - 1 .. Len(old)
    BY <1>1, <1>5
  <2>2. Len(b) = n - (m + 1) + 1 /\ \A j \in 1 .. n - (m + 1) + 1 : b[j] = old[m + 1 + j - 1]
    BY <1>1, <2>1, SubSeqElements
  <2> HIDE DEF b
  <2>3. ASSUME NEW j \in 1 .. n - m PROVE b[j] = old[m + j]
    <3>1. j \in 1 .. n - (m + 1) + 1 /\ m + 1 + j - 1 = m + j
      BY <1>5
    <3>2. b[j] = old[m + 1 + j - 1]
      BY <3>1, <2>2
    <3> QED  BY <3>1, <3>2
  <2>4. Len(b) = n - m
    BY <2>2, <1>5
  <2> QED  BY <2>3, <2>4
<1> HIDE DEF a, b
<1> DEFINE sep == half.right.entries[1].key
<1>8. sep = old[m + 1].key /\ m + 1 \in 1 .. n
  <2>1. 1 \in 1 .. n - m /\ m + 1 \in 1 .. n
    BY <1>5
  <2> QED  BY <2>1, <1>3, <1>7
<1> HIDE DEF sep
<1>9. \A i \in 1 .. n : old[i].key \in Nat
  BY <1>1, EntryIsSized
<1>10. \A i \in 1 .. n : old[i].key < sep <=> i <= m
  <2> SUFFICES ASSUME NEW i \in 1 .. n PROVE old[i].key < sep <=> i <= m
    OBVIOUS
  <2>1. CASE i <= m
    <3>1. i < m + 1
      BY <2>1, <1>5
    <3> QED  BY <2>1, <3>1, <1>4, <1>8
  <2>2. CASE ~ (i <= m)
    <3>1. i = m + 1 \/ m + 1 < i
      BY <2>2, <1>5
    <3>2. old[m + 1].key <= old[i].key
      BY <3>1, <1>4, <1>8, <1>9
    <3> QED  BY <2>2, <3>2, <1>8, <1>9
  <2> QED  BY <2>1, <2>2
<1>11. Holding(l) = {old[i] : i \in 1 .. n}
  BY DEF Holding, n, old
<1>12. Holding(half.left) = {x \in Holding(l) : x.key < sep}
  <2>1. Holding(half.left) = {old[j] : j \in 1 .. m}
    BY <1>3, <1>6 DEF Holding
  <2>2. \A i : i \in 1 .. m <=> i \in 1 .. n /\ i <= m
    BY <1>5
  <2> QED  BY <2>1, <2>2, <1>10, <1>11
<1>13. Holding(half.right) = {x \in Holding(l) : sep <= x.key}
  <2>1. Holding(half.right) = {old[m + j] : j \in 1 .. n - m}
    BY <1>3, <1>7 DEF Holding
  <2>2. ASSUME NEW j \in 1 .. n - m
        PROVE  old[m + j] \in Holding(l) /\ sep <= old[m + j].key
    <3>1. m + j \in 1 .. n /\ ~ (m + j <= m)
      BY <1>5
    <3>2. ~ (old[m + j].key < sep)
      BY <3>1, <1>10
    <3> QED  BY <3>1, <3>2, <1>8, <1>9, <1>11
  <2>3. ASSUME NEW i \in 1 .. n, sep <= old[i].key
        PROVE  \E j \in 1 .. n - m : old[m + j] = old[i]
    <3>1. ~ (i <= m)
      BY <2>3, <1>8, <1>9, <1>10
    <3>2. i - m \in 1 .. n - m /\ m + (i - m) = i
      BY <3>1, <1>5
    <3> QED  BY <3>2
  <2> QED  BY <2>1, <2>2, <2>3, <1>11
<1> QED  BY <1>8, <1>12, <1>13 DEF half, sep, n, old

\* insert_leaf() puts the entry where the leaf's others are: in one leaf, or
\* in the two that share its keys.
LEMMA InsertLeafHolds ==
    ASSUME NEW P \in Sizes, NEW l, SoundLeaf(l, P), LeafBytes(l) <= P,
           NEW e \in Entry, CheckLimits(P, e.key, e.val),
           NEW U \in SUBSET Key, KeysIn(l, U), e.key \in U
    PROVE  LET r    == InsertLeaf(l, e, P)
               held == With(Holding(l), e)
           IN  /\ ~r.split => Holding(r.left) = held /\ KeysIn(r.left, U)
               /\ r.split => /\ r.sep \in U
                             /\ Holding(r.left) = {x \in held : x.key < r.sep}
                             /\ Holding(r.right) = {x \in held : r.sep <= x.key}
                             /\ KeysIn(r.left, Below(U, r.sep))
                             /\ KeysIn(r.right, From(U, r.sep))
<1> DEFINE s == LeafSearch(l, e.key)
           n == Len(l.entries)
           built == IF s.found THEN LeafUpdate(l, s.at, e) ELSE LeafInsert(l, s.at, e)
           half == LeafSplitBySize(built, P)
           held == With(Holding(l), e)
           r == InsertLeaf(l, e, P)
<1>1. EntryBytes(e) <= MaxKvSize(P) + 4 /\ EntryBytes(e) \in Nat /\ MaxKvSize(P) \in Nat
  <2>1. /\ e.key \in Key /\ e.val \in Value
        /\ KeyLen[e.key] \in Nat /\ ValLen[e.val] \in Nat
    BY KeyAssumption, ValueAssumption DEF Entry
  <2>2. KeyLen[e.key] + ValLen[e.val] <= MaxKvSize(P) /\ MaxKvSize(P) \in Nat
    BY LimitFacts DEF CheckLimits
  <2> QED  BY <2>1, <2>2 DEF EntryBytes
<1>2. n \in Nat /\ e.key \in Key /\ e.key \in Nat
  BY LeafFacts, EntryIsSized
<1>3. /\ s.at \in 0 .. n
      /\ s.found => s.at \in 0 .. n - 1 /\ l.entries[s.at + 1].key = e.key
      /\ \A i \in 1 .. n : i <= s.at => l.entries[i].key < e.key
      /\ ~s.found => \A i \in 1 .. n : i > s.at => e.key < l.entries[i].key
  BY <1>2, LeafPlace
<1> HIDE DEF s
<1>4. /\ SoundLeaf(built, P) /\ built.kind = "leaf"
      /\ LeafBytes(built) <= LeafBytes(l) + EntryBytes(e)
      /\ Holding(built) = held
  <2>1. CASE s.found
    <3>1. s.at \in 0 .. n - 1 /\ l.entries[s.at + 1].key = e.key
      BY <2>1, <1>3
    <3>2. LET new == LeafUpdate(l, s.at, e)
          IN  /\ SoundLeaf(new, P) /\ new.kind = "leaf"
              /\ LeafBytes(new) <= LeafBytes(l) + EntryBytes(e)
      BY <3>1, <1>1, LeafUpdateSound
    <3>3. Holding(LeafUpdate(l, s.at, e)) = held
      BY <3>1, LeafUpdateHolds
    <3> QED  BY <2>1, <3>2, <3>3
  <2>2. CASE ~s.found
    <3>1. LET new == LeafInsert(l, s.at, e)
          IN  /\ SoundLeaf(new, P) /\ new.kind = "leaf"
              /\ LeafBytes(new) = LeafBytes(l) + EntryBytes(e)
      BY <2>2, <1>1, <1>3, LeafInsertSound
    <3>2. \A i \in 1 .. n : l.entries[i].key # e.key
      <4> SUFFICES ASSUME NEW i \in 1 .. n PROVE l.entries[i].key # e.key
        OBVIOUS
      <4>1. l.entries[i].key \in Nat
        BY LeafFacts, EntryIsSized
      <4>2. i <= s.at \/ i > s.at
        BY <1>2, <1>3
      <4> QED  BY <4>1, <4>2, <2>2, <1>2, <1>3
    <3>3. Holding(LeafInsert(l, s.at, e)) = held
      BY <3>2, <1>3, LeafInsertHolds
    <3>4. LeafBytes(l) + EntryBytes(e) <= LeafBytes(l) + EntryBytes(e)
      <4>1. l.start \in [0 .. n -> Nat]
        BY LeafFacts
      <4>2. l.start[n] \in Nat
        BY <4>1, <1>2
      <4>3. LeafBytes(l) \in Nat
        BY <4>2 DEF LeafBytes, LEAF_HEADER
      <4> QED  BY <4>3, <1>1
    <3> QED  BY <2>2, <3>1, <3>3, <3>4
  <2> QED  BY <2>1, <2>2
<1>5. \A x \in held : x.key \in U /\ x.key \in Nat
  <2>1. \A i \in 1 .. n : l.entries[i].key \in U
    <3>1. l.kind = "leaf"
      BY LeafFacts
    <3> QED  BY <3>1 DEF KeysIn, Pieces, PieceKey
  <2>2. \A x \in held : x = e \/ \E i \in 1 .. n : x = l.entries[i]
    BY DEF With, Holding
  <2>3. \A x \in held : x.key \in U
    BY <2>1, <2>2
  <2> QED  BY <2>3, KeyAssumption
<1> HIDE DEF built, n
<1>6. P \in Nat /\ LeafBytes(built) \in Nat /\ Len(built.entries) \in Nat
  <2>1. Len(built.entries) \in Nat /\ built.start \in [0 .. Len(built.entries) -> Nat]
    BY <1>4, LeafFacts
  <2>2. built.start[Len(built.entries)] \in Nat
    BY <2>1
  <2> QED  BY <2>1, <2>2, LimitFacts DEF LeafBytes, LEAF_HEADER
<1> HIDE DEF held
<1>7. CASE LeafBytes(built) <= P
  <2>1. r = Single(built)
    BY <1>7 DEF InsertLeaf, built, s
  <2>2. KeysIn(built, U)
    <3>1. \A i \in 1 .. Len(built.entries) : built.entries[i] \in held
      BY <1>4 DEF Holding
    <3> QED  BY <3>1, <1>4, <1>5 DEF KeysIn, Pieces, PieceKey
  <2> QED  BY <2>1, <2>2, <1>4 DEF Single, held
<1>8. CASE ~ (LeafBytes(built) <= P)
  <2> DEFINE sep == half.right.entries[1].key
  <2>1. LeafBytes(built) > P /\ LeafBytes(built) <= P + MaxKvSize(P) + 4
    <3>1. LeafBytes(l) \in Nat
      <4>1. l.start \in [0 .. Len(l.entries) -> Nat] /\ Len(l.entries) \in Nat
        BY LeafFacts
      <4>2. l.start[Len(l.entries)] \in Nat
        BY <4>1
      <4> QED  BY <4>2 DEF LeafBytes, LEAF_HEADER
    <3> QED  BY <3>1, <1>1, <1>4, <1>6, <1>8
  <2>2. /\ Holding(half.left) = {x \in Holding(built) : x.key < sep}
        /\ Holding(half.right) = {x \in Holding(built) : sep <= x.key}
        /\ \E i \in 1 .. Len(built.entries) : built.entries[i].key = sep
    BY <2>1, <1>4, LeafSplitHolds
  <2>3. half.left.kind = "leaf" /\ half.right.kind = "leaf"
    BY <2>1, <1>4, LeafSplitSound
  <2>4. r = Split(half.left, sep, half.right)
    BY <1>8 DEF InsertLeaf, built, s
  <2> HIDE DEF half, sep
  <2>5. sep \in U
    <3>1. \A i \in 1 .. Len(built.entries) : built.entries[i] \in held
      BY <1>4 DEF Holding
    <3> QED  BY <3>1, <2>2, <1>5
  <2>6. KeysIn(half.left, Below(U, sep))
    <3>1. \A i \in 1 .. Len(half.left.entries) :
             half.left.entries[i] \in held /\ half.left.entries[i].key < sep
      BY <2>2, <1>4 DEF Holding
    <3> QED  BY <3>1, <2>3, <1>5 DEF KeysIn, Pieces, PieceKey, Below
  <2>7. KeysIn(half.right, From(U, sep))
    <3>1. \A i \in 1 .. Len(half.right.entries) :
             half.right.entries[i] \in held /\ sep <= half.right.entries[i].key
      BY <2>2, <1>4 DEF Holding
    <3> QED  BY <3>1, <2>3, <1>5 DEF KeysIn, Pieces, PieceKey, From
  <2> QED  BY <2>2, <2>4, <2>5, <2>6, <2>7, <1>4 DEF Split, held
<1> QED  BY <1>7, <1>8 DEF r, held

\* A leaf answers with the value of the entry it holds under a key, if any.
LEMMA LeafFinds ==
    ASSUME NEW P \in Sizes, NEW l, SoundLeaf(l, P), NEW key \in Key
    PROVE  LET s == LeafSearch(l, key)
           IN  /\ s.found => /\ s.at + 1 \in 1 .. Len(l.entries)
                             /\ l.entries[s.at + 1].key = key
               /\ ~s.found => \A x \in Holding(l) : x.key # key
<1> DEFINE s == LeafSearch(l, key)
           n == Len(l.entries)
<1>1. /\ s.at \in 0 .. n
      /\ s.found => s.at \in 0 .. n - 1 /\ l.entries[s.at + 1].key = key
      /\ \A i \in 1 .. n : i <= s.at => l.entries[i].key < key
      /\ ~s.found => \A i \in 1 .. n : i > s.at => key < l.entries[i].key
  BY LeafPlace
<1>2. n \in Nat /\ key \in Nat /\ \A i \in 1 .. n : l.entries[i].key \in Nat
  <2>1. \A i \in 1 .. n : l.entries[i] \in Entry
    BY LeafFacts
  <2> QED  BY <2>1, LeafFacts, EntryIsSized, KeyAssumption
<1> HIDE DEF s
<1>3. s.found => s.at + 1 \in 1 .. n
  BY <1>1, <1>2
<1>4. ASSUME ~s.found, NEW i \in 1 .. n PROVE l.entries[i].key # key
  <2>1. i <= s.at \/ i > s.at
    BY <1>1, <1>2
  <2> QED  BY <2>1, <1>1, <1>2, <1>4
<1> QED  BY <1>1, <1>3, <1>4 DEF s, n, Holding
=============================================================================
