---------------------------- MODULE PagesProofs ----------------------------
(***************************************************************************)
(* The theorems about PageLife.tla: whatever puts do to a node, it is      *)
(* sound and fits into its page, and searching it finds what is there.     *)
(* What each operation makes of a sound node is in NodeProofs.             *)
(***************************************************************************)
EXTENDS PageLife, NodeProofs

---------------------------------------------------------------------------
(* The binary searches.  A loop over a range of places is a recursive      *)
(* function; where it ends in each range, Found and Slot say without one.  *)

\* One turn of leaf_search()'s loop, and what the loop is.
LeafTurn(l, key, f, lo, hi) ==
    LET mid == lo + (hi - lo) \div 2
        k   == l.entries[mid + 1].key
    IN  IF lo > hi THEN [found |-> FALSE, at |-> lo]
        ELSE IF k = key THEN [found |-> TRUE, at |-> mid]
        ELSE IF k < key THEN f[<<mid + 1, hi>>]
        ELSE f[<<lo, mid - 1>>]

\* The ranges it may be in, the empty ones included.
LeafRanges(n) == (0 .. n) \X (-1 .. n - 1)

\* The recursive function: each turn does what LeafTurn says.
LeafLoop(l, key, f) ==
    f = [r \in LeafRanges(Len(l.entries)) |-> LeafTurn(l, key, f, r[1], r[2])]

\* Where it ends in a range, if s is the right place in the whole leaf.
Found(s, lo, hi) ==
    IF lo > hi \/ s.at < lo THEN [found |-> FALSE, at |-> lo]
    ELSE IF s.at > hi THEN [found |-> FALSE, at |-> hi + 1]
    ELSE s

\* That s is the right place.
LeafAt(l, key, s) ==
    /\ Len(l.entries) \in Nat /\ key \in Nat
    /\ s = [found |-> s.found, at |-> s.at]
    /\ s.found \in BOOLEAN /\ s.at \in 0 .. Len(l.entries)
    /\ \A i \in 1 .. Len(l.entries) :
          /\ l.entries[i].key \in Nat
          /\ i <= s.at => l.entries[i].key < key
          /\ i > s.at + 1 => key < l.entries[i].key
    /\ s.found => s.at < Len(l.entries)
    /\ s.at < Len(l.entries) =>
          IF s.found THEN l.entries[s.at + 1].key = key
          ELSE key < l.entries[s.at + 1].key

\* That it ends where it should in the ranges that are smaller than one.
FoundBelow(l, s, f, lo, hi) ==
    \A a \in 0 .. Len(l.entries), b \in -1 .. Len(l.entries) - 1 :
       lo <= hi /\ b - a < hi - lo => f[<<a, b>>] = Found(s, a, b)

\* The middle of a range is in it.
LEMMA MiddleIsIn ==
    ASSUME NEW lo \in Int, NEW hi \in Int, lo <= hi
    PROVE  /\ lo + (hi - lo) \div 2 \in lo .. hi
           /\ lo < hi => lo + (hi - lo) \div 2 < hi
OBVIOUS

\* A turn ends where it should if the turns over smaller ranges do.
LEMMA LeafTurnRight ==
    ASSUME NEW l, NEW key, NEW s, LeafAt(l, key, s), NEW f,
           NEW lo \in 0 .. Len(l.entries), NEW hi \in -1 .. Len(l.entries) - 1,
           FoundBelow(l, s, f, lo, hi)
    PROVE  LeafTurn(l, key, f, lo, hi) = Found(s, lo, hi)
<1> DEFINE n == Len(l.entries)
           mid == lo + (hi - lo) \div 2
           k == l.entries[mid + 1].key
           at == s.at
<1>1. /\ n \in Nat /\ key \in Nat /\ at \in 0 .. n
      /\ \A i \in 1 .. n : /\ l.entries[i].key \in Nat
                           /\ i <= at => l.entries[i].key < key
                           /\ i > at + 1 => key < l.entries[i].key
      /\ at < n => IF s.found THEN l.entries[at + 1].key = key
                   ELSE key < l.entries[at + 1].key
  BY DEF LeafAt
<1>2. CASE lo > hi
  BY <1>2 DEF LeafTurn, Found
<1>3. CASE lo <= hi
  <2>1. mid \in lo .. hi /\ mid \in 0 .. n - 1
    <3>1. lo \in Int /\ hi \in Int /\ lo >= 0 /\ hi <= n - 1
      BY <1>1
    <3> QED  BY <1>1, <1>3, <3>1, MiddleIsIn
  <2>2. LeafTurn(l, key, f, lo, hi)
          = IF k = key THEN [found |-> TRUE, at |-> mid]
            ELSE IF k < key THEN f[<<mid + 1, hi>>]
            ELSE f[<<lo, mid - 1>>]
    BY <1>1, <1>3 DEF LeafTurn
  <2>3. ~(lo > hi)
    BY <1>1, <1>3
  <2>4. /\ k \in Nat
        /\ mid + 1 <= at => k < key
        /\ mid + 1 > at + 1 => key < k
        /\ mid = at => IF s.found THEN k = key ELSE key < k
    BY <1>1, <2>1
  <2>8. lo \in Int /\ hi \in Int /\ mid \in Int /\ at \in Int /\ lo <= mid /\ mid <= hi
    BY <1>1, <2>1
  <2>12. 0 <= lo /\ hi <= n - 1 /\ n \in Nat
    BY <1>1
  <2> HIDE DEF mid, n
  <2>5. f[<<mid + 1, hi>>] = Found(s, mid + 1, hi)
    <3>1. mid + 1 \in 0 .. n /\ hi - (mid + 1) < hi - lo
      BY <1>1, <2>8, <2>12
    <3> HIDE DEF mid
    <3> QED  BY <1>3, <3>1, <2>12 DEF FoundBelow, n
  <2>6. f[<<lo, mid - 1>>] = Found(s, lo, mid - 1)
    <3>1. mid - 1 \in -1 .. n - 1 /\ (mid - 1) - lo < hi - lo
      BY <1>1, <2>8, <2>12
    <3> HIDE DEF mid
    <3> QED  BY <1>3, <3>1, <2>12 DEF FoundBelow, n
  <2>7. s = [found |-> s.found, at |-> at] /\ s.found \in BOOLEAN
    BY DEF LeafAt
  <2> HIDE DEF mid, k, at, n
  <2>9. CASE mid = at
    <3>1. CASE s.found
      <4>1. k = key
        BY <2>4, <2>9, <3>1
      <4>2. s = [found |-> TRUE, at |-> mid]
        BY <2>7, <2>9, <3>1
      <4>3. Found(s, lo, hi) = s
        BY <2>3, <2>8, <2>9 DEF Found, at
      <4> QED  BY <2>2, <4>1, <4>2, <4>3
    <3>2. CASE ~s.found
      <4>1. k # key /\ ~(k < key)
        BY <1>1, <2>4, <2>9, <3>2
      <4>2. s = [found |-> FALSE, at |-> mid]
        BY <2>7, <2>9, <3>2
      <4>3. Found(s, lo, hi) = s
        BY <2>3, <2>8, <2>9 DEF Found, at
      <4>4. Found(s, lo, mid - 1) = [found |-> FALSE, at |-> mid]
        <5>1. CASE lo > mid - 1
          <6>1. lo = mid
            BY <2>8, <5>1
          <6> QED  BY <5>1, <6>1 DEF Found
        <5>2. CASE lo <= mid - 1
          <6>1. ~(lo > mid - 1) /\ ~(at < lo) /\ at > mid - 1 /\ mid - 1 + 1 = mid
            BY <2>8, <2>9, <5>2
          <6> QED  BY <6>1 DEF Found, at
        <5> QED  BY <2>8, <5>1, <5>2
      <4> QED  BY <2>2, <2>6, <4>1, <4>2, <4>3, <4>4
    <3> QED  BY <3>1, <3>2
  <2>10. CASE mid < at
    <3>1. k # key /\ k < key
      BY <1>1, <2>4, <2>8, <2>10
    <3>2. Found(s, mid + 1, hi) = Found(s, lo, hi)
      <4>1. ~(at < lo) /\ ~(at < mid + 1)
        BY <2>8, <2>10
      <4>2. CASE mid + 1 > hi
        <5>1. at > hi /\ hi + 1 = mid + 1
          BY <2>8, <2>10, <4>2
        <5> QED  BY <2>3, <4>1, <4>2, <5>1 DEF Found, at
      <4>3. CASE ~(mid + 1 > hi)
        BY <2>3, <4>1, <4>3 DEF Found, at
      <4> QED  BY <4>2, <4>3
    <3> QED  BY <2>2, <2>5, <3>1, <3>2
  <2>11. CASE at < mid
    <3>1. k # key /\ ~(k < key)
      BY <1>1, <2>4, <2>8, <2>11
    <3>2. Found(s, lo, mid - 1) = Found(s, lo, hi)
      <4>1. ~(at > hi) /\ ~(at > mid - 1)
        BY <2>8, <2>11
      <4>2. CASE lo > mid - 1
        <5>1. at < lo
          BY <2>8, <2>11, <4>2
        <5> QED  BY <2>3, <4>2, <5>1 DEF Found, at
      <4>3. CASE ~(lo > mid - 1)
        BY <2>3, <4>1, <4>3 DEF Found, at
      <4> QED  BY <4>2, <4>3
    <3> QED  BY <2>2, <2>6, <3>1, <3>2
  <2> QED  BY <2>8, <2>9, <2>10, <2>11
<1> QED  BY <1>1, <1>2, <1>3

\* The loop does end there, in every range: it is a function, and there is
\* no smallest range in which it ends elsewhere.
LEMMA LeafLoopEnds ==
    ASSUME NEW l, NEW key, NEW s, LeafAt(l, key, s), NEW f, LeafLoop(l, key, f)
    PROVE  \A lo \in 0 .. Len(l.entries), hi \in -1 .. Len(l.entries) - 1 :
              f[<<lo, hi>>] = Found(s, lo, hi)
<1> DEFINE n == Len(l.entries)
           Wrong(d) == \E lo \in 0 .. n, hi \in -1 .. n - 1 :
                          hi - lo < d /\ f[<<lo, hi>>] # Found(s, lo, hi)
           Bad == {d \in Nat : Wrong(d)}
<1>1. n \in Nat
  BY DEF LeafAt
<1>2. \A lo \in 0 .. n, hi \in -1 .. n - 1 : f[<<lo, hi>>] = LeafTurn(l, key, f, lo, hi)
  BY DEF LeafLoop, LeafRanges
<1>3. ASSUME Bad # {} PROVE FALSE
  <2>1. PICK d \in Bad : \A e \in Bad : d <= e
    <3>1. Bad \subseteq Nat
      OBVIOUS
    <3> HIDE DEF Bad
    <3> QED  BY <1>3, <3>1, LeastExists
  <2>2. d \in Nat /\ Wrong(d)
    BY <2>1
  <2>3. PICK lo \in 0 .. n, hi \in -1 .. n - 1 :
               hi - lo < d /\ f[<<lo, hi>>] # Found(s, lo, hi)
    BY <2>2
  <2>4. ASSUME NEW a \in 0 .. n, NEW b \in -1 .. n - 1, lo <= hi, b - a < hi - lo
        PROVE  f[<<a, b>>] = Found(s, a, b)
    <3>1. d - 1 \in Nat /\ ~(d <= d - 1) /\ b - a < d - 1
      BY <1>1, <2>2, <2>3, <2>4
    <3>2. ~Wrong(d - 1)
      BY <2>1, <3>1
    <3> QED  BY <3>1, <3>2
  <2>5. LeafTurn(l, key, f, lo, hi) = Found(s, lo, hi)
    <3>1. FoundBelow(l, s, f, lo, hi)
      BY <2>4 DEF FoundBelow
    <3> QED  BY <3>1, LeafTurnRight
  <2> QED  BY <1>2, <2>3, <2>5
<1>4. ASSUME NEW lo \in 0 .. n, NEW hi \in -1 .. n - 1
      PROVE  f[<<lo, hi>>] = Found(s, lo, hi)
  <2>1. n + 1 \in Nat /\ hi - lo < n + 1
    BY <1>1
  <2>2. ~Wrong(n + 1)
    BY <1>3, <2>1
  <2> QED  BY <2>1, <2>2
<1> QED  BY <1>4

\* There is such a function,
LEMMA LeafLoopExists ==
    ASSUME NEW l, NEW key, NEW s, LeafAt(l, key, s)
    PROVE  \E f : LeafLoop(l, key, f)
<1> DEFINE n == Len(l.entries)
           f == [r \in LeafRanges(n) |-> Found(s, r[1], r[2])]
<1>1. \A a \in 0 .. n, b \in -1 .. n - 1 : f[<<a, b>>] = Found(s, a, b)
  BY DEF LeafRanges
<1>2. \A r \in LeafRanges(n) : r[1] \in 0 .. n /\ r[2] \in -1 .. n - 1
  BY DEF LeafRanges
<1>3. ASSUME NEW r \in LeafRanges(n)
      PROVE  Found(s, r[1], r[2]) = LeafTurn(l, key, f, r[1], r[2])
  <2>1. PICK lo \in 0 .. n, hi \in -1 .. n - 1 : r[1] = lo /\ r[2] = hi
    BY <1>2
  <2> HIDE DEF f
  <2>2. FoundBelow(l, s, f, lo, hi)
    BY <1>1 DEF FoundBelow
  <2>3. LeafTurn(l, key, f, lo, hi) = Found(s, lo, hi)
    BY <2>2, LeafTurnRight
  <2> QED  BY <2>1, <2>3
<1>4. f = [r \in LeafRanges(n) |-> LeafTurn(l, key, f, r[1], r[2])]
  BY <1>3
<1> QED  BY <1>4 DEF LeafLoop

\* so leaf_search() finds the right place.
LEMMA LeafLoopFinds ==
    ASSUME NEW l, NEW key, NEW s, LeafAt(l, key, s)
    PROVE  LeafSearchLoop(l, key) = s
<1> DEFINE n == Len(l.entries)
           look == CHOOSE f : LeafLoop(l, key, f)
<1>1. LeafSearchLoop(l, key) = look[<<0, n - 1>>]
  BY DEF LeafSearchLoop, LeafLoop, LeafTurn, LeafRanges
<1>2. LeafLoop(l, key, look)
  <2>1. \E f : LeafLoop(l, key, f)
    BY LeafLoopExists
  <2> QED  BY <2>1
<1> HIDE DEF look
<1>3. n \in Nat /\ 0 \in 0 .. n /\ n - 1 \in -1 .. n - 1 /\ s.at \in 0 .. n
  BY DEF LeafAt
<1>4. look[<<0, n - 1>>] = Found(s, 0, n - 1)
  BY <1>2, <1>3, LeafLoopEnds
<1>5. Found(s, 0, n - 1) = s
  <2>1. /\ s = [found |-> s.found, at |-> s.at] /\ s.found \in BOOLEAN
        /\ s.found => s.at < n
    BY DEF LeafAt
  <2> HIDE DEF n
  <2>2. CASE s.at = n
    <3>1. s = [found |-> FALSE, at |-> n]
      BY <1>3, <2>1, <2>2
    <3>2. Found(s, 0, n - 1) = [found |-> FALSE, at |-> n]
      <4>1. (n - 1) + 1 = n /\ s.at > n - 1 /\ ~(s.at < 0)
        BY <1>3, <2>2
      <4>2. CASE n = 0
        BY <4>2 DEF Found
      <4>3. CASE n # 0
        <5>1. ~(0 > n - 1)
          BY <1>3, <4>3
        <5> QED  BY <4>1, <5>1 DEF Found
      <4> QED  BY <4>2, <4>3
    <3> QED  BY <3>1, <3>2
  <2>3. CASE s.at # n
    <3>1. ~(0 > n - 1) /\ ~(s.at < 0) /\ ~(s.at > n - 1)
      BY <1>3, <2>3
    <3> QED  BY <3>1 DEF Found
  <2> QED  BY <2>2, <2>3
<1> QED  BY <1>1, <1>4, <1>5

\* A leaf that is sound has a right place for every key: that of LeafSearch.
LEMMA LeafSearchRight ==
    ASSUME NEW P \in Sizes, NEW l, SoundLeaf(l, P), NEW key \in Key
    PROVE  LeafAt(l, key, LeafSearch(l, key))
<1> DEFINE s == LeafSearch(l, key)
           n == Len(l.entries)
<1>1. /\ s.at \in 0 .. n
      /\ s.found => s.at \in 0 .. n - 1 /\ l.entries[s.at + 1].key = key
      /\ \A i \in 1 .. n : i <= s.at => l.entries[i].key < key
      /\ ~s.found => \A i \in 1 .. n : i > s.at => key < l.entries[i].key
  BY LeafPlace
<1>2. n \in Nat /\ key \in Nat /\ \A i \in 1 .. n : l.entries[i].key \in Nat
  <2>1. \A i \in 1 .. n : l.entries[i] \in Entry
    BY LeafFacts
  <2> QED  BY <2>1, LeafFacts, EntryIsSized, KeyAssumption
<1>3. s = [found |-> s.found, at |-> s.at] /\ s.found \in BOOLEAN
  BY DEF LeafSearch
<1>4. \A i, j \in 1 .. n : i < j => l.entries[i].key < l.entries[j].key
  BY LeafKeys
<1> HIDE DEF s, n
<1>5. s.found => s.at < n
  BY <1>1, <1>2
<1>6. ASSUME NEW i \in 1 .. n, i > s.at + 1 PROVE key < l.entries[i].key
  <2>1. CASE s.found
    <3>1. s.at + 1 \in 1 .. n /\ s.at + 1 < i
      BY <1>1, <1>2, <1>6, <2>1
    <3> QED  BY <3>1, <1>1, <1>4, <2>1
  <2>2. CASE ~s.found
    <3>1. i > s.at
      BY <1>1, <1>2, <1>6
    <3> QED  BY <3>1, <1>1, <2>2
  <2> QED  BY <1>3, <2>1, <2>2
<1>7. ASSUME s.at < n
      PROVE  IF s.found THEN l.entries[s.at + 1].key = key ELSE key < l.entries[s.at + 1].key
  <2>1. s.at + 1 \in 1 .. n /\ s.at + 1 > s.at
    BY <1>1, <1>2, <1>7
  <2> QED  BY <2>1, <1>1
<1>8. LeafAt(l, key, s)
  BY <1>1, <1>2, <1>3, <1>5, <1>6, <1>7 DEF LeafAt, n
<1> QED  BY <1>8 DEF s

---------------------------------------------------------------------------
(* The same of internal nodes. *)

\* One turn of internal_child_index()'s loop, and what the loop is.
ChildTurn(m, key, f, lo, hi) ==
    LET mid == lo + (hi - lo) \div 2
    IN  IF lo >= hi THEN lo
        ELSE IF m.keys[mid + 1] <= key THEN f[<<mid + 1, hi>>]
        ELSE f[<<lo, mid>>]

\* The ranges it may be in.
ChildRanges(n) == (0 .. n) \X (0 .. n)

\* The recursive function.
ChildLoop(m, key, f) ==
    f = [r \in ChildRanges(Len(m.keys)) |-> ChildTurn(m, key, f, r[1], r[2])]

\* Where it ends in a range, if at is the right place among all children.
Slot(at, lo, hi) ==
    IF lo >= hi \/ at < lo THEN lo ELSE IF at > hi THEN hi ELSE at

\* That at is the right place.
ChildAt(m, key, at) ==
    /\ Len(m.keys) \in Nat /\ key \in Nat /\ at \in 0 .. Len(m.keys)
    /\ \A i \in 1 .. Len(m.keys) :
          /\ m.keys[i] \in Nat
          /\ i <= at => m.keys[i] <= key
          /\ i > at => key < m.keys[i]

\* That it ends where it should in the ranges that are smaller than one.
SlotBelow(m, at, f, lo, hi) ==
    \A a \in 0 .. Len(m.keys), b \in 0 .. Len(m.keys) :
       lo < hi /\ b - a < hi - lo => f[<<a, b>>] = Slot(at, a, b)

\* A turn ends where it should if the turns over smaller ranges do.
LEMMA ChildTurnRight ==
    ASSUME NEW m, NEW key, NEW at, ChildAt(m, key, at), NEW f,
           NEW lo \in 0 .. Len(m.keys), NEW hi \in 0 .. Len(m.keys),
           SlotBelow(m, at, f, lo, hi)
    PROVE  ChildTurn(m, key, f, lo, hi) = Slot(at, lo, hi)
<1> DEFINE n == Len(m.keys)
           mid == lo + (hi - lo) \div 2
           k == m.keys[mid + 1]
<1>1. /\ n \in Nat /\ key \in Nat /\ at \in 0 .. n
      /\ \A i \in 1 .. n : /\ m.keys[i] \in Nat
                           /\ i <= at => m.keys[i] <= key
                           /\ i > at => key < m.keys[i]
  BY DEF ChildAt
<1>2. CASE lo >= hi
  BY <1>2 DEF ChildTurn, Slot
<1>3. CASE lo < hi
  <2>1. mid \in lo .. hi /\ mid < hi
    BY <1>1, <1>3, MiddleIsIn
  <2>2. ~(lo >= hi)
    BY <1>1, <1>3
  <2>3. ChildTurn(m, key, f, lo, hi)
          = IF k <= key THEN f[<<mid + 1, hi>>] ELSE f[<<lo, mid>>]
    BY <2>2 DEF ChildTurn
  <2>4. /\ lo \in Int /\ hi \in Int /\ mid \in Int /\ at \in Int
        /\ lo <= mid /\ mid < hi /\ 0 <= lo /\ hi <= n
    BY <1>1, <2>1
  <2> HIDE DEF mid
  <2>5. /\ k \in Nat
        /\ mid < at => k <= key
        /\ at <= mid => key < k
    <3>1. mid + 1 \in 1 .. n /\ (mid < at => mid + 1 <= at) /\ (at <= mid => mid + 1 > at)
      BY <1>1, <2>4
    <3> QED  BY <1>1, <3>1
  <2>6. f[<<mid + 1, hi>>] = Slot(at, mid + 1, hi)
    <3>1. mid + 1 \in 0 .. n /\ hi - (mid + 1) < hi - lo
      BY <1>1, <2>4
    <3> QED  BY <1>3, <3>1 DEF SlotBelow
  <2>7. f[<<lo, mid>>] = Slot(at, lo, mid)
    <3>1. mid \in 0 .. n /\ mid - lo < hi - lo
      BY <1>1, <2>4
    <3> QED  BY <1>3, <3>1 DEF SlotBelow
  <2> HIDE DEF k, n
  <2>8. CASE mid < at
    <3>1. Slot(at, mid + 1, hi) = Slot(at, lo, hi)
      <4>1. ~(at < lo) /\ ~(at < mid + 1)
        BY <2>4, <2>8
      <4>2. CASE mid + 1 >= hi
        <5>1. mid + 1 = hi /\ (at > hi \/ at = hi)
          BY <2>4, <2>8, <4>2
        <5> QED  BY <2>2, <4>1, <4>2, <5>1 DEF Slot
      <4>3. CASE ~(mid + 1 >= hi)
        BY <2>2, <4>1, <4>3 DEF Slot
      <4> QED  BY <4>2, <4>3
    <3> QED  BY <2>3, <2>5, <2>6, <2>8, <3>1
  <2>9. CASE at <= mid
    <3>1. Slot(at, lo, mid) = Slot(at, lo, hi)
      <4>1. ~(at > hi) /\ ~(at > mid)
        BY <2>4, <2>9
      <4>2. CASE lo >= mid
        <5>1. at < lo \/ at = lo
          BY <2>4, <2>9, <4>2
        <5> QED  BY <2>2, <4>1, <4>2, <5>1 DEF Slot
      <4>3. CASE ~(lo >= mid)
        BY <2>2, <4>1, <4>3 DEF Slot
      <4> QED  BY <4>2, <4>3
    <3>2. ~(k <= key)
      BY <1>1, <2>5, <2>9
    <3> QED  BY <2>3, <2>7, <3>1, <3>2
  <2> QED  BY <2>4, <2>8, <2>9
<1> QED  BY <1>1, <1>2, <1>3

\* The loop does end there, in every range,
LEMMA ChildLoopEnds ==
    ASSUME NEW m, NEW key, NEW at, ChildAt(m, key, at), NEW f, ChildLoop(m, key, f)
    PROVE  \A lo \in 0 .. Len(m.keys), hi \in 0 .. Len(m.keys) :
              f[<<lo, hi>>] = Slot(at, lo, hi)
<1> DEFINE n == Len(m.keys)
           Wrong(d) == \E lo \in 0 .. n, hi \in 0 .. n :
                          hi - lo < d /\ f[<<lo, hi>>] # Slot(at, lo, hi)
           Bad == {d \in Nat : Wrong(d)}
<1>1. n \in Nat
  BY DEF ChildAt
<1>2. \A lo \in 0 .. n, hi \in 0 .. n : f[<<lo, hi>>] = ChildTurn(m, key, f, lo, hi)
  BY DEF ChildLoop, ChildRanges
<1>3. ASSUME Bad # {} PROVE FALSE
  <2>1. PICK d \in Bad : \A e \in Bad : d <= e
    <3>1. Bad \subseteq Nat
      OBVIOUS
    <3> HIDE DEF Bad
    <3> QED  BY <1>3, <3>1, LeastExists
  <2>2. d \in Nat /\ Wrong(d)
    BY <2>1
  <2>3. PICK lo \in 0 .. n, hi \in 0 .. n : hi - lo < d /\ f[<<lo, hi>>] # Slot(at, lo, hi)
    BY <2>2
  <2>4. ASSUME NEW a \in 0 .. n, NEW b \in 0 .. n, lo < hi, b - a < hi - lo
        PROVE  f[<<a, b>>] = Slot(at, a, b)
    <3>1. d - 1 \in Nat /\ ~(d <= d - 1) /\ b - a < d - 1
      BY <1>1, <2>2, <2>3, <2>4
    <3>2. ~Wrong(d - 1)
      BY <2>1, <3>1
    <3> QED  BY <3>1, <3>2
  <2>5. ChildTurn(m, key, f, lo, hi) = Slot(at, lo, hi)
    <3>1. SlotBelow(m, at, f, lo, hi)
      BY <2>4 DEF SlotBelow
    <3> QED  BY <3>1, ChildTurnRight
  <2> QED  BY <1>2, <2>3, <2>5
<1>4. ASSUME NEW lo \in 0 .. n, NEW hi \in 0 .. n
      PROVE  f[<<lo, hi>>] = Slot(at, lo, hi)
  <2>1. n + 1 \in Nat /\ hi - lo < n + 1
    BY <1>1
  <2>2. ~Wrong(n + 1)
    BY <1>3, <2>1
  <2> QED  BY <2>1, <2>2
<1> QED  BY <1>4

\* there is such a function,
LEMMA ChildLoopExists ==
    ASSUME NEW m, NEW key, NEW at, ChildAt(m, key, at)
    PROVE  \E f : ChildLoop(m, key, f)
<1> DEFINE n == Len(m.keys)
           f == [r \in ChildRanges(n) |-> Slot(at, r[1], r[2])]
<1>1. \A a \in 0 .. n, b \in 0 .. n : f[<<a, b>>] = Slot(at, a, b)
  BY DEF ChildRanges
<1>2. \A r \in ChildRanges(n) : r[1] \in 0 .. n /\ r[2] \in 0 .. n
  BY DEF ChildRanges
<1>3. ASSUME NEW r \in ChildRanges(n)
      PROVE  Slot(at, r[1], r[2]) = ChildTurn(m, key, f, r[1], r[2])
  <2>1. PICK lo \in 0 .. n, hi \in 0 .. n : r[1] = lo /\ r[2] = hi
    BY <1>2
  <2> HIDE DEF f
  <2>2. SlotBelow(m, at, f, lo, hi)
    BY <1>1 DEF SlotBelow
  <2>3. ChildTurn(m, key, f, lo, hi) = Slot(at, lo, hi)
    BY <2>2, ChildTurnRight
  <2> QED  BY <2>1, <2>3
<1>4. f = [r \in ChildRanges(n) |-> ChildTurn(m, key, f, r[1], r[2])]
  BY <1>3
<1> QED  BY <1>4 DEF ChildLoop

\* so internal_child_index() finds the right place.
LEMMA ChildLoopFinds ==
    ASSUME NEW m, NEW key, NEW at, ChildAt(m, key, at)
    PROVE  ChildIndexLoop(m, key) = at
<1> DEFINE n == Len(m.keys)
           look == CHOOSE f : ChildLoop(m, key, f)
<1>1. ChildIndexLoop(m, key) = look[<<0, n>>]
  BY DEF ChildIndexLoop, ChildLoop, ChildTurn, ChildRanges
<1>2. ChildLoop(m, key, look)
  <2>1. \E f : ChildLoop(m, key, f)
    BY ChildLoopExists
  <2> QED  BY <2>1
<1> HIDE DEF look
<1>3. n \in Nat /\ 0 \in 0 .. n /\ n \in 0 .. n /\ at \in 0 .. n
  BY DEF ChildAt
<1>4. look[<<0, n>>] = Slot(at, 0, n)
  BY <1>2, <1>3, ChildLoopEnds
<1>5. Slot(at, 0, n) = at
  BY <1>3 DEF Slot
<1> QED  BY <1>1, <1>4, <1>5

\* A sound node has a right place for every key: that of ChildIndex.
LEMMA ChildIndexRight ==
    ASSUME NEW P \in Sizes, NEW m, SoundInternal(m, P), NEW key \in Key
    PROVE  ChildAt(m, key, ChildIndex(m, key))
<1> DEFINE at == ChildIndex(m, key)
           n == Len(m.keys)
<1>1. /\ at \in 0 .. n
      /\ \A i \in 1 .. n : i <= at => m.keys[i] <= key
      /\ \A i \in 1 .. n : i > at => key < m.keys[i]
  BY InternalPlace
<1>2. n \in Nat /\ key \in Nat /\ \A i \in 1 .. n : m.keys[i] \in Nat
  <2>1. \A i \in 1 .. n : m.keys[i] \in Key
    BY InternalFacts
  <2> QED  BY <2>1, InternalFacts, KeyAssumption
<1> HIDE DEF at
<1>3. ChildAt(m, key, at)
  BY <1>1, <1>2 DEF ChildAt
<1> QED  BY <1>3 DEF at

\* Searching either kind of node step by step finds what is meant.
LEMMA SearchesFind ==
    ASSUME NEW P \in Sizes, NEW m, SoundNode(m, P), NEW key \in Key
    PROVE  IF m.kind = "leaf" THEN LeafSearchLoop(m, key) = LeafSearch(m, key)
           ELSE ChildIndexLoop(m, key) = ChildIndex(m, key)
<1>1. CASE SoundLeaf(m, P)
  <2>1. m.kind = "leaf"
    BY <1>1 DEF SoundLeaf, LeafType
  <2> QED  BY <1>1, <2>1, LeafSearchRight, LeafLoopFinds
<1>2. CASE SoundInternal(m, P)
  <2>1. m.kind # "leaf"
    BY <1>2 DEF SoundInternal, InternalType
  <2> QED  BY <1>2, <2>1, ChildIndexRight, ChildLoopFinds
<1> QED  BY <1>1, <1>2 DEF SoundNode

---------------------------------------------------------------------------
(* PageLife. *)

\* The inductive invariant: a node is sound and fits into its page.
NodeSound ==
    /\ page_size \in PageSizes
    /\ SoundNode(node, page_size)

\* All page sizes are among those of NodeProofs.
LEMMA SizesAllowed == \A P \in PageSizes : P \in Sizes
BY PageSizeAssumption, SizesAre

\* The invariant gives what TLC checks of a node.
LEMMA NodeSoundMeans ==
    ASSUME NodeSound
    PROVE  TypeOK /\ OffsetsTrue /\ PagesFit /\ KeysInOrder
<1>1. CASE SoundLeaf(node, page_size) /\ LeafBytes(node) <= page_size
  <2>1. node.kind = "leaf"
    BY <1>1 DEF SoundLeaf, LeafType
  <2> QED  BY <1>1, <2>1 DEF NodeSound, SoundLeaf, TypeOK, OffsetsTrue, PagesFit,
                             KeysInOrder, NBytes
<1>2. CASE SoundInternal(node, page_size) /\ InternalBytes(node) <= page_size
  <2>1. node.kind = "internal" /\ "internal" # "leaf"
    BY <1>2 DEF SoundInternal, InternalType
  <2> QED  BY <1>2, <2>1 DEF NodeSound, SoundInternal, Ids, TypeOK, OffsetsTrue, PagesFit,
                             KeysInOrder, NBytes
<1> QED  BY <1>1, <1>2 DEF NodeSound, SoundNode

\* The empty leaf that a store starts from is sound.
LEMMA InitSound == Init => NodeSound
BY EmptyLeafSound, SizesAllowed DEF Init, NodeSound

\* Whatever becomes of a node by an InsertResult of sound nodes is sound and
\* has an entry or a key.
LEMMA BecomesSound ==
    ASSUME NEW r, page_size \in PageSizes, Becomes(r),
           r.split \in BOOLEAN,
           SoundNode(r.left, page_size),
           Pieces(r.left) >= 1,
           r.split =>
              /\ SoundNode(r.right, page_size)
              /\ Pieces(r.right) >= 1
              /\ r.sep \in Key /\ SepBytes(r.sep) <= MaxKvSize(page_size) + 2
    PROVE  NodeSound' /\ Pieces(node') >= 1
<1>1. page_size' = page_size /\ page_size' \in PageSizes
  BY DEF Becomes
<1>2. CASE node' = r.left
  BY <1>1, <1>2 DEF NodeSound
<1>3. CASE r.split /\ node' = r.right
  BY <1>1, <1>3 DEF NodeSound
<1>4. CASE r.split /\ node' = NewRoot(r.sep, AnyPage, AnyPage)
  <2> DEFINE n == NewRoot(r.sep, AnyPage, AnyPage)
  <2>1. /\ SoundInternal(n, page_size) /\ n.kind = "internal"
        /\ Len(n.keys) >= 1 /\ InternalBytes(n) <= page_size
    BY <1>1, <1>4, SizesAllowed, AnyPageAssumption, NewRootSound DEF Ids
  <2> HIDE DEF n
  <2>2. node' = n /\ Pieces(n) >= 1
    BY <1>4, <2>1 DEF n, Pieces
  <2> QED  BY <1>1, <2>1, <2>2 DEF NodeSound, SoundNode
<1> QED  BY <1>2, <1>3, <1>4 DEF Becomes

\* Every step keeps a node sound and leaves something in it.
LEMMA StepSound ==
    ASSUME NodeSound, Next
    PROVE  NodeSound' /\ Pieces(node') >= 1
<1> DEFINE P == page_size
<1>0. P \in PageSizes /\ P \in Sizes
  BY SizesAllowed DEF NodeSound
<1>1. ASSUME NEW e \in Entry, PutEntry(e)
      PROVE  NodeSound' /\ Pieces(node') >= 1
  <2> DEFINE r == InsertLeaf(node, e, P)
  <2>1. SoundLeaf(node, P) /\ LeafBytes(node) <= P
    BY <1>1 DEF NodeSound, SoundNode, PutEntry, SoundInternal, InternalType
  <2>2. CheckLimits(P, e.key, e.val) /\ Becomes(r)
    BY <1>1 DEF PutEntry
  <2>3. /\ SoundLeaf(r.left, P) /\ LeafBytes(r.left) <= P
        /\ r.left.kind = "leaf" /\ Len(r.left.entries) >= 1
        /\ r.split \in BOOLEAN
        /\ r.split => /\ SoundLeaf(r.right, P) /\ LeafBytes(r.right) <= P
                      /\ r.right.kind = "leaf" /\ Len(r.right.entries) >= 1
                      /\ r.sep \in Key /\ SepBytes(r.sep) <= MaxKvSize(P) + 2
    BY <1>0, <2>1, <2>2, InsertLeafSound
  <2> HIDE DEF r
  <2>4. Pieces(r.left) >= 1 /\ (r.split => Pieces(r.right) >= 1)
    BY <2>3 DEF Pieces
  <2> QED  BY <1>0, <2>2, <2>3, <2>4, BecomesSound DEF SoundNode
<1>2. ASSUME NEW sep \in Key, AbsorbSplit(sep)
      PROVE  NodeSound' /\ Pieces(node') >= 1
  <2> DEFINE r == InsertInternal(node, ChildIndex(node, sep), sep, AnyPage, AnyPage, P)
  <2>1. SoundInternal(node, P) /\ InternalBytes(node) <= P
    BY <1>2 DEF NodeSound, SoundNode, AbsorbSplit, SoundLeaf, LeafType
  <2>2. Becomes(r) /\ \A i \in 1 .. Len(node.keys) : node.keys[i] # sep
    BY <1>2 DEF AbsorbSplit
  <2>3. SepBytes(sep) <= MaxKvSize(P) + 2
    <3>1. PICK v \in Value : CheckLimits(P, sep, v)
      BY <1>2 DEF AbsorbSplit
    <3>2. /\ KeyLen[sep] \in Nat /\ ValLen[v] \in Nat
          /\ KeyLen[sep] + ValLen[v] <= MaxKvSize(P)
      BY <3>1, KeyAssumption, ValueAssumption DEF CheckLimits
    <3> QED  BY <3>2, <1>0, LimitFacts DEF SepBytes
  <2>4. /\ SoundInternal(r.left, P) /\ InternalBytes(r.left) <= P
        /\ r.left.kind = "internal" /\ Len(r.left.keys) >= 1
        /\ r.split \in BOOLEAN
        /\ r.split => /\ SoundInternal(r.right, P) /\ InternalBytes(r.right) <= P
                      /\ r.right.kind = "internal" /\ Len(r.right.keys) >= 1
                      /\ r.sep \in Key /\ SepBytes(r.sep) <= MaxKvSize(P) + 2
    BY <1>0, <2>1, <2>2, <2>3, AnyPageAssumption, InsertInternalSound DEF Ids
  <2> HIDE DEF r
  <2>5. Pieces(r.left) >= 1 /\ (r.split => Pieces(r.right) >= 1)
    BY <2>4 DEF Pieces
  <2> QED  BY <1>0, <2>2, <2>4, <2>5, BecomesSound DEF SoundNode
<1> QED  BY <1>1, <1>2 DEF Next

\* NodeSound holds of every node that puts can make.
THEOREM NodeSoundAlways == Spec => []NodeSound
<1>1. Init => NodeSound
  BY InitSound
<1>2. NodeSound /\ [Next]_vars => NodeSound'
  <2>1. CASE Next
    BY <2>1, StepSound
  <2>2. CASE UNCHANGED vars
    BY <2>2 DEF vars, NodeSound
  <2> QED  BY <2>1, <2>2
<1> QED  BY <1>1, <1>2, PTL DEF Spec

\* The shape of nodes, of every store.
THEOREM NodeTypes == Spec => []TypeOK
<1>1. NodeSound => TypeOK
  BY NodeSoundMeans
<1> QED  BY <1>1, NodeSoundAlways, PTL

\* Every node that is written fits into its page.
THEOREM EveryPageFits == Spec => []PagesFit
<1>1. NodeSound => PagesFit
  BY NodeSoundMeans
<1> QED  BY <1>1, NodeSoundAlways, PTL

\* The offsets of a node are where its entries are.
THEOREM EveryOffsetTrue == Spec => []OffsetsTrue
<1>1. NodeSound => OffsetsTrue
  BY NodeSoundMeans
<1> QED  BY <1>1, NodeSoundAlways, PTL

\* The keys of a node are in order.
THEOREM EveryNodeInOrder == Spec => []KeysInOrder
<1>1. NodeSound => KeysInOrder
  BY NodeSoundMeans
<1> QED  BY <1>1, NodeSoundAlways, PTL

\* The binary searches of a node, step by step, end at the place that the
\* other operators mean, whatever key is searched for.
THEOREM EverySearchEnds == Spec => []SearchesAgree
<1>1. NodeSound => SearchesAgree
  <2> SUFFICES ASSUME NodeSound, NEW key \in Key
               PROVE  IF node.kind = "leaf"
                      THEN LeafSearchLoop(node, key) = LeafSearch(node, key)
                      ELSE ChildIndexLoop(node, key) = ChildIndex(node, key)
    BY DEF SearchesAgree
  <2> QED  BY SizesAllowed, SearchesFind DEF NodeSound
<1> QED  BY <1>1, NodeSoundAlways, PTL

\* No put leaves a node without entries or keys.
THEOREM NoNodeEmptied == Spec => NoEmptyNode
<1>1. NodeSound /\ [Next]_vars => [Pieces(node') >= 1]_vars
  <2> SUFFICES ASSUME NodeSound, [Next]_vars PROVE [Pieces(node') >= 1]_vars
    OBVIOUS
  <2>1. CASE Next
    BY <2>1, StepSound
  <2>2. CASE UNCHANGED vars
    BY <2>2
  <2> QED  BY <2>1, <2>2
<1> QED  BY <1>1, NodeSoundAlways, PTL DEF Spec, NoEmptyNode
=============================================================================
