--------------------------- MODULE RaftLogProofs ---------------------------
(***************************************************************************)
(* What is committed stays committed, for every cluster: the logs match,   *)
(* every later leader holds what was committed, and nodes apply the same   *)
(* entries in the same order.                                              *)
(*                                                                         *)
(* The argument is about more than one state knows: who led in a term that *)
(* is over, what the log of that leader was, and what each node held when  *)
(* it left the term.  So the invariant says that there is a history h with *)
(* these three, beside the record of votes of RaftProofs, and each *)
(* step is shown to go on from that history.                               *)
(***************************************************************************)
EXTENDS RaftProofs

---------------------------------------------------------------------------
(* The inductive invariant.                                                *)

\* Two logs hold the same entries up to index i.
Agree(l, m, i) ==
    /\ i <= Len(l) /\ i <= Len(m)
    /\ \A j \in 1 .. i : l[j] = m[j]

\* leader[t] is who led in term t, log[t] the last log that leader had as
\* such, and held[p][t] the last log node p had in term t.
HistoryTypes(h) ==
    /\ h.leader \in [Nat -> Node \cup {Nil}]
    /\ h.log \in [Nat -> Seq(LogEntry)]
    /\ h.held \in [Node -> [Nat -> Seq(LogEntry)]]

\* The history of terms that are not over is what the nodes know.
Tracks(h, roles, terms, logs) ==
    /\ \A n \in Node : roles[n] = "LEADER" =>
          h.leader[terms[n]] = n /\ h.log[terms[n]] = logs[n]
    /\ \A p \in Node :
          /\ h.held[p][terms[p]] = logs[p]
          /\ \A t \in Nat : t > terms[p] => h.held[p][t] = <<>>

\* Who led in a term has entered it, and is not up for election in it.
LeadersOver(h) ==
    \A t \in Nat :
        /\ h.leader[t] = Nil => h.log[t] = <<>>
        /\ h.leader[t] # Nil =>
              /\ t <= currentTerm[h.leader[t]]
              /\ t = currentTerm[h.leader[t]] => status[h.leader[t]] # "CANDIDATE"

\* Every entry was put where it is by the leader of its term, after the
\* entries that come before it.
Known(h, l) == \A i \in 1 .. Len(l) : Agree(l, h.log[l[i].term], i)

TermsUpTo(l, t) == \A i \in 1 .. Len(l) : l[i].term <= t

LogsKnown(h) ==
    /\ \A n \in Node :
          /\ Known(h, log[n]) /\ TermsUpTo(log[n], currentTerm[n])
          /\ status[n] = "CANDIDATE" => TermsUpTo(log[n], currentTerm[n] - 1)
    /\ \A t \in Nat : Known(h, h.log[t]) /\ TermsUpTo(h.log[t], t)
    /\ \A p \in Node : \A t \in Nat : Known(h, h.held[p][t])

\* Node p in term t held entry i of that term, as the leader did.
Reached(h, p, t, i) ==
    /\ i \in 1 .. Len(h.log[t]) /\ h.log[t][i].term = t
    /\ Agree(h.held[p][t], h.log[t], i)

\* A leader after t and before u does not hold entry i of term t.
Lost(h, t, i, u) ==
    \E v \in Nat : /\ t < v /\ v < u
                   /\ h.leader[v] # Nil /\ ~ Agree(h.log[v], h.log[t], i)

\* What p reached before term u is in log l, or was lost before term v.
Handed(h, p, l, u, v) ==
    \A t, i \in Nat :
        t < u /\ Reached(h, p, t, i)
            => Agree(l, h.log[t], i) \/ Lost(h, t, i, v)

\* A node's own log has all that it reached, but what a leader it followed
\* had not.
NodesKeep(h) ==
    \A p \in Node : Handed(h, p, log[p], currentTerm[p], currentTerm[p] + 1)

\* So has the log of a candidate, of what those who voted for it reached.
CandidatesKeep(h, ballot) ==
    \A n \in Node : status[n] = "CANDIDATE" /\ h.leader[currentTerm[n]] = Nil =>
        \A p \in Node : ballot[p][currentTerm[n]] = n =>
            Handed(h, p, log[n], currentTerm[n], currentTerm[n])

\* A leader was elected by a majority, and has all that they reached.
Won(h, ballot, u, Q) ==
    /\ Cardinality(Q) >= Majority
    /\ \A p \in Q : /\ ballot[p][u] = h.leader[u]
                    /\ Handed(h, p, h.log[u], u, u)

LeadersKeep(h, ballot) ==
    \A u \in Nat : h.leader[u] # Nil =>
        \E Q \in SUBSET Node : Won(h, ballot, u, Q)

\* Nobody has votes in a term it has not started.
VotersAsked(ballot) ==
    \A p \in Node : \A t \in Nat :
        ballot[p][t] # Nil => t <= currentTerm[ballot[p][t]]

\* Entry i is of term t, and a majority held it in that term.
Chosen(h, t, i) ==
    \E Q \in SUBSET Node :
        Cardinality(Q) >= Majority /\ \A p \in Q : Reached(h, p, t, i)

\* Log l is chosen up to index k, in a term up to u.
Vouched(h, l, k, u) ==
    k = 0 \/ \E t, i \in Nat : /\ t <= u /\ k <= i /\ Chosen(h, t, i)
                               /\ Agree(l, h.log[t], k)

CommitsVouched(h) ==
    \A n \in Node : Vouched(h, log[n], commitIndex[n], currentTerm[n])

\* No task ends between committing entries and applying them.
AllApplied == \A n \in Node : lastApplied[n] = commitIndex[n]

\* A request carries a part of its leader's log, up to its end then, and a
\* commit index within it.
RequestTrue(h, c) ==
    /\ h.leader[c.term] = c.from
    /\ c.prevLogIndex + Len(c.entries) <= Len(h.log[c.term])
    /\ TermAt(h.log[c.term], c.prevLogIndex) = c.prevLogTerm
    /\ \A k \in 1 .. Len(c.entries) :
          c.entries[k] = h.log[c.term][c.prevLogIndex + k]
    /\ c.leaderCommit <= c.prevLogIndex + Len(c.entries)
    /\ Vouched(h, h.log[c.term], c.leaderCommit, c.term)

\* A success says what the peer holds.
AnswerTrue(h, c) ==
    c.success => Agree(h.held[c.from][c.roundTerm], h.log[c.roundTerm],
                       c.prevLogIndex + c.sentCount)

\* A vote is asked for the log the candidate has for the whole round.
BidTrue(c) ==
    status[c.from] = "CANDIDATE" /\ currentTerm[c.from] = c.term =>
        c.lastLogIndex = Len(log[c.from]) /\ c.lastLogTerm = LastTerm(log[c.from])

CallsTrue(h) ==
    /\ \A c \in appendCalls : RequestTrue(h, c)
    /\ \A c \in appendReplies : AnswerTrue(h, c)
    /\ \A c \in voteCalls : BidTrue(c)

\* What a leader's books say of a peer is what the peer held in its term.
BooksTrue(h) ==
    \A n \in Node : status[n] = "LEADER" =>
        \A p \in Peers(n) :
            Agree(h.held[p][currentTerm[n]], h.log[currentTerm[n]],
                  matchIndex[n][p])

LInvOf(h, ballot) ==
    /\ HistoryTypes(h) /\ Tracks(h, status, currentTerm, log)
    /\ LeadersOver(h) /\ LogsKnown(h)
    /\ NodesKeep(h) /\ CandidatesKeep(h, ballot) /\ LeadersKeep(h, ballot)
    /\ VotersAsked(ballot)
    /\ CommitsVouched(h) /\ AllApplied
    /\ CallsTrue(h) /\ BooksTrue(h)

LInv == \E ballot, h : EInvOf(ballot) /\ LInvOf(h, ballot)

---------------------------------------------------------------------------
(* Logs that agree. *)

LEMMA AgreeLess ==
    ASSUME NEW l \in Seq(LogEntry), NEW m \in Seq(LogEntry),
           NEW i \in Nat, NEW j \in Nat, j <= i, Agree(l, m, i)
    PROVE  Agree(l, m, j)
<1>1. Len(l) \in Nat /\ Len(m) \in Nat
  BY LenProperties
<1> QED  BY <1>1 DEF Agree

LEMMA AgreeSwapped ==
    ASSUME NEW l, NEW m, NEW i, Agree(l, m, i)
    PROVE  Agree(m, l, i)
BY DEF Agree

LEMMA AgreeThrough ==
    ASSUME NEW l, NEW m, NEW k, NEW i, Agree(l, m, i), Agree(m, k, i)
    PROVE  Agree(l, k, i)
BY DEF Agree

LEMMA AgreeNone ==
    ASSUME NEW l \in Seq(LogEntry), NEW m \in Seq(LogEntry)
    PROVE  Agree(l, m, 0)
<1>1. Len(l) \in Nat /\ Len(m) \in Nat
  BY LenProperties
<1> QED  BY <1>1 DEF Agree

\* The first i entries of a log, and those from i on.
LEMMA PrefixOf ==
    ASSUME NEW l \in Seq(LogEntry), NEW i \in 0 .. Len(l)
    PROVE  /\ SubSeq(l, 1, i) \in Seq(LogEntry) /\ Len(SubSeq(l, 1, i)) = i
           /\ \A j \in 1 .. i : SubSeq(l, 1, i)[j] = l[j]
<1>1. Len(l) \in Nat
  BY LenProperties
<1>2. \A j \in 1 .. i : l[j] \in LogEntry
  BY <1>1, ElementOfSeq
<1>3. /\ SubSeq(l, 1, i) \in Seq(LogEntry)
      /\ Len(SubSeq(l, 1, i)) = IF 1 <= i THEN i - 1 + 1 ELSE 0
      /\ \A j \in 1 .. i - 1 + 1 : SubSeq(l, 1, i)[j] = l[1 + j - 1]
  BY <1>1, <1>2, SubSeqProperties
<1> QED  BY <1>1, <1>3

LEMMA SuffixOf ==
    ASSUME NEW l \in Seq(LogEntry), NEW i \in 1 .. Len(l) + 1
    PROVE  LET s == EntriesFrom(l, i)
           IN  /\ s \in Seq(LogEntry) /\ Len(s) = Len(l) - i + 1
               /\ \A j \in 1 .. Len(l) - i + 1 : s[j] = l[i + j - 1]
<1>1. Len(l) \in Nat
  BY LenProperties
<1>2. \A j \in i .. Len(l) : l[j] \in LogEntry
  BY <1>1, ElementOfSeq
<1> QED  BY <1>1, <1>2, SubSeqProperties DEF EntriesFrom

LEMMA TruncatedOf ==
    ASSUME NEW l \in Seq(LogEntry), NEW i \in 1 .. Len(l) + 1
    PROVE  LET s == TruncateFrom(l, i)
           IN  /\ s \in Seq(LogEntry) /\ Len(s) = i - 1
               /\ \A j \in 1 .. i - 1 : s[j] = l[j]
<1>1. i - 1 \in 0 .. Len(l)
  BY LenProperties
<1> QED  BY <1>1, PrefixOf DEF TruncateFrom

\* One log after another.
LEMMA JoinOf ==
    ASSUME NEW a \in Seq(LogEntry), NEW b \in Seq(LogEntry)
    PROVE  /\ a \o b \in Seq(LogEntry) /\ Len(a \o b) = Len(a) + Len(b)
           /\ \A j \in 1 .. Len(a) + Len(b) :
                 (a \o b)[j] = IF j <= Len(a) THEN a[j] ELSE b[j - Len(a)]
BY ConcatProperties

\* The same entries are the same subsequence.
LEMMA AgreeSubSeq ==
    ASSUME NEW l \in Seq(LogEntry), NEW m \in Seq(LogEntry), NEW i \in Nat
    PROVE  Agree(l, m, i)
             <=> i <= Len(l) /\ i <= Len(m) /\ SubSeq(l, 1, i) = SubSeq(m, 1, i)
<1>1. Len(l) \in Nat /\ Len(m) \in Nat
  BY LenProperties
<1>2. ASSUME i <= Len(l), i <= Len(m)
      PROVE  (\A j \in 1 .. i : l[j] = m[j]) <=> SubSeq(l, 1, i) = SubSeq(m, 1, i)
  <2>1. i \in 0 .. Len(l) /\ i \in 0 .. Len(m)
    BY <1>1, <1>2
  <2>2. /\ SubSeq(l, 1, i) \in Seq(LogEntry) /\ Len(SubSeq(l, 1, i)) = i
        /\ \A j \in 1 .. i : SubSeq(l, 1, i)[j] = l[j]
    BY <2>1, PrefixOf
  <2>3. /\ SubSeq(m, 1, i) \in Seq(LogEntry) /\ Len(SubSeq(m, 1, i)) = i
        /\ \A j \in 1 .. i : SubSeq(m, 1, i)[j] = m[j]
    BY <2>1, PrefixOf
  <2> QED  BY <2>2, <2>3, SeqEqual
<1> QED  BY <1>1, <1>2 DEF Agree

---------------------------------------------------------------------------
(* Logs whose entries their leaders put there. *)

\* What is known of the term of an entry is known of all before it.
LEMMA TermsInOrder ==
    ASSUME NEW h, HistoryTypes(h), \A t \in Nat : TermsUpTo(h.log[t], t),
           NEW l \in Seq(LogEntry), Known(h, l),
           NEW i \in 1 .. Len(l), NEW j \in 1 .. i
    PROVE  l[j].term <= l[i].term
<1>1. Len(l) \in Nat
  BY LenProperties
<1>2. l[i].term \in Nat
  <2>1. l[i] \in LogEntry
    BY ElementOfSeq
  <2> QED  BY <2>1 DEF LogEntry
<1>3. h.log[l[i].term] \in Seq(LogEntry)
  BY <1>2 DEF HistoryTypes
<1>4. Len(h.log[l[i].term]) \in Nat
  BY <1>3, LenProperties
<1>5. Agree(l, h.log[l[i].term], i)
  BY DEF Known
<1>6. l[j] = h.log[l[i].term][j] /\ j \in 1 .. Len(h.log[l[i].term])
  BY <1>1, <1>4, <1>5 DEF Agree
<1> QED  BY <1>2, <1>6 DEF TermsUpTo

\* Two such logs that agree on the term of an entry agree up to it.
LEMMA KnownAgree ==
    ASSUME NEW h, NEW l, NEW m, Known(h, l), Known(h, m),
           NEW i \in 1 .. Len(l), i \in 1 .. Len(m), l[i].term = m[i].term
    PROVE  Agree(l, m, i)
<1>1. Agree(l, h.log[l[i].term], i) /\ Agree(m, h.log[l[i].term], i)
  BY DEF Known
<1> QED  BY <1>1 DEF Agree

\* handleAppendEntries() puts the request's part of the leader's log H after
\* what it shares with H: the merged log is the old one, which had it all, or
\* is H up to the request's end, and gives up nothing it shared with H.
LEMMA MergeAgrees ==
    ASSUME NEW l \in Seq(LogEntry), NEW H \in Seq(LogEntry),
           NEW entries \in Seq(LogEntry), NEW prev \in Nat,
           prev + Len(entries) <= Len(H),
           \A k \in 1 .. Len(entries) : entries[k] = H[prev + k],
           Agree(l, H, prev),
           \A i \in 1 .. Len(l) : i <= Len(H) /\ l[i].term = H[i].term
                                     => Agree(l, H, i)
    PROVE  LET m == Merge(l, prev, entries)
           IN  /\ Agree(m, H, prev + Len(entries))
               /\ \A i \in Nat : Agree(l, H, i) => Agree(m, H, i)
               /\ m = l \/ Agree(m, H, Len(m))
<1> DEFINE D == Differing(l, prev, entries)
           m == Merge(l, prev, entries)
<1>1. Len(l) \in Nat /\ Len(H) \in Nat /\ Len(entries) \in Nat
  BY LenProperties
<1>2. ASSUME NEW k \in 1 .. Len(entries), k \notin D
      PROVE  Agree(l, H, prev + k)
  <2>1. prev + k <= Len(l) /\ l[prev + k].term = entries[k].term
    BY <1>1, <1>2 DEF Differing, LastIndex
  <2>2. prev + k \in 1 .. Len(l) /\ prev + k <= Len(H)
    BY <1>1, <2>1
  <2> QED  BY <2>1, <2>2
<1>3. CASE D = {}
  <2>1. m = l
    BY <1>3 DEF Merge
  <2>2. Agree(l, H, prev + Len(entries))
    <3>1. CASE Len(entries) = 0
      BY <3>1, <1>1
    <3>2. CASE Len(entries) # 0
      <4>1. Len(entries) \in 1 .. Len(entries)
        BY <1>1, <3>2
      <4> QED  BY <1>2, <1>3, <4>1
    <3> QED  BY <3>1, <3>2
  <2> QED  BY <2>1, <2>2
<1>4. CASE D # {}
  <2>1. D \subseteq 1 .. Len(entries)
    BY DEF Differing
  <2>2. PICK first \in D : /\ first = CHOOSE k \in D : \A j \in D : k <= j
                           /\ \A j \in D : first <= j
    <3>1. D \subseteq Nat
      BY <2>1, <1>1
    <3> HIDE DEF D
    <3>2. PICK x \in D : \A y \in D : x <= y
      BY <1>4, <3>1, LeastExists
    <3> QED  BY <3>2
  <2>3. first \in 1 .. Len(entries) /\ first \in Nat
    BY <1>1, <2>1, <2>2
  <2>4. m = TruncateFrom(l, prev + first) \o EntriesFrom(entries, first)
    BY <1>4, <2>2 DEF Merge
  <2>5. Agree(l, H, prev + first - 1)
    <3>1. CASE first = 1
      BY <3>1
    <3>2. CASE first # 1
      <4>1. first - 1 \in 1 .. Len(entries) /\ ~ (first <= first - 1)
        BY <1>1, <2>3, <3>2
      <4>2. first - 1 \notin D
        BY <2>2, <4>1
      <4>3. prev + (first - 1) = prev + first - 1
        BY <2>3
      <4> QED  BY <1>2, <4>1, <4>2, <4>3
    <3> QED  BY <3>1, <3>2
  <2> DEFINE a == TruncateFrom(l, prev + first)
             b == EntriesFrom(entries, first)
  <2>6. /\ a \in Seq(LogEntry) /\ Len(a) = prev + first - 1
        /\ \A j \in 1 .. prev + first - 1 : a[j] = l[j]
    <3>1. prev + first \in 1 .. Len(l) + 1
      BY <1>1, <2>3, <2>5 DEF Agree
    <3> HIDE DEF D, m
    <3> QED  BY <2>3, <3>1, TruncatedOf
  <2>7. /\ b \in Seq(LogEntry) /\ Len(b) = Len(entries) - first + 1
        /\ \A j \in 1 .. Len(entries) - first + 1 : b[j] = entries[first + j - 1]
    <3>1. first \in 1 .. Len(entries) + 1
      BY <1>1, <2>3
    <3> QED  BY <3>1, SuffixOf
  <2> HIDE DEF a, b, D
  <2>8. /\ m \in Seq(LogEntry) /\ Len(m) = prev + Len(entries)
        /\ \A j \in 1 .. prev + Len(entries) :
              m[j] = IF j <= prev + first - 1 THEN a[j]
                     ELSE b[j - (prev + first - 1)]
    <3>1. m = a \o b
      BY <2>4 DEF a, b
    <3> HIDE DEF m
    <3>2. Len(a) + Len(b) = prev + Len(entries)
      BY <1>1, <2>3, <2>6, <2>7
    <3>3. /\ a \o b \in Seq(LogEntry) /\ Len(a \o b) = Len(a) + Len(b)
          /\ \A j \in 1 .. Len(a) + Len(b) :
                (a \o b)[j] = IF j <= Len(a) THEN a[j] ELSE b[j - Len(a)]
      BY <2>6, <2>7, JoinOf
    <3> QED  BY <2>6, <3>1, <3>2, <3>3
  <2> HIDE DEF m
  <2>9. Agree(m, H, prev + Len(entries))
    <3> SUFFICES ASSUME NEW j \in 1 .. prev + Len(entries)
                 PROVE  m[j] = H[j]
      BY <1>1, <2>8 DEF Agree
    <3>1. CASE j <= prev + first - 1
      BY <1>1, <2>3, <2>5, <2>6, <2>8, <3>1 DEF Agree
    <3>2. CASE ~ (j <= prev + first - 1)
      <4>1. /\ j - (prev + first - 1) \in 1 .. Len(entries) - first + 1
            /\ first + (j - (prev + first - 1)) - 1 = j - prev
            /\ j - prev \in 1 .. Len(entries)
            /\ prev + (j - prev) = j
        BY <1>1, <2>3, <3>2
      <4>2. m[j] = entries[j - prev]
        BY <2>7, <2>8, <3>2, <4>1
      <4> QED  BY <4>1, <4>2
    <3> QED  BY <3>1, <3>2
  <2>10. ASSUME NEW i \in Nat, Agree(l, H, i)
         PROVE  Agree(m, H, i)
    <3>1. CASE i <= prev + Len(entries)
      BY <1>1, <2>8, <2>9, <3>1, AgreeLess
    <3>2. CASE ~ (i <= prev + Len(entries))
      <4>1. /\ prev + first \in 1 .. i /\ prev + first <= Len(l)
            /\ entries[first] = H[prev + first]
        BY <1>1, <2>3, <2>10, <3>2 DEF Agree
      <4>2. l[prev + first] = entries[first]
        BY <2>10, <4>1 DEF Agree
      <4>3. first \in Differing(l, prev, entries)
        BY <2>2 DEF D
      <4> QED  BY <1>1, <2>3, <4>1, <4>2, <4>3 DEF Differing, LastIndex
    <3> QED  BY <3>1, <3>2
  <2> QED  BY <2>8, <2>9, <2>10 DEF m
<1> QED  BY <1>3, <1>4


---------------------------------------------------------------------------
(* Histories that go on. *)

\* History g goes on from h: no leader changes, and the log of a term that
\* had one grows by entries of that term.
Extends(h, g) ==
    \A t \in Nat :
        /\ h.leader[t] # Nil => g.leader[t] = h.leader[t]
        /\ Agree(h.log[t], g.log[t], Len(h.log[t]))
        /\ h.leader[t] # Nil =>
              \A i \in 1 .. Len(g.log[t]) :
                  i > Len(h.log[t]) => g.log[t][i].term = t

\* What agreed with a leader's log still does.
LEMMA AgreeExtended ==
    ASSUME NEW h, HistoryTypes(h), NEW g, HistoryTypes(g), Extends(h, g),
           NEW l, NEW t \in Nat, NEW i \in Nat, Agree(l, h.log[t], i)
    PROVE  Agree(l, g.log[t], i)
<1>1. h.log[t] \in Seq(LogEntry) /\ g.log[t] \in Seq(LogEntry)
  BY DEF HistoryTypes
<1>2. Len(h.log[t]) \in Nat
  BY <1>1, LenProperties
<1>3. Agree(h.log[t], g.log[t], Len(h.log[t])) /\ i <= Len(h.log[t])
  BY DEF Extends, Agree
<1>4. Agree(h.log[t], g.log[t], i)
  BY <1>1, <1>2, <1>3, AgreeLess
<1> QED  BY <1>4, AgreeThrough

\* What was known of a log still is.
LEMMA KnownExtended ==
    ASSUME NEW h, HistoryTypes(h), NEW g, HistoryTypes(g), Extends(h, g),
           NEW l \in Seq(LogEntry), Known(h, l)
    PROVE  Known(g, l)
<1> SUFFICES ASSUME NEW i \in 1 .. Len(l)
             PROVE  Agree(l, g.log[l[i].term], i)
  BY DEF Known
<1>1. l[i] \in LogEntry /\ i \in Nat
  BY ElementOfSeq, LenProperties
<1>2. l[i].term \in Nat
  BY <1>1 DEF LogEntry
<1>3. Agree(l, h.log[l[i].term], i)
  BY DEF Known
<1> QED  BY <1>1, <1>2, <1>3, AgreeExtended

\* What logs agree on, though one of them got entries of a later term, they
\* agreed on before.
LEMMA AgreedBefore ==
    ASSUME NEW l \in Seq(LogEntry), NEW L \in Seq(LogEntry),
           NEW m \in Seq(LogEntry), NEW M \in Seq(LogEntry),
           Agree(l, L, Len(l)), Agree(m, M, Len(m)),
           NEW t \in Nat, TermsUpTo(m, t), NEW v \in Nat, t < v,
           \A k \in 1 .. Len(L) : k > Len(l) => L[k].term = v,
           NEW i \in Nat, i <= Len(m), Agree(L, M, i)
    PROVE  Agree(l, m, i)
<1>1. Len(l) \in Nat /\ Len(L) \in Nat /\ Len(m) \in Nat /\ Len(M) \in Nat
  BY LenProperties
<1>2. CASE i <= Len(l)
  <2>1. Agree(l, L, i) /\ Agree(m, M, i)
    BY <1>1, <1>2, AgreeLess
  <2>2. Agree(l, M, i) /\ Agree(M, m, i)
    BY <2>1, AgreeThrough, AgreeSwapped
  <2> QED  BY <2>2, AgreeThrough
<1>3. CASE ~ (i <= Len(l))
  <2> DEFINE k == Len(l) + 1
  <2>1. k \in 1 .. i /\ k \in 1 .. Len(L) /\ k \in 1 .. Len(m) /\ k > Len(l)
    BY <1>1, <1>3 DEF Agree
  <2> HIDE DEF k
  <2>2. L[k].term = v /\ L[k] = m[k]
    BY <1>1, <2>1 DEF Agree
  <2>3. m[k].term <= t
    BY <2>1 DEF TermsUpTo
  <2> QED  BY <2>2, <2>3
<1> QED  BY <1>2, <1>3

\* A leader that had not got an entry does not get it: what it appends is of
\* its own term.
LEMMA LostExtended ==
    ASSUME NEW h, HistoryTypes(h), NEW g, HistoryTypes(g), Extends(h, g),
           \A t \in Nat : TermsUpTo(h.log[t], t),
           NEW t \in Nat, NEW i \in Nat, i <= Len(h.log[t]),
           NEW u \in Nat, NEW w \in Nat, u <= w, Lost(h, t, i, u)
    PROVE  Lost(g, t, i, w)
<1>1. PICK v \in Nat : /\ t < v /\ v < u
                       /\ h.leader[v] # Nil /\ ~ Agree(h.log[v], h.log[t], i)
  BY DEF Lost
<1>2. /\ h.log[t] \in Seq(LogEntry) /\ g.log[t] \in Seq(LogEntry)
      /\ h.log[v] \in Seq(LogEntry) /\ g.log[v] \in Seq(LogEntry)
  BY DEF HistoryTypes
<1>4. /\ Agree(h.log[t], g.log[t], Len(h.log[t]))
      /\ Agree(h.log[v], g.log[v], Len(h.log[v]))
      /\ g.leader[v] = h.leader[v]
  BY <1>1 DEF Extends
<1>5. \A k \in 1 .. Len(g.log[v]) : k > Len(h.log[v]) => g.log[v][k].term = v
  BY <1>1 DEF Extends
<1>6. ~ Agree(g.log[v], g.log[t], i)
  <2>1. TermsUpTo(h.log[t], t)
    OBVIOUS
  <2> QED  BY <1>1, <1>2, <1>4, <1>5, <2>1, AgreedBefore
<1> QED  BY <1>1, <1>4, <1>6 DEF Lost

---------------------------------------------------------------------------
(* What is chosen stays chosen. *)

\* A majority that reached an entry and one that elected a later leader meet
\* in a node, which had handed the entry on to that leader, or lost it to a
\* leader in between, of which the same is true.
LEMMA ChosenIsKept ==
    ASSUME NEW h, NEW ballot, LeadersKeep(h, ballot),
           NEW t \in Nat, NEW i \in Nat, Chosen(h, t, i),
           NEW u \in Nat, t < u, h.leader[u] # Nil
    PROVE  Agree(h.log[u], h.log[t], i)
<1> DEFINE Bad == {v \in Nat : /\ t < v /\ h.leader[v] # Nil
                              /\ ~ Agree(h.log[v], h.log[t], i)}
<1> SUFFICES ASSUME Bad # {}
             PROVE  FALSE
  OBVIOUS
<1>1. PICK v \in Bad : \A w \in Bad : v <= w
  <2>1. Bad \subseteq Nat
    OBVIOUS
  <2> HIDE DEF Bad
  <2> QED  BY <2>1, LeastExists
<1>2. PICK Q \in SUBSET Node : Won(h, ballot, v, Q)
  BY <1>1 DEF LeadersKeep
<1>3. PICK R \in SUBSET Node :
          Cardinality(R) >= Majority /\ \A p \in R : Reached(h, p, t, i)
  BY DEF Chosen
<1>4. Cardinality(Q) >= Majority
  BY <1>2 DEF Won
<1>5. PICK p \in Q : p \in R
  BY <1>3, <1>4, MajoritiesMeet
<1>6. Handed(h, p, h.log[v], v, v) /\ Reached(h, p, t, i)
  BY <1>2, <1>3, <1>5 DEF Won
<1>7. Lost(h, t, i, v)
  BY <1>1, <1>6 DEF Handed
<1>8. PICK w \in Nat : /\ t < w /\ w < v
                       /\ h.leader[w] # Nil /\ ~ Agree(h.log[w], h.log[t], i)
  BY <1>7 DEF Lost
<1>9. w \in Bad
  BY <1>8
<1> QED  BY <1>1, <1>8, <1>9

\* A log at least as up to date as one with an entry of term t has it too,
\* unless a leader between the terms had lost it.
LEMMA UpToDateHolds ==
    ASSUME NEW h, HistoryTypes(h), LeadersOver(h),
           \A s \in Nat : TermsUpTo(h.log[s], s),
           NEW l \in Seq(LogEntry), Known(h, l),
           NEW m \in Seq(LogEntry), Known(h, m),
           NEW t \in Nat, NEW i \in 1 .. Len(h.log[t]), h.log[t][i].term = t,
           Agree(l, h.log[t], i),
           IsLogUpToDate(l, LastTerm(m), Len(m)),
           NEW u \in Nat, \A j \in 1 .. Len(m) : m[j].term < u
    PROVE  Agree(m, h.log[t], i) \/ Lost(h, t, i, u)
<1>0. h.log[t] \in Seq(LogEntry)
  BY DEF HistoryTypes
<1>1. Len(h.log[t]) \in Nat /\ Len(l) \in Nat /\ Len(m) \in Nat /\ i \in Nat
  BY <1>0, LenProperties
<1>2. i \in 1 .. Len(l) /\ l[i].term = t /\ Len(l) \in 1 .. Len(l)
      /\ i \in 1 .. Len(l)
  BY <1>1 DEF Agree
<1>3. t <= l[Len(l)].term
  BY <1>2, TermsInOrder
<1>4. LastTerm(l) = l[Len(l)].term /\ LastTerm(l) \in Nat
  BY <1>1, <1>2, LastTermType DEF LastTerm, TermAt
<1>5. LastTerm(m) \in Nat
  BY LastTermType
<1>6. \/ LastTerm(m) > LastTerm(l)
      \/ LastTerm(m) = LastTerm(l) /\ Len(m) >= Len(l)
  BY DEF IsLogUpToDate, LastIndex
<1>7. Len(m) \in 1 .. Len(m)
  <2>1. Len(m) = 0 => LastTerm(m) = 0
    BY DEF LastTerm, TermAt
  <2> QED  BY <1>1, <1>2, <1>4, <1>6, <2>1
<1> DEFINE j == Len(m)
           s == m[Len(m)].term
<1>8. s = LastTerm(m) /\ s \in Nat /\ s >= t /\ s < u
  BY <1>1, <1>3, <1>4, <1>5, <1>6, <1>7 DEF LastTerm, TermAt
<1>9. Agree(m, h.log[s], j)
  BY <1>7 DEF Known
<1>10. h.log[s] \in Seq(LogEntry) /\ Len(h.log[s]) \in Nat
  BY <1>8, LenProperties DEF HistoryTypes
<1>11. CASE s = t
  <2>1. j >= i
    BY <1>1, <1>2, <1>3, <1>4, <1>6, <1>8, <1>11
  <2> QED  BY <1>0, <1>1, <1>9, <1>11, <2>1, AgreeLess
<1>12. CASE s # t
  <2>1. h.leader[s] # Nil
    <3>1. h.log[s] # <<>>
      BY <1>7, <1>9 DEF Agree
    <3> QED  BY <1>8, <3>1 DEF LeadersOver
  <2>2. CASE Agree(h.log[s], h.log[t], i)
    <3>1. CASE j >= i
      <4>1. Agree(m, h.log[s], i)
        BY <1>1, <1>9, <1>10, <3>1, AgreeLess
      <4> QED  BY <2>2, <4>1, AgreeThrough
    <3>2. CASE ~ (j >= i)
      <4>1. /\ j \in 1 .. i /\ m[j] = h.log[s][j] /\ h.log[s][j] = h.log[t][j]
            /\ j \in 1 .. Len(h.log[t])
        BY <1>1, <1>7, <1>9, <2>2, <3>2 DEF Agree
      <4>2. h.log[t][j].term <= t
        BY <4>1 DEF TermsUpTo
      <4> QED  BY <1>8, <1>12, <4>1, <4>2
    <3> QED  BY <3>1, <3>2
  <2>3. CASE ~ Agree(h.log[s], h.log[t], i)
    BY <1>8, <1>12, <2>1, <2>3 DEF Lost
  <2> QED  BY <2>2, <2>3
<1> QED  BY <1>11, <1>12


---------------------------------------------------------------------------
(* What every step does to logs, roles, votes and calls. *)

\* handleAppendEntries() merges request c.
Accepts(n, c) ==
    /\ c.term >= currentTerm[n] /\ currentTerm'[n] = c.term
    /\ status'[n] = "FOLLOWER"
    /\ Consistent(log[n], c.prevLogIndex, c.prevLogTerm)
    /\ log'[n] = Merge(log[n], c.prevLogIndex, c.entries)
    /\ commitIndex'[n] = FollowerCommit(c, commitIndex[n])

\* A leader takes a command, or counts an answer, and then commits.
Commits(n) ==
    /\ status[n] = "LEADER" /\ status'[n] = "LEADER"
    /\ currentTerm'[n] = currentTerm[n]
    /\ \/ log'[n] = log[n]
       \/ \E e \in LogEntry : e.term = currentTerm[n] /\ log'[n] = Append(log[n], e)
    /\ commitIndex'[n]
          = AdvanceCommit(n, log'[n], matchIndex'[n], commitIndex[n])

LogMoves(n) ==
    \/ /\ log'[n] = log[n] /\ commitIndex'[n] = commitIndex[n]
       /\ lastApplied'[n] = lastApplied[n]
    \/ /\ Commits(n) \/ \E c \in appendCalls : Accepts(n, c)
       /\ lastApplied'[n] = MaxOf(lastApplied[n], commitIndex'[n])

\* A candidate or leader goes on as one, or starts a round, or is elected.
RoleMoves(n) ==
    status'[n] # "FOLLOWER" =>
        \/ /\ status'[n] = status[n] /\ currentTerm'[n] = currentTerm[n]
           /\ status[n] = "CANDIDATE" => log'[n] = log[n]
        \/ currentTerm'[n] > currentTerm[n] /\ log'[n] = log[n]
        \/ /\ currentTerm'[n] = currentTerm[n] /\ log'[n] = log[n]
           /\ status[n] = "CANDIDATE" /\ status'[n] = "LEADER"

\* A vote that is new is for the node itself, or for an up-to-date log.
VoteMoves(p) ==
    \/ votedFor'[p] = Nil
    \/ votedFor'[p] = votedFor[p] /\ currentTerm'[p] = currentTerm[p]
    \/ /\ log'[p] = log[p]
       /\ \/ votedFor'[p] = p
          \/ \E c \in voteCalls :
                /\ c.from = votedFor'[p] /\ c.term = currentTerm'[p]
                /\ IsLogUpToDate(log[p], c.lastLogTerm, c.lastLogIndex)

\* A leader's books are fresh, or as they were, or brought up to date by a
\* success of its own round.
BooksMove(n) ==
    status'[n] = "LEADER" => \A p \in Peers(n) :
        \/ matchIndex'[n][p] = 0
        \/ /\ status[n] = "LEADER" /\ currentTerm'[n] = currentTerm[n]
           /\ \/ matchIndex'[n][p] = matchIndex[n][p]
              \/ \E c \in appendReplies :
                    /\ c.from = p /\ c.roundTerm = currentTerm[n] /\ c.success
                    /\ matchIndex'[n][p] = c.prevLogIndex + c.sentCount

\* A request is the same as before, but for who waits for it, or a leader's
\* new one.
SameRequest(c, d) ==
    /\ c.from = d.from /\ c.term = d.term
    /\ c.prevLogIndex = d.prevLogIndex /\ c.prevLogTerm = d.prevLogTerm
    /\ c.entries = d.entries /\ c.leaderCommit = d.leaderCommit

SentNow(c) ==
    /\ status'[c.from] = "LEADER" /\ c.term = currentTerm'[c.from]
    /\ c.prevLogIndex + Len(c.entries) = Len(log'[c.from])
    /\ TermAt(log'[c.from], c.prevLogIndex) = c.prevLogTerm
    /\ \A k \in 1 .. Len(c.entries) :
          c.entries[k] = log'[c.from][c.prevLogIndex + k]
    /\ c.leaderCommit <= commitIndex'[c.from]

CallsMove ==
    /\ \A c \in appendCalls' :
          SentNow(c) \/ \E d \in appendCalls : SameRequest(c, d)
    /\ \A c \in appendReplies' :
          \/ c \in appendReplies \/ ~ c.success
          \/ \E d \in appendCalls :
                /\ Accepts(c.from, d) /\ c.roundTerm = d.term
                /\ c.prevLogIndex = d.prevLogIndex
                /\ c.sentCount = Len(d.entries)
    /\ \A c \in voteCalls' : c \in voteCalls \/ BidTrue(c)'

LogStep ==
    /\ \A n \in Node : LogMoves(n) /\ RoleMoves(n) /\ VoteMoves(n) /\ BooksMove(n)
    /\ CallsMove

\* How the history goes on, given who leads and what the logs are then.
GoesOnTo(h, g, roles, terms, logs) ==
    /\ HistoryTypes(g) /\ Tracks(g, roles, terms, logs)
    /\ Extends(h, g)
    /\ \A p \in Node : \A t \in Nat :
          t # terms[p] => g.held[p][t] = h.held[p][t]
    /\ \A t \in Nat :
          \/ g.leader[t] = h.leader[t] /\ g.log[t] = h.log[t]
          \/ /\ g.leader[t] \in Node /\ roles[g.leader[t]] = "LEADER"
             /\ terms[g.leader[t]] = t

HistoryStep(h, g) == GoesOnTo(h, g, status', currentTerm', log')

\* It does, if no term has two leaders and leaders only append.
MayGoOn(h, roles, terms, logs) ==
    /\ \A m, n \in Node : roles[m] = "LEADER" /\ roles[n] = "LEADER"
                             /\ terms[m] = terms[n] => m = n
    /\ \A n \in Node : roles[n] = "LEADER" =>
          \/ h.leader[terms[n]] = Nil /\ h.log[terms[n]] = <<>>
          \/ /\ h.leader[terms[n]] = n
             /\ Agree(h.log[terms[n]], logs[n], Len(h.log[terms[n]]))
             /\ \A i \in 1 .. Len(logs[n]) :
                   i > Len(h.log[terms[n]]) => logs[n][i].term = terms[n]
    /\ \A p \in Node : \A t \in Nat : t > terms[p] => h.held[p][t] = <<>>

\* All that is known of a step, from histories h to g and records ballot to
\* new.
WholeStep(h, ballot, g, new) ==
    /\ IInv /\ EInvOf(ballot) /\ LInvOf(h, ballot)
    /\ GoodStep /\ LogStep /\ HistoryStep(h, g)
    /\ EInvOf(new)' /\ Continues(new, ballot, currentTerm')

---------------------------------------------------------------------------
(* The history goes on over every step. *)

\* What the types say of a node.
LEMMA NodeTypes ==
    ASSUME TypeOK, NEW n \in Node
    PROVE  /\ currentTerm[n] \in Nat /\ log[n] \in Seq(LogEntry)
           /\ Len(log[n]) \in Nat /\ commitIndex[n] \in Nat
           /\ status[n] \in ServerStatus /\ votedFor[n] \in Node \cup {Nil}
           /\ n # Nil
<1>1. log[n] \in Seq(LogEntry)
  BY DEF TypeOK, LogTypes
<1> QED
  BY <1>1, LenProperties, NodeAssumption DEF TypeOK, ElectionTypes, LogTypes

LEMMA NextTypes ==
    ASSUME TypeOK', NEW n \in Node
    PROVE  /\ currentTerm'[n] \in Nat /\ log'[n] \in Seq(LogEntry)
           /\ Len(log'[n]) \in Nat /\ commitIndex'[n] \in Nat
           /\ status'[n] \in ServerStatus /\ votedFor'[n] \in Node \cup {Nil}
<1>1. log'[n] \in Seq(LogEntry)
  BY DEF TypeOK, LogTypes
<1> QED
  BY <1>1, LenProperties DEF TypeOK, ElectionTypes, LogTypes

LEMMA HistoryTyped ==
    ASSUME NEW h, HistoryTypes(h), NEW t \in Nat
    PROVE  /\ h.leader[t] \in Node \cup {Nil} /\ h.log[t] \in Seq(LogEntry)
           /\ Len(h.log[t]) \in Nat
           /\ \A p \in Node : h.held[p][t] \in Seq(LogEntry)
                              /\ Len(h.held[p][t]) \in Nat
<1>1. /\ h.leader[t] \in Node \cup {Nil} /\ h.log[t] \in Seq(LogEntry)
      /\ \A p \in Node : h.held[p][t] \in Seq(LogEntry)
  BY DEF HistoryTypes
<1> QED  BY <1>1, LenProperties

LEMMA HistoryExtended ==
    ASSUME NEW roles, NEW terms \in [Node -> Nat],
           NEW logs \in [Node -> Seq(LogEntry)],
           NEW h, HistoryTypes(h), MayGoOn(h, roles, terms, logs)
    PROVE  \E g : GoesOnTo(h, g, roles, terms, logs)
<1> DEFINE Led(t) == {n \in Node : roles[n] = "LEADER" /\ terms[n] = t}
           who(t) == CHOOSE n \in Led(t) : TRUE
           leader == [t \in Nat |-> IF Led(t) = {} THEN h.leader[t] ELSE who(t)]
           lastlog == [t \in Nat |-> IF Led(t) = {} THEN h.log[t] ELSE logs[who(t)]]
           held == [p \in Node |-> [t \in Nat |-> IF t = terms[p] THEN logs[p]
                                                ELSE h.held[p][t]]]
           g == [leader |-> leader, log |-> lastlog, held |-> held]
<1>0. /\ h.leader \in [Nat -> Node \cup {Nil}] /\ h.log \in [Nat -> Seq(LogEntry)]
      /\ h.held \in [Node -> [Nat -> Seq(LogEntry)]]
  BY DEF HistoryTypes
<1>a. /\ \A m, n \in Node : roles[m] = "LEADER" /\ roles[n] = "LEADER"
                               /\ terms[m] = terms[n] => m = n
      /\ \A n \in Node : roles[n] = "LEADER" =>
             \/ h.leader[terms[n]] = Nil /\ h.log[terms[n]] = <<>>
             \/ /\ h.leader[terms[n]] = n
                /\ Agree(h.log[terms[n]], logs[n], Len(h.log[terms[n]]))
                /\ \A i \in 1 .. Len(logs[n]) :
                      i > Len(h.log[terms[n]]) => logs[n][i].term = terms[n]
  BY DEF MayGoOn
<1>b. \A p \in Node : \A t \in Nat : t > terms[p] => h.held[p][t] = <<>>
  BY DEF MayGoOn
<1>1. g.leader = leader /\ g.log = lastlog /\ g.held = held
  OBVIOUS
<1>2. \A t \in Nat :
         \/ Led(t) = {} /\ leader[t] = h.leader[t] /\ lastlog[t] = h.log[t]
         \/ \E n \in Node : /\ roles[n] = "LEADER" /\ terms[n] = t
                             /\ leader[t] = n /\ lastlog[t] = logs[n]
  <2> TAKE t \in Nat
  <2>1. CASE Led(t) = {}
    BY <2>1
  <2>2. CASE Led(t) # {}
    <3>1. who(t) \in Led(t)
      BY <2>2
    <3>2. leader[t] = who(t) /\ lastlog[t] = logs[who(t)]
      BY <2>2
    <3> QED  BY <3>1, <3>2
  <2> QED  BY <2>1, <2>2
<1>3. /\ leader \in [Nat -> Node \cup {Nil}] /\ lastlog \in [Nat -> Seq(LogEntry)]
      /\ held \in [Node -> [Nat -> Seq(LogEntry)]]
  <2>1. \A t \in Nat : leader[t] \in Node \cup {Nil} /\ lastlog[t] \in Seq(LogEntry)
    BY <1>0, <1>2
  <2>2. \A p \in Node : \A t \in Nat : held[p][t] \in Seq(LogEntry)
    BY <1>0
  <2> QED  BY <2>1, <2>2
<1>4. /\ \A p \in Node : held[p][terms[p]] = logs[p]
      /\ \A p \in Node : \A t \in Nat : t # terms[p] => held[p][t] = h.held[p][t]
  OBVIOUS
<1>5. \A n \in Node : roles[n] = "LEADER" =>
          leader[terms[n]] = n /\ lastlog[terms[n]] = logs[n]
  BY <1>a, <1>2
<1> HIDE DEF g, leader, lastlog, held, Led, who
<1>6. HistoryTypes(g)
  BY <1>1, <1>3 DEF HistoryTypes
<1>7. Tracks(g, roles, terms, logs)
  <2>1. \A p \in Node : \A t \in Nat : t > terms[p] => t # terms[p]
    OBVIOUS
  <2>2. \A p \in Node : /\ held[p][terms[p]] = logs[p]
                         /\ \A t \in Nat : t > terms[p] => held[p][t] = <<>>
    <3>1. ASSUME NEW p \in Node, NEW t \in Nat, t > terms[p]
          PROVE  held[p][t] = h.held[p][t] /\ h.held[p][t] = <<>>
      BY <1>b, <1>4, <2>1, <3>1
    <3> QED  BY <1>4, <3>1
  <2> QED  BY <1>1, <1>5, <2>2 DEF Tracks
<1>8. Extends(h, g)
  <2> SUFFICES ASSUME NEW t \in Nat
               PROVE  /\ h.leader[t] # Nil => leader[t] = h.leader[t]
                      /\ Agree(h.log[t], lastlog[t], Len(h.log[t]))
                      /\ h.leader[t] # Nil =>
                            \A i \in 1 .. Len(lastlog[t]) :
                               i > Len(h.log[t]) => lastlog[t][i].term = t
    BY <1>1 DEF Extends
  <2>0. h.log[t] \in Seq(LogEntry) /\ lastlog[t] \in Seq(LogEntry)
    BY <1>0, <1>3
  <2>1. Len(h.log[t]) \in Nat /\ Len(lastlog[t]) \in Nat
    BY <2>0, LenProperties
  <2>2. CASE leader[t] = h.leader[t] /\ lastlog[t] = h.log[t]
    BY <2>1, <2>2 DEF Agree
  <2>3. ASSUME NEW n \in Node, roles[n] = "LEADER", terms[n] = t, leader[t] = n,
               lastlog[t] = logs[n]
        PROVE  /\ h.leader[t] # Nil => leader[t] = h.leader[t]
               /\ Agree(h.log[t], lastlog[t], Len(h.log[t]))
               /\ h.leader[t] # Nil =>
                     \A i \in 1 .. Len(lastlog[t]) :
                        i > Len(h.log[t]) => lastlog[t][i].term = t
    <3>1. CASE h.leader[t] = Nil /\ h.log[t] = <<>>
      <4>1. Len(h.log[t]) = 0
        BY <3>1
      <4> QED  BY <2>0, <3>1, <4>1, AgreeNone
    <3>2. CASE h.leader[t] # Nil \/ h.log[t] # <<>>
      BY <1>a, <2>3, <3>2
    <3> QED  BY <3>1, <3>2
  <2> QED  BY <1>2, <2>2, <2>3
<1>9. \A p \in Node : \A t \in Nat : t # terms[p] => g.held[p][t] = h.held[p][t]
  BY <1>1, <1>4
<1>10. \A t \in Nat :
          \/ g.leader[t] = h.leader[t] /\ g.log[t] = h.log[t]
          \/ /\ g.leader[t] \in Node /\ roles[g.leader[t]] = "LEADER"
             /\ terms[g.leader[t]] = t
  BY <1>1, <1>2
<1> QED  BY <1>6, <1>7, <1>8, <1>9, <1>10 DEF GoesOnTo

\* A leader after the step, if its term had one before, is that one, and has
\* only appended entries of its term.
LEMMA LeaderGoesOn ==
    ASSUME IInv, GoodStep, LogStep, NEW ballot, NEW h, LInvOf(h, ballot),
           NEW new, EInvOf(new)', Continues(new, ballot, currentTerm'),
           NEW n \in Node, status'[n] = "LEADER", h.leader[currentTerm'[n]] # Nil
    PROVE  LET H == h.log[currentTerm'[n]]
           IN  /\ h.leader[currentTerm'[n]] = n
               /\ H = log[n] /\ status[n] = "LEADER"
               /\ currentTerm'[n] = currentTerm[n]
               /\ Agree(H, log'[n], Len(H))
               /\ \A i \in 1 .. Len(log'[n]) :
                     i > Len(H) => log'[n][i].term = currentTerm'[n]
<1> DEFINE t == currentTerm'[n]
<1>1. TypeOK /\ TypeOK' /\ MovesOn(n)
  BY DEF IInv, GoodStep
<1>2. currentTerm[n] \in Nat /\ t \in Nat /\ t >= currentTerm[n]
      /\ log[n] \in Seq(LogEntry) /\ Len(log[n]) \in Nat /\ n # Nil
  BY <1>1, NodeTypes, NextTypes DEF MovesOn
<1>3. /\ HistoryTypes(h) /\ Tracks(h, status, currentTerm, log)
      /\ LeadersOver(h) /\ LeadersKeep(h, ballot)
  BY DEF LInvOf
<1>4. h.leader[t] = n
  <2>1. PICK Q \in SUBSET Node : Won(h, ballot, t, Q)
    BY <1>2, <1>3 DEF LeadersKeep
  <2>2. PICK S \in SUBSET Node : CountedBy(n, new, S)'
    BY DEF EInvOf, VotesAdd
  <2>3. Cardinality(S) >= Majority /\ \A p \in S : new[p][t] = n
    BY <2>2 DEF CountedBy
  <2>4. Cardinality(Q) >= Majority /\ \A p \in Q : ballot[p][t] = h.leader[t]
    BY <2>1 DEF Won
  <2>5. \A p \in Q : new[p][t] = h.leader[t]
    BY <1>2, <2>4 DEF Continues
  <2>6. PICK p \in Q : p \in S
    BY <2>3, <2>4, MajoritiesMeet
  <2> QED  BY <2>3, <2>5, <2>6
<1>5. t = currentTerm[n] /\ status[n] # "CANDIDATE"
  BY <1>2, <1>3, <1>4 DEF LeadersOver
<1>6. status[n] = "LEADER"
  BY <1>1, <1>5 DEF MovesOn
<1>7. h.log[t] = log[n]
  BY <1>3, <1>5, <1>6 DEF Tracks
<1>8. \/ log'[n] = log[n]
      \/ \E e \in LogEntry : e.term = t /\ log'[n] = Append(log[n], e)
  <2>1. LogMoves(n)
    BY DEF LogStep
  <2> QED  BY <1>5, <2>1 DEF LogMoves, Commits, Accepts
<1>9. CASE log'[n] = log[n]
  BY <1>2, <1>4, <1>5, <1>6, <1>7, <1>9 DEF Agree
<1>10. ASSUME NEW e \in LogEntry, e.term = t, log'[n] = Append(log[n], e)
       PROVE  /\ Agree(log[n], log'[n], Len(log[n]))
              /\ \A i \in 1 .. Len(log'[n]) :
                     i > Len(log[n]) => log'[n][i].term = t
  BY <1>2, <1>10, AppendProperties DEF Agree
<1> QED  BY <1>4, <1>5, <1>6, <1>7, <1>8, <1>9, <1>10

LEMMA HistoryGoesOn ==
    ASSUME IInv, GoodStep, LogStep, NEW ballot, NEW h, LInvOf(h, ballot),
           NEW new, EInvOf(new)', Continues(new, ballot, currentTerm')
    PROVE  \E g : HistoryStep(h, g)
<1>1. TypeOK /\ TypeOK'
  BY DEF IInv, GoodStep
<1>2. currentTerm' \in [Node -> Nat] /\ log' \in [Node -> Seq(LogEntry)]
  BY <1>1 DEF TypeOK, ElectionTypes, LogTypes
<1>3. /\ HistoryTypes(h) /\ Tracks(h, status, currentTerm, log)
      /\ LeadersOver(h)
  BY DEF LInvOf
<1>4. \A m, n \in Node : status'[m] = "LEADER" /\ status'[n] = "LEADER"
                            /\ currentTerm'[m] = currentTerm'[n] => m = n
  <2> SUFFICES ASSUME NEW m \in Node, NEW n \in Node, status'[m] = "LEADER",
                      status'[n] = "LEADER", currentTerm'[m] = currentTerm'[n]
               PROVE  m = n
    OBVIOUS
  <2>1. PICK S \in SUBSET Node : CountedBy(m, new, S)'
    BY DEF EInvOf, VotesAdd
  <2>2. PICK T \in SUBSET Node : CountedBy(n, new, T)'
    BY DEF EInvOf, VotesAdd
  <2>3. /\ Cardinality(S) >= Majority
        /\ \A p \in S : new[p][currentTerm'[n]] = m
    BY <2>1 DEF CountedBy
  <2>4. /\ Cardinality(T) >= Majority
        /\ \A p \in T : new[p][currentTerm'[n]] = n
    BY <2>2 DEF CountedBy
  <2>5. PICK p \in S : p \in T
    BY <2>3, <2>4, MajoritiesMeet
  <2> QED  BY <2>3, <2>4, <2>5
<1>5. \A n \in Node : status'[n] = "LEADER" =>
         \/ h.leader[currentTerm'[n]] = Nil /\ h.log[currentTerm'[n]] = <<>>
         \/ /\ h.leader[currentTerm'[n]] = n
            /\ Agree(h.log[currentTerm'[n]], log'[n],
                     Len(h.log[currentTerm'[n]]))
            /\ \A i \in 1 .. Len(log'[n]) :
                  i > Len(h.log[currentTerm'[n]])
                     => log'[n][i].term = currentTerm'[n]
  <2> TAKE n \in Node
  <2> HAVE status'[n] = "LEADER"
  <2>1. CASE h.leader[currentTerm'[n]] = Nil
    BY <1>2, <1>3, <2>1 DEF LeadersOver
  <2>2. CASE h.leader[currentTerm'[n]] # Nil
    BY <2>2, LeaderGoesOn
  <2> QED  BY <2>1, <2>2
<1>6. \A p \in Node : \A t \in Nat : t > currentTerm'[p] => h.held[p][t] = <<>>
  <2> TAKE p \in Node
  <2> TAKE t \in Nat
  <2>1. /\ currentTerm[p] \in Nat /\ currentTerm'[p] \in Nat
        /\ currentTerm'[p] >= currentTerm[p]
    BY <1>1, <1>2, NodeTypes DEF GoodStep, MovesOn
  <2> QED  BY <1>3, <2>1 DEF Tracks
<1>7. MayGoOn(h, status', currentTerm', log')
  BY <1>4, <1>5, <1>6 DEF MayGoOn
<1> QED  BY <1>2, <1>3, <1>7, HistoryExtended DEF HistoryStep

---------------------------------------------------------------------------
(* What a step does to what nodes and leaders hold. *)

LEMMA StepTypes ==
    ASSUME NEW h, NEW ballot, NEW g, NEW new, WholeStep(h, ballot, g, new)
    PROVE  /\ TypeOK /\ TypeOK' /\ HistoryTypes(h) /\ HistoryTypes(g)
           /\ Extends(h, g)
           /\ \A t \in Nat : TermsUpTo(h.log[t], t) /\ Known(h, h.log[t])
           /\ \A n \in Node : Known(h, log[n])
           /\ \A p \in Node : \A t \in Nat : Known(h, h.held[p][t])
BY DEF WholeStep, IInv, GoodStep, HistoryStep, GoesOnTo, LInvOf, LogsKnown

\* Terms and roles: what MovesOn says, with the types it needs.
LEMMA TermsGrow ==
    ASSUME NEW h, NEW ballot, NEW g, NEW new, WholeStep(h, ballot, g, new),
           NEW n \in Node
    PROVE  /\ currentTerm[n] \in Nat /\ currentTerm'[n] \in Nat
           /\ currentTerm[n] <= currentTerm'[n]
           /\ currentTerm'[n] = currentTerm[n] =>
                /\ status'[n] = "CANDIDATE" => status[n] = "CANDIDATE"
                /\ status'[n] = "LEADER" => status[n] \in {"CANDIDATE", "LEADER"}
<1>1. TypeOK /\ TypeOK' /\ MovesOn(n)
  BY DEF WholeStep, IInv, GoodStep
<1>2. currentTerm[n] \in Nat /\ currentTerm'[n] \in Nat
  BY <1>1, NodeTypes, NextTypes
<1> QED  BY <1>1, <1>2 DEF MovesOn

\* A follower that merges a request is left with what it shared with the
\* leader's log and, if it changed anything, with no more than that.
LEMMA AcceptedFrom ==
    ASSUME NEW h, NEW ballot, NEW g, NEW new, WholeStep(h, ballot, g, new),
           NEW n \in Node, NEW c \in appendCalls, Accepts(n, c)
    PROVE  LET H == h.log[currentTerm'[n]]
           IN  /\ c.term = currentTerm'[n] /\ h.leader[c.term] # Nil
               /\ Agree(log'[n], H, c.prevLogIndex + Len(c.entries))
               /\ \A i \in Nat : Agree(log[n], H, i) => Agree(log'[n], H, i)
               /\ log'[n] = log[n] \/ Agree(log'[n], H, Len(log'[n]))
<1> DEFINE H == h.log[c.term]
           prev == c.prevLogIndex
<1>1. /\ TypeOK /\ HistoryTypes(h) /\ Known(h, log[n])
      /\ \A t \in Nat : Known(h, h.log[t])
  BY StepTypes
<1>2. /\ c.from \in Node /\ c.term \in Nat /\ prev \in Nat
      /\ c.entries \in Seq(LogEntry) /\ c.from # Nil
  BY <1>1, NodeAssumption DEF TypeOK, AppendTypes, AppendCall
<1>3. c.term = currentTerm'[n] /\ log'[n] = Merge(log[n], prev, c.entries)
      /\ Consistent(log[n], prev, c.prevLogTerm)
  BY DEF Accepts
<1>4. RequestTrue(h, c)
  BY DEF WholeStep, LInvOf, CallsTrue
<1>5. log[n] \in Seq(LogEntry) /\ H \in Seq(LogEntry)
      /\ Len(log[n]) \in Nat /\ Len(H) \in Nat /\ Len(c.entries) \in Nat
  BY <1>1, <1>2, NodeTypes, HistoryTyped, LenProperties
<1>6. Known(h, H) /\ Known(h, log[n])
  BY <1>1, <1>2
<1>7. /\ h.leader[c.term] = c.from /\ prev + Len(c.entries) <= Len(H)
      /\ TermAt(H, prev) = c.prevLogTerm
      /\ \A k \in 1 .. Len(c.entries) : c.entries[k] = H[prev + k]
  BY <1>4 DEF RequestTrue
<1> HIDE DEF H
<1>8. \A i \in 1 .. Len(log[n]) : i <= Len(H) /\ log[n][i].term = H[i].term
                                     => Agree(log[n], H, i)
  BY <1>5, <1>6, KnownAgree
<1>9. Agree(log[n], H, prev)
  <2>1. CASE prev = 0
    BY <1>5, <2>1, AgreeNone
  <2>2. CASE prev # 0
    <3>1. prev \in 1 .. Len(log[n]) /\ prev <= Len(H)
      BY <1>2, <1>3, <1>5, <1>7, <2>2 DEF Consistent, LastIndex
    <3>2. log[n][prev].term = H[prev].term
      BY <1>2, <1>3, <1>7, <2>2 DEF Consistent, TermAt
    <3> QED  BY <1>8, <3>1, <3>2
  <2> QED  BY <2>1, <2>2
<1> HIDE DEF prev
<1> DEFINE m == Merge(log[n], prev, c.entries)
<1>10. /\ Agree(m, H, prev + Len(c.entries))
       /\ \A i \in Nat : Agree(log[n], H, i) => Agree(m, H, i)
       /\ m = log[n] \/ Agree(m, H, Len(m))
  <2>1. prev \in Nat
    BY <1>2 DEF prev
  <2>2. /\ prev + Len(c.entries) <= Len(H)
        /\ \A k \in 1 .. Len(c.entries) : c.entries[k] = H[prev + k]
    BY <1>7
  <2> QED  BY <1>2, <1>5, <1>8, <1>9, <2>1, <2>2, MergeAgrees
<1> QED  BY <1>2, <1>3, <1>7, <1>10 DEF H, prev

\* A node keeps what it shares with any log, unless the leader it now follows
\* does not share it.
LEMMA LogKept ==
    ASSUME NEW h, NEW ballot, NEW g, NEW new, WholeStep(h, ballot, g, new),
           NEW n \in Node, NEW l, NEW i \in Nat, Agree(log[n], l, i)
    PROVE  \/ Agree(log'[n], l, i)
           \/ /\ h.leader[currentTerm'[n]] # Nil
              /\ ~ Agree(h.log[currentTerm'[n]], l, i)
<1>1. LogMoves(n) /\ TypeOK
  BY StepTypes DEF WholeStep, LogStep
<1>2. log[n] \in Seq(LogEntry) /\ Len(log[n]) \in Nat
  BY <1>1, NodeTypes
<1>3. CASE log'[n] = log[n]
  BY <1>3
<1>4. ASSUME NEW e \in LogEntry, log'[n] = Append(log[n], e)
      PROVE  Agree(log'[n], l, i)
  BY <1>2, <1>4, AppendProperties DEF Agree
<1>5. ASSUME NEW c \in appendCalls, Accepts(n, c),
             Agree(h.log[currentTerm'[n]], l, i)
      PROVE  Agree(log'[n], l, i)
  <2> DEFINE H == h.log[currentTerm'[n]]
  <2>1. \A j \in Nat : Agree(log[n], H, j) => Agree(log'[n], H, j)
    BY <1>5, AcceptedFrom
  <2>2. Agree(log[n], H, i)
    BY <1>5, AgreeSwapped, AgreeThrough
  <2>3. Agree(log'[n], H, i)
    BY <2>1, <2>2
  <2> QED  BY <1>5, <2>3, AgreeThrough
<1>6. ASSUME NEW c \in appendCalls, Accepts(n, c)
      PROVE  h.leader[currentTerm'[n]] # Nil
  BY <1>6, AcceptedFrom
<1> QED  BY <1>1, <1>3, <1>4, <1>5, <1>6 DEF LogMoves, Commits

\* What a node held of the log of its term's leader, it still does.
LEMMA HeldOn ==
    ASSUME NEW h, NEW ballot, NEW g, NEW new, WholeStep(h, ballot, g, new),
           NEW p \in Node, NEW t \in Nat, NEW i \in Nat,
           Agree(h.held[p][t], h.log[t], i)
    PROVE  Agree(g.held[p][t], g.log[t], i)
<1>1. HistoryTypes(h) /\ HistoryTypes(g) /\ Extends(h, g)
  BY StepTypes
<1>2. /\ h.log[t] \in Seq(LogEntry) /\ Len(h.log[t]) \in Nat
      /\ g.log[t] \in Seq(LogEntry) /\ g.held[p][t] \in Seq(LogEntry)
  BY <1>1, HistoryTyped
<1>3. SUFFICES Agree(g.held[p][t], h.log[t], i)
  BY <1>1, AgreeExtended
<1>4. /\ currentTerm[p] \in Nat /\ currentTerm'[p] \in Nat
      /\ currentTerm[p] <= currentTerm'[p]
  BY TermsGrow
<1>5. /\ g.held[p][currentTerm'[p]] = log'[p]
      /\ t # currentTerm'[p] => g.held[p][t] = h.held[p][t]
  BY DEF WholeStep, HistoryStep, GoesOnTo, Tracks
<1>6. /\ h.held[p][currentTerm[p]] = log[p]
      /\ t > currentTerm[p] => h.held[p][t] = <<>>
  BY DEF WholeStep, LInvOf, Tracks
<1>7. CASE t # currentTerm'[p]
  BY <1>5, <1>7
<1>8. CASE t = currentTerm'[p] /\ t = currentTerm[p]
  <2>1. Agree(log[p], h.log[currentTerm'[p]], i)
    BY <1>6, <1>8
  <2>2. Agree(h.log[currentTerm'[p]], h.log[currentTerm'[p]], i)
    BY <2>1 DEF Agree
  <2>3. Agree(log'[p], h.log[currentTerm'[p]], i)
    BY <2>1, <2>2, LogKept
  <2> QED  BY <1>5, <1>8, <2>3
<1>9. CASE t = currentTerm'[p] /\ t > currentTerm[p]
  <2>1. i = 0
    BY <1>6, <1>9 DEF Agree
  <2> QED  BY <1>2, <2>1, AgreeNone
<1> QED  BY <1>4, <1>7, <1>8, <1>9

\* What a node reached in a term it is not in, it reached before.
LEMMA ReachedBack ==
    ASSUME NEW h, NEW ballot, NEW g, NEW new, WholeStep(h, ballot, g, new),
           NEW p \in Node, NEW t \in Nat, t # currentTerm'[p],
           NEW i \in Nat, Reached(g, p, t, i)
    PROVE  Reached(h, p, t, i)
<1> DEFINE l == h.held[p][t]
<1>1. /\ HistoryTypes(h) /\ HistoryTypes(g) /\ Known(h, l)
  BY StepTypes
<1>2. /\ h.log[t] \in Seq(LogEntry) /\ Len(h.log[t]) \in Nat
      /\ g.log[t] \in Seq(LogEntry) /\ Len(g.log[t]) \in Nat
      /\ l \in Seq(LogEntry) /\ Len(l) \in Nat
  BY <1>1, HistoryTyped
<1>3. g.held[p][t] = l
  BY DEF WholeStep, HistoryStep, GoesOnTo
<1>4. i \in 1 .. Len(g.log[t]) /\ g.log[t][i].term = t /\ Agree(l, g.log[t], i)
  BY <1>3 DEF Reached
<1>5. i \in 1 .. Len(l) /\ l[i].term = t
  BY <1>2, <1>4 DEF Agree
<1>6. Agree(l, h.log[t], i)
  BY <1>1, <1>5 DEF Known
<1> HIDE DEF l
<1>7. i \in 1 .. Len(h.log[t]) /\ h.log[t][i].term = t
  BY <1>2, <1>5, <1>6 DEF Agree
<1> QED  BY <1>6, <1>7 DEF Reached, l

\* What was lost remains so.
LEMMA LostOn ==
    ASSUME NEW h, NEW ballot, NEW g, NEW new, WholeStep(h, ballot, g, new),
           NEW t \in Nat, NEW i \in Nat, i <= Len(h.log[t]),
           NEW u \in Nat, NEW w \in Nat, u <= w, Lost(h, t, i, u)
    PROVE  Lost(g, t, i, w)
<1>1. /\ HistoryTypes(h) /\ HistoryTypes(g) /\ Extends(h, g)
      /\ \A s \in Nat : TermsUpTo(h.log[s], s)
  BY StepTypes
<1> QED  BY <1>1, LostExtended

\* What was handed on remains so, when what there was to hand on does not
\* change any more.
LEMMA HandedOn ==
    ASSUME NEW h, NEW ballot, NEW g, NEW new, WholeStep(h, ballot, g, new),
           NEW p \in Node, NEW l, NEW u \in Nat, u <= currentTerm'[p],
           NEW v \in Nat, Handed(h, p, l, u, v)
    PROVE  Handed(g, p, l, u, v)
<1> SUFFICES ASSUME NEW t \in Nat, NEW i \in Nat, t < u, Reached(g, p, t, i)
             PROVE  Agree(l, g.log[t], i) \/ Lost(g, t, i, v)
  BY DEF Handed
<1>1. HistoryTypes(h) /\ HistoryTypes(g) /\ Extends(h, g)
  BY StepTypes
<1>2. t # currentTerm'[p]
  BY TermsGrow
<1>3. Reached(h, p, t, i)
  BY <1>2, ReachedBack
<1>4. i <= Len(h.log[t])
  BY <1>1, <1>3, HistoryTyped DEF Reached
<1>5. CASE Agree(l, h.log[t], i)
  BY <1>1, <1>5, AgreeExtended
<1>6. CASE Lost(h, t, i, v)
  BY <1>4, <1>6, LostOn
<1> QED  BY <1>3, <1>5, <1>6 DEF Handed

\* What is chosen, and the commits it vouches for, remain so.
LEMMA ChosenOn ==
    ASSUME NEW h, NEW ballot, NEW g, NEW new, WholeStep(h, ballot, g, new),
           NEW t \in Nat, NEW i \in Nat, Chosen(h, t, i)
    PROVE  Chosen(g, t, i)
<1>1. PICK Q \in SUBSET Node :
          Cardinality(Q) >= Majority /\ \A p \in Q : Reached(h, p, t, i)
  BY DEF Chosen
<1>2. HistoryTypes(h) /\ HistoryTypes(g) /\ Extends(h, g)
  BY StepTypes
<1>3. Len(h.log[t]) \in Nat /\ Len(g.log[t]) \in Nat
  BY <1>2, HistoryTyped
<1>4. Agree(h.log[t], g.log[t], Len(h.log[t]))
  BY <1>2 DEF Extends
<1>5. ASSUME NEW p \in Q
      PROVE  Reached(g, p, t, i)
  <2>1. /\ i \in 1 .. Len(h.log[t]) /\ h.log[t][i].term = t
        /\ Agree(h.held[p][t], h.log[t], i)
    BY <1>1 DEF Reached
  <2>2. i \in 1 .. Len(g.log[t]) /\ g.log[t][i].term = t
    BY <1>3, <1>4, <2>1 DEF Agree
  <2>3. Agree(g.held[p][t], g.log[t], i)
    BY <2>1, HeldOn
  <2> QED  BY <2>2, <2>3 DEF Reached
<1> QED  BY <1>1, <1>5 DEF Chosen

LEMMA VouchedOn ==
    ASSUME NEW h, NEW ballot, NEW g, NEW new, WholeStep(h, ballot, g, new),
           NEW l, NEW k \in Nat, NEW u \in Nat, NEW w \in Nat, u <= w,
           Vouched(h, l, k, u)
    PROVE  Vouched(g, l, k, w)
<1>1. CASE k = 0
  BY <1>1 DEF Vouched
<1>2. CASE k # 0
  <2>1. PICK t \in Nat, i \in Nat : /\ t <= u /\ k <= i /\ Chosen(h, t, i)
                                   /\ Agree(l, h.log[t], k)
    BY <1>2 DEF Vouched
  <2>2. HistoryTypes(h) /\ HistoryTypes(g) /\ Extends(h, g)
    BY StepTypes
  <2>3. Chosen(g, t, i) /\ Agree(l, g.log[t], k)
    BY <2>1, <2>2, ChosenOn, AgreeExtended
  <2>4. t <= w
    BY <2>1
  <2> QED  BY <2>1, <2>3, <2>4 DEF Vouched
<1> QED  BY <1>1, <1>2

---------------------------------------------------------------------------
(* Who leads, and what is known of the logs. *)

\* A term's leader and log are those before the step, or those of a node
\* that leads in the term now.
LEMMA LeaderNow ==
    ASSUME NEW h, NEW ballot, NEW g, NEW new, WholeStep(h, ballot, g, new),
           NEW t \in Nat
    PROVE  \/ g.leader[t] = h.leader[t] /\ g.log[t] = h.log[t]
           \/ \E n \in Node : /\ status'[n] = "LEADER" /\ currentTerm'[n] = t
                              /\ g.leader[t] = n /\ g.log[t] = log'[n]
<1>1. \/ g.leader[t] = h.leader[t] /\ g.log[t] = h.log[t]
      \/ /\ g.leader[t] \in Node /\ status'[g.leader[t]] = "LEADER"
         /\ currentTerm'[g.leader[t]] = t
  BY DEF WholeStep, HistoryStep, GoesOnTo
<1>2. \A n \in Node : status'[n] = "LEADER" => g.log[currentTerm'[n]] = log'[n]
  BY DEF WholeStep, HistoryStep, GoesOnTo, Tracks
<1> QED  BY <1>1, <1>2

LEMMA LeadersOverKept ==
    ASSUME NEW h, NEW ballot, NEW g, NEW new, WholeStep(h, ballot, g, new)
    PROVE  LeadersOver(g)'
<1> SUFFICES ASSUME NEW t \in Nat
             PROVE  /\ g.leader[t] = Nil => g.log[t] = <<>>
                    /\ g.leader[t] # Nil =>
                         /\ t <= currentTerm'[g.leader[t]]
                         /\ t = currentTerm'[g.leader[t]]
                               => status'[g.leader[t]] # "CANDIDATE"
  BY DEF LeadersOver
<1>1. LeadersOver(h) /\ HistoryTypes(h)
  BY DEF WholeStep, LInvOf
<1>2. CASE \E n \in Node : /\ status'[n] = "LEADER" /\ currentTerm'[n] = t
                          /\ g.leader[t] = n
  BY <1>2, TermsGrow, NodeAssumption
<1>3. CASE g.leader[t] = h.leader[t] /\ g.log[t] = h.log[t]
  <2>1. CASE g.leader[t] = Nil
    BY <1>1, <1>3, <2>1 DEF LeadersOver
  <2>2. CASE g.leader[t] # Nil
    <3>1. h.leader[t] \in Node
      BY <1>1, <1>3, <2>2, HistoryTyped
    <3>2. /\ t <= currentTerm[h.leader[t]]
          /\ t = currentTerm[h.leader[t]] => status[h.leader[t]] # "CANDIDATE"
      BY <1>1, <1>3, <2>2 DEF LeadersOver
    <3> QED  BY <1>3, <2>2, <3>1, <3>2, TermsGrow
  <2> QED  BY <2>1, <2>2
<1> QED  BY <1>2, <1>3, LeaderNow

\* Part of a known log is known, and of no later terms.
LEMMA KnownPart ==
    ASSUME NEW h, NEW L, Known(h, L), NEW t, TermsUpTo(L, t),
           NEW l, Agree(l, L, Len(l)), Len(L) \in Nat, Len(l) \in Nat
    PROVE  Known(h, l) /\ TermsUpTo(l, t)
<1> SUFFICES ASSUME NEW i \in 1 .. Len(l)
             PROVE  Agree(l, h.log[l[i].term], i) /\ l[i].term <= t
  BY DEF Known, TermsUpTo
<1>1. l[i] = L[i] /\ i \in 1 .. Len(L)
  BY DEF Agree
<1>2. Agree(L, h.log[L[i].term], i) /\ L[i].term <= t
  BY <1>1 DEF Known, TermsUpTo
<1> QED  BY <1>1, <1>2 DEF Agree

LEMMA LogKnownNext ==
    ASSUME NEW h, NEW ballot, NEW g, NEW new, WholeStep(h, ballot, g, new),
           NEW n \in Node
    PROVE  Known(g, log'[n]) /\ TermsUpTo(log'[n], currentTerm'[n])
<1> DEFINE T == currentTerm'[n]
           l == log[n]
<1>1. /\ TypeOK /\ TypeOK' /\ HistoryTypes(h) /\ HistoryTypes(g)
      /\ Extends(h, g) /\ Known(h, l)
      /\ \A t \in Nat : TermsUpTo(h.log[t], t) /\ Known(h, h.log[t])
  BY StepTypes
<1>2. /\ l \in Seq(LogEntry) /\ Len(l) \in Nat /\ T \in Nat
      /\ currentTerm[n] \in Nat /\ currentTerm[n] <= T
      /\ log'[n] \in Seq(LogEntry) /\ Len(log'[n]) \in Nat
  BY <1>1, NodeTypes, NextTypes, TermsGrow
<1>3. TermsUpTo(l, T)
  <2>1. TermsUpTo(l, currentTerm[n])
    BY DEF WholeStep, LInvOf, LogsKnown
  <2>2. \A i \in 1 .. Len(l) : l[i].term \in Nat
    <3> TAKE i \in 1 .. Len(l)
    <3>1. l[i] \in LogEntry
      BY <1>2, ElementOfSeq
    <3> QED  BY <3>1 DEF LogEntry
  <2> HIDE DEF l
  <2> QED  BY <1>2, <2>1, <2>2 DEF TermsUpTo
<1>4. Known(g, l)
  BY <1>1, <1>2, KnownExtended
<1>5. CASE log'[n] = l
  BY <1>3, <1>4, <1>5
<1>6. ASSUME status'[n] = "LEADER",
             NEW e \in LogEntry, e.term = T, log'[n] = Append(l, e)
      PROVE  Known(g, log'[n]) /\ TermsUpTo(log'[n], T)
  <2>1. g.log[T] = log'[n]
    BY <1>6 DEF WholeStep, HistoryStep, GoesOnTo, Tracks
  <2>2. /\ Len(log'[n]) = Len(l) + 1 /\ log'[n][Len(l) + 1] = e
        /\ \A i \in 1 .. Len(l) : log'[n][i] = l[i]
    BY <1>2, <1>6, AppendProperties
  <2> HIDE DEF l
  <2> SUFFICES ASSUME NEW i \in 1 .. Len(log'[n])
               PROVE  /\ Agree(log'[n], g.log[log'[n][i].term], i)
                      /\ log'[n][i].term <= T
    BY DEF Known, TermsUpTo
  <2>3. CASE i \in 1 .. Len(l)
    <3>1. log'[n][i] = l[i]
      BY <2>2, <2>3
    <3>2. Agree(l, g.log[l[i].term], i)
      BY <1>4, <2>3 DEF Known
    <3>3. l[i].term <= T
      BY <1>3, <2>3 DEF TermsUpTo
    <3>4. Agree(log'[n], l, i)
      BY <1>2, <2>2, <2>3 DEF Agree
    <3> QED  BY <3>1, <3>2, <3>3, <3>4, AgreeThrough
  <2>4. CASE i = Len(l) + 1
    <3>1. log'[n][i].term = T
      BY <1>6, <2>2, <2>4
    <3>2. Agree(log'[n], g.log[T], i)
      BY <2>1, <2>4, <2>2, <1>2 DEF Agree
    <3> QED  BY <1>2, <3>1, <3>2
  <2> QED  BY <1>2, <2>2, <2>3, <2>4
<1>7. ASSUME NEW c \in appendCalls, Accepts(n, c)
      PROVE  Known(g, log'[n]) /\ TermsUpTo(log'[n], T)
  <2>1. log'[n] = l \/ Agree(log'[n], h.log[T], Len(log'[n]))
    BY <1>7, AcceptedFrom
  <2>2. CASE Agree(log'[n], h.log[T], Len(log'[n]))
    <3>1. /\ Known(h, h.log[T]) /\ TermsUpTo(h.log[T], T)
          /\ Len(h.log[T]) \in Nat
      BY <1>1, <1>2, HistoryTyped
    <3>2. Known(h, log'[n]) /\ TermsUpTo(log'[n], T)
      BY <1>2, <2>2, <3>1, KnownPart
    <3> QED  BY <1>1, <1>2, <3>2, KnownExtended
  <2> QED  BY <1>5, <2>1, <2>2
<1>8. LogMoves(n)
  BY DEF WholeStep, LogStep
<1> QED
  <2>1. CASE Commits(n)
    <3>1. \/ log'[n] = l
          \/ \E e \in LogEntry : e.term = T /\ log'[n] = Append(l, e)
      BY <2>1 DEF Commits
    <3>2. status'[n] = "LEADER"
      BY <2>1 DEF Commits
    <3> QED  BY <1>5, <1>6, <3>1, <3>2
  <2> QED  BY <1>5, <1>7, <1>8, <2>1 DEF LogMoves

LEMMA LogsKnownKept ==
    ASSUME NEW h, NEW ballot, NEW g, NEW new, WholeStep(h, ballot, g, new)
    PROVE  LogsKnown(g)'
<1>1. /\ TypeOK /\ HistoryTypes(h) /\ HistoryTypes(g) /\ Extends(h, g)
      /\ \A t \in Nat : TermsUpTo(h.log[t], t) /\ Known(h, h.log[t])
      /\ \A p \in Node : \A t \in Nat : Known(h, h.held[p][t])
  BY StepTypes
<1>2. ASSUME NEW n \in Node, status'[n] = "CANDIDATE"
      PROVE  TermsUpTo(log'[n], currentTerm'[n] - 1)
  <2>1. /\ currentTerm[n] \in Nat /\ currentTerm'[n] \in Nat
        /\ currentTerm[n] <= currentTerm'[n] /\ log[n] \in Seq(LogEntry)
    BY <1>1, TermsGrow, NodeTypes
  <2>2. /\ TermsUpTo(log[n], currentTerm[n])
        /\ status[n] = "CANDIDATE" => TermsUpTo(log[n], currentTerm[n] - 1)
    BY DEF WholeStep, LInvOf, LogsKnown
  <2>3. \/ /\ status[n] = "CANDIDATE" /\ currentTerm'[n] = currentTerm[n]
           /\ log'[n] = log[n]
        \/ currentTerm'[n] > currentTerm[n] /\ log'[n] = log[n]
    BY <1>2 DEF WholeStep, LogStep, RoleMoves
  <2>4. CASE currentTerm'[n] > currentTerm[n] /\ log'[n] = log[n]
    <3> SUFFICES ASSUME NEW i \in 1 .. Len(log[n])
                 PROVE  log[n][i].term <= currentTerm'[n] - 1
      BY <2>4 DEF TermsUpTo
    <3>1. log[n][i] \in LogEntry
      BY <2>1, ElementOfSeq
    <3>2. log[n][i].term \in Nat /\ log[n][i].term <= currentTerm[n]
      BY <2>2, <3>1 DEF LogEntry, TermsUpTo
    <3> QED  BY <2>1, <2>4, <3>2
  <2> QED  BY <2>2, <2>3, <2>4
<1>3. ASSUME NEW t \in Nat
      PROVE  Known(g, g.log[t]) /\ TermsUpTo(g.log[t], t)
  <2>1. CASE g.log[t] = h.log[t]
    <3>1. h.log[t] \in Seq(LogEntry)
      BY <1>1, HistoryTyped
    <3> QED  BY <1>1, <2>1, <3>1, KnownExtended
  <2>2. CASE \E n \in Node : currentTerm'[n] = t /\ g.log[t] = log'[n]
    BY <2>2, LogKnownNext
  <2> QED  BY <2>1, <2>2, LeaderNow
<1>4. ASSUME NEW p \in Node, NEW t \in Nat
      PROVE  Known(g, g.held[p][t])
  <2>1. CASE t = currentTerm'[p]
    <3>1. g.held[p][t] = log'[p]
      BY <2>1 DEF WholeStep, HistoryStep, GoesOnTo, Tracks
    <3> QED  BY <3>1, LogKnownNext
  <2>2. CASE t # currentTerm'[p]
    <3>1. g.held[p][t] = h.held[p][t]
      BY <2>2 DEF WholeStep, HistoryStep, GoesOnTo
    <3>2. h.held[p][t] \in Seq(LogEntry)
      BY <1>1, HistoryTyped
    <3> QED  BY <1>1, <3>1, <3>2, KnownExtended
  <2> QED  BY <2>1, <2>2
<1> QED  BY <1>2, <1>3, <1>4, LogKnownNext DEF LogsKnown

---------------------------------------------------------------------------
(* What nodes, candidates and leaders have of what was reached. *)

\* What the records of votes say.
LEMMA BallotsNow ==
    ASSUME NEW h, NEW ballot, NEW g, NEW new, WholeStep(h, ballot, g, new),
           NEW p \in Node, NEW t \in Nat
    PROVE  /\ ballot[p][t] \in Node \cup {Nil} /\ new[p][t] \in Node \cup {Nil}
           /\ ballot[p][t] # Nil => new[p][t] = ballot[p][t]
           /\ new[p][t] # Nil => t <= currentTerm'[p]
           /\ new[p][t] # ballot[p][t] =>
                /\ t = currentTerm'[p] /\ new[p][t] = votedFor'[p]
                /\ ~ (votedFor'[p] = votedFor[p] /\ currentTerm'[p] = currentTerm[p])
<1>1. /\ Recorded(ballot, currentTerm, votedFor)
      /\ Recorded(new, currentTerm', votedFor')
      /\ Continues(new, ballot, currentTerm')
  BY DEF WholeStep, EInvOf
<1>2. currentTerm'[p] \in Nat
  BY TermsGrow
<1>3. ballot[p][t] \in Node \cup {Nil} /\ new[p][t] \in Node \cup {Nil}
  BY <1>1 DEF Recorded
<1>4. /\ ballot[p][currentTerm[p]] = votedFor[p]
      /\ new[p][currentTerm'[p]] = votedFor'[p]
      /\ t > currentTerm'[p] => new[p][t] = Nil
  BY <1>1 DEF Recorded
<1>5. ballot[p][t] # Nil \/ t # currentTerm'[p] => new[p][t] = ballot[p][t]
  BY <1>1 DEF Continues
<1> QED  BY <1>2, <1>3, <1>4, <1>5

\* A vote that is new is for the node itself, or for a call of that term.
LEMMA NewVote ==
    ASSUME NEW h, NEW ballot, NEW g, NEW new, WholeStep(h, ballot, g, new),
           NEW p \in Node, NEW t \in Nat, NEW n \in Node, new[p][t] = n,
           ballot[p][t] # n
    PROVE  /\ t = currentTerm'[p] /\ log'[p] = log[p]
           /\ \/ n = p
              \/ \E c \in voteCalls :
                    /\ c.from = n /\ c.term = t /\ t <= currentTerm[n]
                    /\ IsLogUpToDate(log[p], c.lastLogTerm, c.lastLogIndex)
<1>1. /\ t = currentTerm'[p] /\ n = votedFor'[p] /\ n # Nil
      /\ ~ (votedFor'[p] = votedFor[p] /\ currentTerm'[p] = currentTerm[p])
  BY BallotsNow, NodeAssumption
<1>2. VoteMoves(p)
  BY DEF WholeStep, LogStep
<1>3. \A c \in voteCalls : c.term <= currentTerm[c.from]
  BY DEF WholeStep, EInvOf, CallsApart
<1> QED  BY <1>1, <1>2, <1>3 DEF VoteMoves

LEMMA VotersAskedKept ==
    ASSUME NEW h, NEW ballot, NEW g, NEW new, WholeStep(h, ballot, g, new)
    PROVE  VotersAsked(new)'
<1> SUFFICES ASSUME NEW p \in Node, NEW t \in Nat, new[p][t] # Nil
             PROVE  t <= currentTerm'[new[p][t]]
  BY DEF VotersAsked
<1>1. PICK n \in Node : new[p][t] = n
  BY BallotsNow
<1>2. /\ currentTerm[n] \in Nat /\ currentTerm'[n] \in Nat
      /\ currentTerm[n] <= currentTerm'[n] /\ n # Nil
  BY TermsGrow, NodeAssumption
<1>3. CASE ballot[p][t] = n
  <2>1. t <= currentTerm[n]
    BY <1>2, <1>3 DEF WholeStep, LInvOf, VotersAsked
  <2> QED  BY <1>1, <1>2, <2>1
<1>4. CASE ballot[p][t] # n
  BY <1>1, <1>2, <1>4, NewVote
<1> QED  BY <1>3, <1>4

\* What a node reached before the term it comes to, it has, or it was lost.
LEMMA NodeHas ==
    ASSUME NEW h, NEW ballot, NEW g, NEW new, WholeStep(h, ballot, g, new),
           NEW p \in Node, NEW t \in Nat, NEW i \in Nat, Reached(h, p, t, i)
    PROVE  Agree(log[p], h.log[t], i) \/ Lost(h, t, i, currentTerm[p] + 1)
<1>1. currentTerm[p] \in Nat
  BY TermsGrow
<1>2. HistoryTypes(h)
  BY StepTypes
<1>3. /\ h.held[p][currentTerm[p]] = log[p]
      /\ t > currentTerm[p] => h.held[p][t] = <<>>
  BY DEF WholeStep, LInvOf, Tracks
<1>4. i \in 1 .. Len(h.log[t]) /\ Agree(h.held[p][t], h.log[t], i)
  BY DEF Reached
<1>5. CASE t < currentTerm[p]
  <2>1. Handed(h, p, log[p], currentTerm[p], currentTerm[p] + 1)
    BY DEF WholeStep, LInvOf, NodesKeep
  <2> QED  BY <1>5, <2>1 DEF Handed
<1>6. CASE t = currentTerm[p]
  BY <1>3, <1>4, <1>6
<1>7. CASE t > currentTerm[p]
  BY <1>2, <1>3, <1>4, <1>7, HistoryTyped DEF Agree
<1> QED  BY <1>1, <1>5, <1>6, <1>7

LEMMA NodesKeepKept ==
    ASSUME NEW h, NEW ballot, NEW g, NEW new, WholeStep(h, ballot, g, new)
    PROVE  NodesKeep(g)'
<1> SUFFICES ASSUME NEW p \in Node, NEW t \in Nat, NEW i \in Nat,
                    t < currentTerm'[p], Reached(g, p, t, i)
             PROVE  \/ Agree(log'[p], g.log[t], i)
                    \/ Lost(g, t, i, currentTerm'[p] + 1)
  BY DEF NodesKeep, Handed
<1> DEFINE T == currentTerm'[p]
<1>1. HistoryTypes(h) /\ HistoryTypes(g) /\ Extends(h, g)
  BY StepTypes
<1>2. currentTerm[p] \in Nat /\ T \in Nat /\ currentTerm[p] <= T
  BY TermsGrow
<1>3. Reached(h, p, t, i)
  BY <1>2, ReachedBack
<1>4. i <= Len(h.log[t])
  BY <1>1, <1>3, HistoryTyped DEF Reached
<1>5. CASE Lost(h, t, i, currentTerm[p] + 1)
  <2>1. currentTerm[p] + 1 \in Nat /\ T + 1 \in Nat /\ currentTerm[p] + 1 <= T + 1
    BY <1>2
  <2> QED  BY <1>4, <1>5, <2>1, LostOn
<1>6. CASE Agree(log[p], h.log[t], i)
  <2>1. CASE Agree(log'[p], h.log[t], i)
    BY <1>1, <2>1, AgreeExtended
  <2>2. CASE ~ Agree(log'[p], h.log[t], i)
    <3>1. h.leader[T] # Nil /\ ~ Agree(h.log[T], h.log[t], i)
      BY <1>6, <2>2, LogKept
    <3>2. PICK w \in Nat : w = T + 1
      BY <1>2
    <3>3. Lost(h, t, i, w) /\ w <= w
      BY <1>2, <3>1, <3>2 DEF Lost
    <3>4. Lost(g, t, i, w)
      BY <1>4, <3>3, LostOn
    <3> QED  BY <3>2, <3>4
  <2> QED  BY <2>1, <2>2
<1> QED  BY <1>3, <1>5, <1>6, NodeHas

\* A node that runs for a term, or is elected now, has what its voters
\* reached before.
LEMMA RunnerHas ==
    ASSUME NEW h, NEW ballot, NEW g, NEW new, WholeStep(h, ballot, g, new),
           NEW n \in Node, status'[n] # "FOLLOWER",
           h.leader[currentTerm'[n]] = Nil,
           NEW p \in Node, new[p][currentTerm'[n]] = n
    PROVE  Handed(g, p, log'[n], currentTerm'[n], currentTerm'[n])
<1> DEFINE u == currentTerm'[n]
<1>1. /\ TypeOK /\ HistoryTypes(h) /\ Known(h, log[n]) /\ Known(h, log[p])
      /\ \A s \in Nat : TermsUpTo(h.log[s], s)
  BY StepTypes
<1>2. /\ currentTerm[n] \in Nat /\ u \in Nat /\ currentTerm[n] <= u
      /\ currentTerm[p] \in Nat /\ currentTerm[p] <= currentTerm'[p]
      /\ currentTerm'[p] \in Nat /\ n # Nil
      /\ log[n] \in Seq(LogEntry) /\ log[p] \in Seq(LogEntry)
      /\ status[n] \in ServerStatus
  BY <1>1, TermsGrow, NodeTypes
<1>3. u <= currentTerm'[p]
  BY <1>2, BallotsNow
<1>4. /\ log'[n] = log[n]
      /\ u = currentTerm[n] => status[n] = "CANDIDATE"
  <2>1. RoleMoves(n)
    BY DEF WholeStep, LogStep
  <2>2. status[n] = "LEADER" => h.leader[currentTerm[n]] = n
    BY DEF WholeStep, LInvOf, Tracks
  <2>3. status[n] = "LEADER" => u # currentTerm[n]
    BY <1>2, <2>2
  <2>4. status'[n] \in ServerStatus
    BY StepTypes, NextTypes
  <2> QED  BY <1>2, <2>1, <2>3, <2>4 DEF RoleMoves, ServerStatus
<1>5. SUFFICES Handed(h, p, log[n], u, u)
  BY <1>2, <1>3, <1>4, HandedOn
<1>6. CASE ballot[p][u] = n
  <2>1. u = currentTerm[n]
    <3>1. u <= currentTerm[n]
      BY <1>2, <1>6 DEF WholeStep, LInvOf, VotersAsked
    <3> QED  BY <1>2, <3>1
  <2>2. CandidatesKeep(h, ballot)
    BY DEF WholeStep, LInvOf
  <2> QED  BY <1>4, <1>6, <2>1, <2>2 DEF CandidatesKeep
<1>7. CASE ballot[p][u] # n
  <2>1. /\ u = currentTerm'[p]
        /\ \/ n = p
           \/ \E c \in voteCalls :
                 /\ c.from = n /\ c.term = u /\ u <= currentTerm[n]
                 /\ IsLogUpToDate(log[p], c.lastLogTerm, c.lastLogIndex)
    BY <1>2, <1>7, NewVote
  <2>2. ASSUME NEW t \in Nat, NEW i \in Nat, t < u, Reached(h, p, t, i)
        PROVE  Agree(log[p], h.log[t], i) \/ Lost(h, t, i, u)
    <3>1. CASE Lost(h, t, i, currentTerm[p] + 1)
      <4>1. PICK v \in Nat : /\ t < v /\ v < currentTerm[p] + 1
                             /\ h.leader[v] # Nil
                             /\ ~ Agree(h.log[v], h.log[t], i)
        BY <3>1 DEF Lost
      <4>2. v < u
        BY <1>2, <2>1, <4>1
      <4> QED  BY <4>1, <4>2 DEF Lost
    <3> QED  BY <2>2, <3>1, NodeHas
  <2>3. CASE n = p
    BY <2>2, <2>3 DEF Handed
  <2>4. ASSUME NEW c \in voteCalls, c.from = n, c.term = u, u <= currentTerm[n],
               IsLogUpToDate(log[p], c.lastLogTerm, c.lastLogIndex)
        PROVE  Handed(h, p, log[n], u, u)
    <3>1. u = currentTerm[n] /\ status[n] = "CANDIDATE"
      BY <1>2, <1>4, <2>4
    <3>2. IsLogUpToDate(log[p], LastTerm(log[n]), Len(log[n]))
      BY <2>4, <3>1 DEF WholeStep, LInvOf, CallsTrue, BidTrue
    <3>3. \A j \in 1 .. Len(log[n]) : log[n][j].term < u
      <4>1. TermsUpTo(log[n], u - 1)
        BY <3>1 DEF WholeStep, LInvOf, LogsKnown
      <4>2. \A j \in 1 .. Len(log[n]) : log[n][j].term \in Nat
        <5> TAKE j \in 1 .. Len(log[n])
        <5>1. log[n][j] \in LogEntry
          BY <1>2, ElementOfSeq
        <5> QED  BY <5>1 DEF LogEntry
      <4> QED  BY <1>2, <4>1, <4>2 DEF TermsUpTo
    <3>4. LeadersOver(h)
      BY DEF WholeStep, LInvOf
    <3> SUFFICES ASSUME NEW t \in Nat, NEW i \in Nat, t < u, Reached(h, p, t, i)
                 PROVE  Agree(log[n], h.log[t], i) \/ Lost(h, t, i, u)
      BY DEF Handed
    <3>5. CASE Agree(log[p], h.log[t], i)
      <4>1. i \in 1 .. Len(h.log[t]) /\ h.log[t][i].term = t
        BY DEF Reached
      <4> HIDE DEF u
      <4> QED  BY <1>1, <1>2, <3>2, <3>3, <3>4, <3>5, <4>1, UpToDateHolds
    <3> QED  BY <2>2, <3>5
  <2> QED  BY <2>1, <2>3, <2>4
<1> QED  BY <1>6, <1>7

LEMMA CandidatesKeepKept ==
    ASSUME NEW h, NEW ballot, NEW g, NEW new, WholeStep(h, ballot, g, new)
    PROVE  CandidatesKeep(g, new)'
<1> SUFFICES ASSUME NEW n \in Node, status'[n] = "CANDIDATE",
                    g.leader[currentTerm'[n]] = Nil,
                    NEW p \in Node, new[p][currentTerm'[n]] = n
             PROVE  Handed(g, p, log'[n], currentTerm'[n], currentTerm'[n])
  BY DEF CandidatesKeep
<1>1. currentTerm'[n] \in Nat
  BY TermsGrow
<1>2. h.leader[currentTerm'[n]] = Nil
  <2>1. Extends(h, g)
    BY StepTypes
  <2> QED  BY <1>1, <2>1 DEF Extends
<1>3. status'[n] # "FOLLOWER"
  OBVIOUS
<1> QED  BY <1>2, <1>3, RunnerHas

LEMMA LeadersKeepKept ==
    ASSUME NEW h, NEW ballot, NEW g, NEW new, WholeStep(h, ballot, g, new)
    PROVE  LeadersKeep(g, new)'
<1> SUFFICES ASSUME NEW u \in Nat, g.leader[u] # Nil
             PROVE  \E Q \in SUBSET Node : Won(g, new, u, Q)
  BY DEF LeadersKeep
<1>1. CASE h.leader[u] # Nil
  <2>1. PICK Q \in SUBSET Node : Won(h, ballot, u, Q)
    BY <1>1 DEF WholeStep, LInvOf, LeadersKeep
  <2>2. /\ g.leader[u] = h.leader[u]
        /\ Agree(h.log[u], g.log[u], Len(h.log[u]))
    BY <1>1, StepTypes DEF Extends
  <2>3. ASSUME NEW p \in Q
        PROVE  new[p][u] = g.leader[u] /\ Handed(g, p, g.log[u], u, u)
    <3>1. ballot[p][u] = h.leader[u] /\ Handed(h, p, h.log[u], u, u)
      BY <2>1 DEF Won
    <3>2. new[p][u] = g.leader[u] /\ u <= currentTerm'[p]
      BY <1>1, <2>2, <3>1, BallotsNow
    <3>3. Handed(g, p, h.log[u], u, u)
      BY <3>1, <3>2, HandedOn
    <3>4. ASSUME NEW t \in Nat, NEW i \in Nat, Agree(h.log[u], g.log[t], i)
          PROVE  Agree(g.log[u], g.log[t], i)
      <4>1. HistoryTypes(h) /\ HistoryTypes(g)
        BY StepTypes
      <4>2. /\ h.log[u] \in Seq(LogEntry) /\ g.log[u] \in Seq(LogEntry)
            /\ Len(h.log[u]) \in Nat
        BY <4>1, HistoryTyped
      <4>3. i <= Len(h.log[u])
        BY <3>4 DEF Agree
      <4>4. Agree(h.log[u], g.log[u], i)
        BY <2>2, <4>2, <4>3, AgreeLess
      <4> QED  BY <3>4, <4>4, AgreeSwapped, AgreeThrough
    <3> QED  BY <3>2, <3>3, <3>4 DEF Handed
  <2> QED  BY <2>1, <2>3 DEF Won
<1>2. CASE h.leader[u] = Nil
  <2>1. PICK n \in Node : /\ status'[n] = "LEADER" /\ currentTerm'[n] = u
                          /\ g.leader[u] = n /\ g.log[u] = log'[n]
    BY <1>2, LeaderNow
  <2>2. PICK S \in SUBSET Node : CountedBy(n, new, S)'
    BY DEF WholeStep, EInvOf, VotesAdd
  <2>3. Cardinality(S) >= Majority /\ \A p \in S : new[p][u] = n
    BY <2>1, <2>2 DEF CountedBy
  <2>4. \A p \in S : Handed(g, p, log'[n], u, u)
    BY <1>2, <2>1, <2>3, RunnerHas
  <2> QED  BY <2>1, <2>3, <2>4 DEF Won
<1> QED  BY <1>1, <1>2

---------------------------------------------------------------------------
(* What is committed, and what calls and books say. *)

LEMMA BooksTrueKept ==
    ASSUME NEW h, NEW ballot, NEW g, NEW new, WholeStep(h, ballot, g, new)
    PROVE  BooksTrue(g)'
<1> SUFFICES ASSUME NEW n \in Node, status'[n] = "LEADER", NEW p \in Peers(n)
             PROVE  Agree(g.held[p][currentTerm'[n]], g.log[currentTerm'[n]],
                          matchIndex'[n][p])
  BY DEF BooksTrue, Peers
<1> DEFINE T == currentTerm'[n]
<1>1. HistoryTypes(g) /\ TypeOK' /\ TypeOK
  BY StepTypes
<1>2. p \in Node /\ T \in Nat
  BY TermsGrow DEF Peers
<1>3. g.log[T] \in Seq(LogEntry) /\ g.held[p][T] \in Seq(LogEntry)
  BY <1>1, <1>2, HistoryTyped
<1>4. matchIndex'[n][p] \in Nat
  BY <1>1, <1>2 DEF TypeOK, LeaderTypes
<1>5. CASE matchIndex'[n][p] = 0
  BY <1>3, <1>5, AgreeNone
<1>6. ASSUME status[n] = "LEADER", T = currentTerm[n],
             matchIndex'[n][p] = matchIndex[n][p]
      PROVE  Agree(g.held[p][T], g.log[T], matchIndex'[n][p])
  <2>1. Agree(h.held[p][T], h.log[T], matchIndex'[n][p])
    BY <1>6 DEF WholeStep, LInvOf, BooksTrue
  <2> HIDE DEF T
  <2> QED  BY <1>2, <1>4, <2>1, HeldOn
<1>7. ASSUME NEW c \in appendReplies, c.from = p, c.roundTerm = T, c.success,
             matchIndex'[n][p] = c.prevLogIndex + c.sentCount
      PROVE  Agree(g.held[p][T], g.log[T], matchIndex'[n][p])
  <2>1. Agree(h.held[p][T], h.log[T], matchIndex'[n][p])
    BY <1>7 DEF WholeStep, LInvOf, CallsTrue, AnswerTrue
  <2> HIDE DEF T
  <2> QED  BY <1>2, <1>4, <2>1, HeldOn
<1>8. BooksMove(n)
  BY DEF WholeStep, LogStep
<1> QED  BY <1>5, <1>6, <1>7, <1>8 DEF BooksMove

\* A commit that is vouched for is within the log, and so is one before it.
LEMMA VouchedLess ==
    ASSUME NEW h, HistoryTypes(h), NEW l \in Seq(LogEntry), NEW k \in Nat,
           NEW u, Vouched(h, l, k, u)
    PROVE  /\ k <= Len(l)
           /\ \A j \in Nat : j <= k => Vouched(h, l, j, u)
<1>1. Len(l) \in Nat
  BY LenProperties
<1>2. CASE k = 0
  BY <1>1, <1>2 DEF Vouched
<1>3. CASE k # 0
  <2>1. PICK t \in Nat, i \in Nat : /\ t <= u /\ k <= i /\ Chosen(h, t, i)
                                   /\ Agree(l, h.log[t], k)
    BY <1>3 DEF Vouched
  <2>2. k <= Len(l)
    BY <2>1 DEF Agree
  <2>3. ASSUME NEW j \in Nat, j <= k
        PROVE  Vouched(h, l, j, u)
    <3>1. h.log[t] \in Seq(LogEntry)
      BY HistoryTyped
    <3>2. Agree(l, h.log[t], j)
      BY <2>1, <2>3, <3>1, AgreeLess
    <3>3. j <= i
      BY <2>1, <2>3
    <3> QED  BY <2>1, <3>2, <3>3 DEF Vouched
  <2> QED  BY <2>2, <2>3
<1> QED  BY <1>2, <1>3

\* Another log that agrees with it is vouched for as well.
LEMMA VouchedOther ==
    ASSUME NEW h, NEW l, NEW k \in Nat, NEW u, Vouched(h, l, k, u),
           NEW m, Agree(m, l, k)
    PROVE  Vouched(h, m, k, u)
BY AgreeThrough DEF Vouched

\* A request accepted by a follower: nothing committed there is lost, and the
\* commit index only grows, to one that is vouched for.
LEMMA AcceptCommits ==
    ASSUME NEW h, NEW ballot, NEW g, NEW new, WholeStep(h, ballot, g, new),
           NEW n \in Node, NEW c \in appendCalls, Accepts(n, c)
    PROVE  /\ commitIndex'[n] >= commitIndex[n]
           /\ Agree(log'[n], log[n], commitIndex[n])
           /\ Vouched(h, log'[n], commitIndex'[n], currentTerm'[n])
<1> DEFINE T == currentTerm'[n]
           H == h.log[T]
           own == commitIndex[n]
<1>1. /\ TypeOK /\ TypeOK' /\ HistoryTypes(h)
  BY StepTypes
<1>2. /\ c.term = T /\ h.leader[T] # Nil
      /\ Agree(log'[n], H, c.prevLogIndex + Len(c.entries))
      /\ \A i \in Nat : Agree(log[n], H, i) => Agree(log'[n], H, i)
  BY AcceptedFrom
<1>3. /\ T \in Nat /\ currentTerm[n] \in Nat /\ currentTerm[n] <= T
      /\ log[n] \in Seq(LogEntry) /\ log'[n] \in Seq(LogEntry) /\ own \in Nat
      /\ H \in Seq(LogEntry) /\ Len(log[n]) \in Nat
  BY <1>1, TermsGrow, NodeTypes, NextTypes, HistoryTyped
<1>4. /\ c.prevLogIndex \in Nat /\ Len(c.entries) \in Nat
      /\ c.leaderCommit \in Nat
  <2>1. /\ c.entries \in Seq(LogEntry) /\ c.prevLogIndex \in Nat
        /\ c.leaderCommit \in Nat
    BY <1>1 DEF TypeOK, AppendTypes, AppendCall
  <2> QED  BY <2>1, LenProperties
<1>5. /\ c.leaderCommit <= c.prevLogIndex + Len(c.entries)
      /\ Vouched(h, H, c.leaderCommit, T)
  BY <1>2 DEF WholeStep, LInvOf, CallsTrue, RequestTrue
<1>6. commitIndex'[n] = IF c.leaderCommit > own THEN c.leaderCommit ELSE own
  <2>1. commitIndex'[n] = FollowerCommit(c, own)
    BY DEF Accepts
  <2> QED  BY <1>3, <1>4, <1>5, <2>1 DEF FollowerCommit, MinOf
<1>7. Vouched(h, log[n], own, currentTerm[n]) /\ own <= Len(log[n])
  <2>1. Vouched(h, log[n], own, currentTerm[n])
    BY DEF WholeStep, LInvOf, CommitsVouched
  <2> QED  BY <1>1, <1>3, <2>1, VouchedLess
<1> HIDE DEF T, H, own
<1>8. Agree(log'[n], log[n], own) /\ Vouched(h, log'[n], own, T)
  <2>1. CASE own = 0
    BY <1>3, <2>1, AgreeNone DEF Vouched
  <2>2. CASE own # 0
    <3>1. PICK t \in Nat, i \in Nat :
              /\ t <= currentTerm[n] /\ own <= i /\ Chosen(h, t, i)
              /\ Agree(log[n], h.log[t], own)
      BY <1>7, <2>2 DEF Vouched
    <3>2. Agree(H, h.log[t], own)
      <4>1. CASE t = T
        BY <3>1, <4>1 DEF H, Agree
      <4>2. CASE t < T
        <5>1. Agree(H, h.log[t], i)
          BY <1>2, <1>3, <3>1, <4>2, ChosenIsKept
             DEF H, WholeStep, LInvOf
        <5>2. h.log[t] \in Seq(LogEntry)
          BY <1>1, HistoryTyped
        <5> QED  BY <1>3, <3>1, <5>1, <5>2, AgreeLess
      <4> QED  BY <1>3, <3>1, <4>1, <4>2
    <3>3. Agree(log[n], H, own)
      BY <3>1, <3>2, AgreeSwapped, AgreeThrough
    <3>4. Agree(log'[n], H, own)
      BY <1>2, <1>3, <3>3
    <3>5. Agree(log'[n], log[n], own)
      BY <3>3, <3>4, AgreeSwapped, AgreeThrough
    <3>6. Agree(log'[n], h.log[t], own)
      BY <3>2, <3>4, AgreeThrough
    <3>7. t <= T
      BY <1>3, <3>1
    <3> QED  BY <3>1, <3>5, <3>6, <3>7 DEF Vouched
  <2> QED  BY <2>1, <2>2
<1>9. CASE c.leaderCommit > own
  <2>1. Agree(log'[n], H, c.leaderCommit)
    <3>1. c.prevLogIndex + Len(c.entries) \in Nat
      BY <1>4
    <3> QED  BY <1>2, <1>3, <1>4, <1>5, <3>1, AgreeLess
  <2>2. Vouched(h, log'[n], c.leaderCommit, T)
    BY <1>4, <1>5, <2>1, VouchedOther
  <2> QED  BY <1>3, <1>4, <1>6, <1>8, <1>9, <2>2 DEF T, own
<1>10. CASE ~ (c.leaderCommit > own)
  BY <1>3, <1>6, <1>8, <1>10 DEF T, own
<1> QED  BY <1>9, <1>10

\* A leader that counts a majority for an entry of its term: that is chosen.
LEMMA CommitIsChosen ==
    ASSUME NEW h, NEW ballot, NEW g, NEW new, WholeStep(h, ballot, g, new),
           NEW n \in Node, status'[n] = "LEADER",
           NEW i \in 1 .. Len(log'[n]), log'[n][i].term = currentTerm'[n],
           Cardinality({p \in Peers(n) : matchIndex'[n][p] >= i}) + 1 >= Majority
    PROVE  Chosen(g, currentTerm'[n], i) /\ Agree(log'[n], g.log[currentTerm'[n]], i)
<1> DEFINE T == currentTerm'[n]
           S == {p \in Peers(n) : matchIndex'[n][p] >= i}
           Q == S \cup {n}
<1>1. TypeOK' /\ HistoryTypes(g) /\ BooksTrue(g)'
  BY StepTypes, BooksTrueKept
<1>2. T \in Nat /\ Len(log'[n]) \in Nat /\ i \in Nat
  BY <1>1, NextTypes
<1>3. g.log[T] = log'[n] /\ g.held[n][T] = log'[n]
  BY DEF WholeStep, HistoryStep, GoesOnTo, Tracks
<1>4. Agree(log'[n], g.log[T], i)
  BY <1>2, <1>3 DEF Agree
<1>5. Reached(g, n, T, i)
  BY <1>3, <1>4 DEF Reached
<1>6. ASSUME NEW p \in S
      PROVE  Reached(g, p, T, i)
  <2>1. p \in Peers(n) /\ matchIndex'[n][p] >= i /\ p \in Node
    BY DEF Peers
  <2>2. Agree(g.held[p][T], g.log[T], matchIndex'[n][p])
    BY <1>1, <2>1 DEF BooksTrue
  <2>3. /\ matchIndex'[n][p] \in Nat
        /\ g.log[T] \in Seq(LogEntry) /\ g.held[p][T] \in Seq(LogEntry)
    BY <1>1, <1>2, <2>1, HistoryTyped DEF TypeOK, LeaderTypes
  <2>4. Agree(g.held[p][T], g.log[T], i)
    BY <1>2, <2>1, <2>2, <2>3, AgreeLess
  <2> QED  BY <1>3, <2>4 DEF Reached
<1>7. Cardinality(Q) = Cardinality(S) + 1
  <2>1. IsFiniteSet(S)
    BY NodeAssumption, FS_Subset DEF Peers
  <2>2. n \notin S
    BY DEF Peers
  <2> QED  BY <2>1, <2>2, FS_AddElement
<1>8. Q \in SUBSET Node /\ \A p \in Q : Reached(g, p, T, i)
  BY <1>5, <1>6 DEF Peers
<1> HIDE DEF S, Q
<1>9. Cardinality(Q) >= Majority
  BY <1>7 DEF S
<1> QED  BY <1>4, <1>8, <1>9 DEF Chosen

\* What a leader commits.
LEMMA LeaderCommits ==
    ASSUME NEW h, NEW ballot, NEW g, NEW new, WholeStep(h, ballot, g, new),
           NEW n \in Node, Commits(n)
    PROVE  /\ commitIndex'[n] >= commitIndex[n]
           /\ Agree(log'[n], log[n], commitIndex[n])
           /\ Vouched(g, log'[n], commitIndex'[n], currentTerm'[n])
<1> DEFINE T == currentTerm'[n]
           own == commitIndex[n]
<1>1. /\ TypeOK /\ TypeOK' /\ HistoryTypes(h)
  BY StepTypes
<1>2. /\ T \in Nat /\ T = currentTerm[n] /\ status'[n] = "LEADER"
      /\ log[n] \in Seq(LogEntry) /\ log'[n] \in Seq(LogEntry) /\ own \in Nat
      /\ Len(log[n]) \in Nat /\ Len(log'[n]) \in Nat
  BY <1>1, NodeTypes, NextTypes DEF Commits
<1>3. Vouched(h, log[n], own, T) /\ own <= Len(log[n])
  <2>1. Vouched(h, log[n], own, T)
    BY <1>2 DEF WholeStep, LInvOf, CommitsVouched
  <2> QED  BY <1>1, <1>2, <2>1, VouchedLess
<1>4. Agree(log'[n], log[n], own)
  <2>1. CASE log'[n] = log[n]
    BY <1>3, <2>1 DEF Agree
  <2>2. ASSUME NEW e \in LogEntry, log'[n] = Append(log[n], e)
        PROVE  Agree(log'[n], log[n], own)
    BY <1>2, <1>3, <2>2, AppendProperties DEF Agree
  <2> QED  BY <2>1, <2>2 DEF Commits
<1>5. Vouched(g, log'[n], own, T)
  <2>1. Vouched(h, log'[n], own, T)
    BY <1>2, <1>3, <1>4, VouchedOther
  <2>2. T <= T
    BY <1>2
  <2> HIDE DEF T, own
  <2> QED  BY <1>2, <2>1, <2>2, VouchedOn
<1> DEFINE S == {i \in own + 1 .. LastIndex(log'[n]) :
                   /\ \A j \in i .. LastIndex(log'[n]) :
                         log'[n][j].term = currentTerm[n]
                   /\ Cardinality({p \in Peers(n) : matchIndex'[n][p] >= i}) + 1
                        >= Majority}
<1>6. commitIndex'[n] = Greatest(S, own)
  BY DEF Commits, AdvanceCommit
<1>7. \/ commitIndex'[n] = own
      \/ commitIndex'[n] \in S
  <2>1. S \subseteq 0 .. LastIndex(log'[n]) /\ LastIndex(log'[n]) \in Nat
    BY <1>2 DEF LastIndex
  <2> HIDE DEF S
  <2>2. CASE S = {}
    BY <1>6, <2>2 DEF Greatest
  <2>3. CASE S # {}
    <3>1. PICK x \in S : \A y \in S : y <= x
      BY <2>1, <2>3, GreatestExists
    <3> QED  BY <1>6, <2>3, <3>1 DEF Greatest
  <2> QED  BY <2>2, <2>3
<1>8. CASE commitIndex'[n] \in S
  <2>1. PICK i : i = commitIndex'[n] /\ i \in S
    BY <1>8
  <2>2. /\ i \in 1 .. Len(log'[n]) /\ i \in Nat /\ i >= own
        /\ log'[n][i].term = T
        /\ Cardinality({p \in Peers(n) : matchIndex'[n][p] >= i}) + 1 >= Majority
    <3>1. /\ i \in own + 1 .. Len(log'[n])
          /\ \A j \in i .. Len(log'[n]) : log'[n][j].term = currentTerm[n]
          /\ Cardinality({p \in Peers(n) : matchIndex'[n][p] >= i}) + 1 >= Majority
      BY <2>1 DEF LastIndex
    <3>2. i \in i .. Len(log'[n]) /\ i \in 1 .. Len(log'[n]) /\ i >= own
      BY <1>2, <3>1
    <3> QED  BY <1>2, <3>1, <3>2
  <2>3. Chosen(g, T, i) /\ Agree(log'[n], g.log[T], i)
    BY <1>2, <2>2, CommitIsChosen
  <2>4. T <= T /\ i <= i
    BY <1>2, <2>2
  <2>5. Vouched(g, log'[n], i, T)
    BY <1>2, <2>2, <2>3, <2>4 DEF Vouched
  <2> QED  BY <1>4, <2>1, <2>2, <2>5
<1>9. CASE commitIndex'[n] = own
  BY <1>2, <1>4, <1>5, <1>9
<1> QED  BY <1>7, <1>8, <1>9

\* No commit index falls and no committed entry goes.
LEMMA CommitsKept ==
    ASSUME NEW h, NEW ballot, NEW g, NEW new, WholeStep(h, ballot, g, new),
           NEW n \in Node
    PROVE  /\ commitIndex'[n] >= commitIndex[n]
           /\ Agree(log'[n], log[n], commitIndex[n])
           /\ Vouched(g, log'[n], commitIndex'[n], currentTerm'[n])
<1>1. /\ TypeOK /\ TypeOK' /\ HistoryTypes(h)
  BY StepTypes
<1>2. /\ currentTerm'[n] \in Nat /\ currentTerm[n] \in Nat
      /\ currentTerm[n] <= currentTerm'[n]
      /\ log[n] \in Seq(LogEntry) /\ Len(log[n]) \in Nat
      /\ commitIndex[n] \in Nat /\ commitIndex'[n] \in Nat
  BY <1>1, TermsGrow, NodeTypes, NextTypes
<1>3. CASE log'[n] = log[n] /\ commitIndex'[n] = commitIndex[n]
  <2>1. Vouched(h, log[n], commitIndex[n], currentTerm[n])
    BY DEF WholeStep, LInvOf, CommitsVouched
  <2>2. commitIndex[n] <= Len(log[n])
    BY <1>1, <1>2, <2>1, VouchedLess
  <2>3. Agree(log'[n], log[n], commitIndex[n])
    BY <1>3, <2>2 DEF Agree
  <2>4. Vouched(g, log[n], commitIndex[n], currentTerm'[n])
    BY <1>2, <2>1, VouchedOn
  <2> QED  BY <1>2, <1>3, <2>3, <2>4
<1>4. ASSUME NEW c \in appendCalls, Accepts(n, c)
      PROVE  /\ commitIndex'[n] >= commitIndex[n]
             /\ Agree(log'[n], log[n], commitIndex[n])
             /\ Vouched(g, log'[n], commitIndex'[n], currentTerm'[n])
  <2>1. /\ commitIndex'[n] >= commitIndex[n]
        /\ Agree(log'[n], log[n], commitIndex[n])
        /\ Vouched(h, log'[n], commitIndex'[n], currentTerm'[n])
    BY <1>4, AcceptCommits
  <2>2. currentTerm'[n] <= currentTerm'[n]
    BY <1>2
  <2> QED  BY <1>2, <2>1, <2>2, VouchedOn
<1>5. LogMoves(n)
  BY DEF WholeStep, LogStep
<1> QED  BY <1>3, <1>4, <1>5, LeaderCommits DEF LogMoves

LEMMA AllAppliedKept ==
    ASSUME NEW h, NEW ballot, NEW g, NEW new, WholeStep(h, ballot, g, new)
    PROVE  AllApplied'
<1> SUFFICES ASSUME NEW n \in Node
             PROVE  lastApplied'[n] = commitIndex'[n]
  BY DEF AllApplied
<1>1. lastApplied[n] = commitIndex[n] /\ LogMoves(n)
  BY DEF WholeStep, LInvOf, AllApplied, LogStep
<1>2. commitIndex'[n] >= commitIndex[n]
  BY CommitsKept
<1>3. commitIndex[n] \in Nat /\ commitIndex'[n] \in Nat
  BY StepTypes, NodeTypes, NextTypes
<1>4. \/ commitIndex'[n] = commitIndex[n] /\ lastApplied'[n] = lastApplied[n]
      \/ lastApplied'[n] = MaxOf(lastApplied[n], commitIndex'[n])
  BY <1>1 DEF LogMoves
<1> QED  BY <1>1, <1>2, <1>3, <1>4 DEF MaxOf

\* A request keeps saying what is so of its leader's log.
LEMMA RequestStaysTrue ==
    ASSUME NEW h, NEW ballot, NEW g, NEW new, WholeStep(h, ballot, g, new),
           NEW c \in appendCalls', NEW d \in appendCalls, SameRequest(c, d)
    PROVE  RequestTrue(g, c)
<1> DEFINE H == h.log[d.term]
           G == g.log[d.term]
           prev == d.prevLogIndex
<1>1. TypeOK /\ HistoryTypes(h) /\ HistoryTypes(g) /\ Extends(h, g)
  BY StepTypes
<1>2. /\ d.from \in Node /\ d.from # Nil /\ d.term \in Nat /\ prev \in Nat
      /\ d.entries \in Seq(LogEntry) /\ d.leaderCommit \in Nat
  BY <1>1, NodeAssumption DEF TypeOK, AppendTypes, AppendCall
<1>3. /\ H \in Seq(LogEntry) /\ Len(H) \in Nat /\ G \in Seq(LogEntry)
      /\ Len(G) \in Nat /\ Len(d.entries) \in Nat
  BY <1>1, <1>2, HistoryTyped, LenProperties
<1>4. RequestTrue(h, d)
  BY DEF WholeStep, LInvOf, CallsTrue
<1>5. /\ h.leader[d.term] = d.from
      /\ prev + Len(d.entries) <= Len(H) /\ TermAt(H, prev) = d.prevLogTerm
      /\ \A k \in 1 .. Len(d.entries) : d.entries[k] = H[prev + k]
      /\ d.leaderCommit <= prev + Len(d.entries)
      /\ Vouched(h, H, d.leaderCommit, d.term)
  BY <1>4 DEF RequestTrue
<1>6. g.leader[d.term] = d.from /\ Agree(H, G, Len(H))
  BY <1>1, <1>2, <1>5 DEF Extends
<1> HIDE DEF H, G
<1>7. Agree(G, H, Len(H))
  BY <1>6, AgreeSwapped
<1>8. prev + Len(d.entries) <= Len(G)
  BY <1>2, <1>3, <1>5, <1>6 DEF Agree
<1>9. TermAt(G, prev) = d.prevLogTerm
  <2>1. prev = 0 \/ prev \in 1 .. Len(H)
    BY <1>2, <1>3, <1>5
  <2> QED  BY <1>5, <1>6, <2>1 DEF TermAt, Agree
<1>10. \A k \in 1 .. Len(d.entries) : d.entries[k] = G[prev + k]
  <2> TAKE k \in 1 .. Len(d.entries)
  <2>1. prev + k \in 1 .. Len(H)
    BY <1>2, <1>3, <1>5
  <2> QED  BY <1>5, <1>6, <2>1 DEF Agree
<1>11. Vouched(g, G, d.leaderCommit, d.term)
  <2>1. d.leaderCommit <= Len(H)
    BY <1>2, <1>3, <1>5
  <2>2. Agree(G, H, d.leaderCommit)
    BY <1>2, <1>3, <1>7, <2>1, AgreeLess
  <2>3. Vouched(h, G, d.leaderCommit, d.term)
    BY <1>2, <1>5, <2>2, VouchedOther
  <2>4. d.term <= d.term
    BY <1>2
  <2> QED  BY <1>2, <2>3, <2>4, VouchedOn
<1> QED
  BY <1>5, <1>6, <1>8, <1>9, <1>10, <1>11 DEF RequestTrue, SameRequest, G

\* A new one says what is so of the log its leader now has.
LEMMA NewRequestTrue ==
    ASSUME NEW h, NEW ballot, NEW g, NEW new, WholeStep(h, ballot, g, new),
           NEW c \in appendCalls', SentNow(c)
    PROVE  RequestTrue(g, c)
<1> DEFINE n == c.from
<1>1. TypeOK' /\ HistoryTypes(g)
  BY StepTypes
<1>2. n \in Node /\ c.leaderCommit \in Nat
  BY <1>1 DEF TypeOK, AppendTypes, AppendCall
<1>3. /\ status'[n] = "LEADER" /\ c.term = currentTerm'[n]
      /\ c.prevLogIndex + Len(c.entries) = Len(log'[n])
      /\ TermAt(log'[n], c.prevLogIndex) = c.prevLogTerm
      /\ \A k \in 1 .. Len(c.entries) : c.entries[k] = log'[n][c.prevLogIndex + k]
      /\ c.leaderCommit <= commitIndex'[n]
  BY DEF SentNow
<1>4. /\ log'[n] \in Seq(LogEntry) /\ Len(log'[n]) \in Nat
      /\ commitIndex'[n] \in Nat
  BY <1>1, <1>2, NextTypes
<1>5. g.leader[c.term] = n /\ g.log[c.term] = log'[n]
  BY <1>2, <1>3 DEF WholeStep, HistoryStep, GoesOnTo, Tracks
<1>6. Vouched(g, log'[n], commitIndex'[n], c.term)
  BY <1>2, <1>3, CommitsKept
<1>7. commitIndex'[n] <= Len(log'[n]) /\ Vouched(g, log'[n], c.leaderCommit, c.term)
  BY <1>1, <1>2, <1>3, <1>4, <1>6, VouchedLess
<1>8. c.leaderCommit <= Len(log'[n])
  BY <1>2, <1>3, <1>4, <1>7
<1>9. c.prevLogIndex + Len(c.entries) <= Len(g.log[c.term])
  BY <1>3, <1>4, <1>5
<1> QED  BY <1>3, <1>5, <1>7, <1>8, <1>9 DEF RequestTrue

LEMMA CallsTrueKept ==
    ASSUME NEW h, NEW ballot, NEW g, NEW new, WholeStep(h, ballot, g, new)
    PROVE  CallsTrue(g)'
<1>1. /\ TypeOK /\ TypeOK' /\ HistoryTypes(h) /\ HistoryTypes(g) /\ Extends(h, g)
  BY StepTypes
<1>2. CallsMove
  BY DEF WholeStep, LogStep
<1>3. ASSUME NEW c \in appendCalls'
      PROVE  RequestTrue(g, c)
  BY <1>2, RequestStaysTrue, NewRequestTrue DEF CallsMove
<1>4. ASSUME NEW c \in appendReplies', c.success
      PROVE  Agree(g.held[c.from][c.roundTerm], g.log[c.roundTerm],
                   c.prevLogIndex + c.sentCount)
  <2>1. /\ c.from \in Node /\ c.roundTerm \in Nat
        /\ c.prevLogIndex + c.sentCount \in Nat
    BY <1>1 DEF TypeOK, AppendTypes, AppendReply
  <2>2. CASE c \in appendReplies
    <3>1. Agree(h.held[c.from][c.roundTerm], h.log[c.roundTerm],
                c.prevLogIndex + c.sentCount)
      BY <1>4, <2>2 DEF WholeStep, LInvOf, CallsTrue, AnswerTrue
    <3> QED  BY <2>1, <3>1, HeldOn
  <2>3. ASSUME NEW d \in appendCalls, Accepts(c.from, d), c.roundTerm = d.term,
               c.prevLogIndex = d.prevLogIndex, c.sentCount = Len(d.entries)
        PROVE  Agree(g.held[c.from][c.roundTerm], g.log[c.roundTerm],
                     c.prevLogIndex + c.sentCount)
    <3>1. /\ d.term = currentTerm'[c.from]
          /\ Agree(log'[c.from], h.log[d.term], d.prevLogIndex + Len(d.entries))
      BY <2>1, <2>3, AcceptedFrom
    <3>2. g.held[c.from][d.term] = log'[c.from]
      BY <2>1, <3>1 DEF WholeStep, HistoryStep, GoesOnTo, Tracks
    <3> QED  BY <1>1, <2>1, <2>3, <3>1, <3>2, AgreeExtended
  <2> QED  BY <1>2, <1>4, <2>2, <2>3 DEF CallsMove
<1>5. ASSUME NEW c \in voteCalls'
      PROVE  BidTrue(c)'
  <2>1. CASE c \in voteCalls
    <3> SUFFICES ASSUME status'[c.from] = "CANDIDATE",
                        currentTerm'[c.from] = c.term
                 PROVE  /\ c.lastLogIndex = Len(log'[c.from])
                        /\ c.lastLogTerm = LastTerm(log'[c.from])
      BY DEF BidTrue
    <3>1. /\ c.from \in Node /\ c.term \in Nat
      BY <1>1 DEF TypeOK, VoteTypes, VoteCall
    <3>2. c.term <= currentTerm[c.from] /\ BidTrue(c)
      BY <2>1 DEF WholeStep, EInvOf, CallsApart, LInvOf, CallsTrue
    <3>3. currentTerm[c.from] = c.term /\ status[c.from] = "CANDIDATE"
      BY <3>1, <3>2, TermsGrow
    <3>4. log'[c.from] = log[c.from]
      <4>1. RoleMoves(c.from)
        BY <3>1 DEF WholeStep, LogStep
      <4> QED  BY <3>1, <3>3, <4>1 DEF RoleMoves
    <3> QED  BY <3>2, <3>3, <3>4 DEF BidTrue
  <2> QED  BY <1>2, <2>1 DEF CallsMove
<1> QED  BY <1>3, <1>4, <1>5 DEF CallsTrue, AnswerTrue

\* So all of the invariant is kept.
LEMMA LInvGoesOn ==
    ASSUME NEW h, NEW ballot, NEW g, NEW new, WholeStep(h, ballot, g, new)
    PROVE  LInvOf(g, new)'
<1>1. HistoryTypes(g) /\ Tracks(g, status', currentTerm', log')
  BY DEF WholeStep, HistoryStep, GoesOnTo
<1>2. CommitsVouched(g)'
  BY CommitsKept DEF CommitsVouched
<1> QED
  BY <1>1, <1>2, LeadersOverKept, LogsKnownKept, NodesKeepKept,
     CandidatesKeepKept, LeadersKeepKept, VotersAskedKept, AllAppliedKept,
     CallsTrueKept, BooksTrueKept
     DEF LInvOf

---------------------------------------------------------------------------
(* Every task is such a step: the parts that several tasks share. *)

\* replicateTo() sends a part of the log, up to its end.
LEMMA RequestContents ==
    ASSUME NEW n, NEW p, NEW t, NEW l \in Seq(LogEntry),
           NEW next \in 1 .. Len(l) + 1, NEW commit
    PROVE  LET c == AppendRequest(n, p, t, l, next, commit)
           IN  /\ c.from = n /\ c.term = t /\ c.leaderCommit = commit
               /\ c.prevLogIndex + Len(c.entries) = Len(l)
               /\ TermAt(l, c.prevLogIndex) = c.prevLogTerm
               /\ \A k \in 1 .. Len(c.entries) :
                     c.entries[k] = l[c.prevLogIndex + k]
<1> DEFINE c == AppendRequest(n, p, t, l, next, commit)
<1>1. /\ c.from = n /\ c.term = t /\ c.leaderCommit = commit
      /\ c.prevLogIndex = next - 1 /\ c.entries = EntriesFrom(l, next)
      /\ c.prevLogTerm = TermAt(l, next - 1)
  BY DEF AppendRequest
<1>2. /\ Len(EntriesFrom(l, next)) = Len(l) - next + 1
      /\ \A k \in 1 .. Len(l) - next + 1 : EntriesFrom(l, next)[k] = l[next + k - 1]
  BY SuffixOf
<1>3. Len(l) \in Nat
  BY LenProperties
<1> HIDE DEF c
<1>4. c.prevLogIndex + Len(c.entries) = Len(l)
  BY <1>1, <1>2, <1>3
<1>5. ASSUME NEW k \in 1 .. Len(c.entries)
      PROVE  c.entries[k] = l[c.prevLogIndex + k]
  <2>1. k \in 1 .. Len(l) - next + 1 /\ next + k - 1 = c.prevLogIndex + k
    BY <1>1, <1>2, <1>3
  <2> QED  BY <1>1, <1>2, <2>1
<1> QED  BY <1>1, <1>4, <1>5 DEF c

\* What a leader sends is new, or was on its way.
LEMMA ReplicateSends ==
    ASSUME NEW n \in Node, NEW to \in SUBSET Node, NEW t,
           NEW l \in Seq(LogEntry), NEW next,
           \A p \in to : next[p] \in 1 .. Len(l) + 1,
           NEW commit, NEW busy,
           ReplicateTo(n, to, t, l, next, commit, busy, appendCalls),
           status'[n] = "LEADER", currentTerm'[n] = t, log'[n] = l,
           commit <= commitIndex'[n]
    PROVE  \A c \in appendCalls' : c \in appendCalls \/ SentNow(c)
<1> SUFFICES ASSUME NEW c \in appendCalls', c \notin appendCalls
             PROVE  SentNow(c)
  OBVIOUS
<1>1. PICK p \in to : c = AppendRequest(n, p, t, l, next[p], commit)
  BY DEF ReplicateTo
<1>2. /\ c.from = n /\ c.term = t /\ c.leaderCommit = commit
      /\ c.prevLogIndex + Len(c.entries) = Len(l)
      /\ TermAt(l, c.prevLogIndex) = c.prevLogTerm
      /\ \A k \in 1 .. Len(c.entries) : c.entries[k] = l[c.prevLogIndex + k]
  BY <1>1, RequestContents
<1> QED  BY <1>2 DEF SentNow

\* Calls that end, and refusals, say nothing new.
LEMMA CallsEnd ==
    ASSUME \A c \in appendCalls' :
               \/ c \in appendCalls \/ SentNow(c)
               \/ \E d \in appendCalls : SameRequest(c, d),
           \A c \in appendReplies' : c \in appendReplies \/ ~ c.success,
           voteCalls' \subseteq voteCalls
    PROVE  CallsMove
<1>1. \A c \in appendCalls : SameRequest(c, c)
  BY DEF SameRequest
<1> QED  BY <1>1 DEF CallsMove

\* A node that follows, or has the role and term it had.
SameRole(n) ==
    \/ status'[n] = "FOLLOWER"
    \/ status'[n] = status[n] /\ currentTerm'[n] = currentTerm[n]

\* Most tasks leave logs and books alone.
LEMMA QuietLogStep ==
    ASSUME UNCHANGED <<log, commitIndex, lastApplied, matchIndex>>,
           \A n \in Node : SameRole(n) /\ VoteMoves(n), CallsMove
    PROVE  LogStep
<1> SUFFICES ASSUME NEW n \in Node
             PROVE  LogMoves(n) /\ RoleMoves(n) /\ BooksMove(n)
  BY DEF LogStep
<1>1. LogMoves(n)
  BY DEF LogMoves
<1>2. SameRole(n)
  OBVIOUS
<1>3. RoleMoves(n)
  BY <1>2 DEF SameRole, RoleMoves
<1>4. BooksMove(n)
  BY <1>2 DEF SameRole, BooksMove
<1> QED  BY <1>1, <1>3, <1>4

\* So do those that change no role and no vote.
LEMMA SteadyStep ==
    ASSUME UNCHANGED <<currentTerm, votedFor, status, log, commitIndex,
                       lastApplied, matchIndex>>, CallsMove
    PROVE  LogStep
<1>1. \A n \in Node : SameRole(n) /\ VoteMoves(n)
  BY DEF SameRole, VoteMoves
<1> QED  BY <1>1, QuietLogStep

\* A node that steps down, or follows in its own term.
LEMMA FollowerMoves ==
    ASSUME TypeOK, NEW n \in Node, NEW t \in Nat, t >= currentTerm[n],
           \/ BecomeFollower(n, t)
           \/ t = currentTerm[n] /\ UNCHANGED <<currentTerm, status>>,
           votedFor' = [votedFor EXCEPT ![n] = ForgetVote(n, t)]
    PROVE  \A m \in Node : SameRole(m) /\ VoteMoves(m)
<1>1. /\ currentTerm[n] \in Nat /\ currentTerm \in [Node -> Nat]
      /\ status \in [Node -> ServerStatus]
      /\ votedFor \in [Node -> Node \cup {Nil}]
  BY DEF TypeOK, ElectionTypes
<1>2. CASE BecomeFollower(n, t)
  <2>1. /\ currentTerm' = [currentTerm EXCEPT ![n] = t]
        /\ status' = [status EXCEPT ![n] = "FOLLOWER"]
    BY <1>2, BecomeFollowerStep
  <2> QED  BY <1>1, <2>1 DEF SameRole, VoteMoves, ForgetVote
<1>3. CASE t = currentTerm[n] /\ UNCHANGED <<currentTerm, status>>
  BY <1>1, <1>3 DEF SameRole, VoteMoves, ForgetVote
<1> QED  BY <1>2, <1>3

---------------------------------------------------------------------------
(* Timers and clients. *)

\* What becomes a leader: fresh books, and a first round of requests.
LEMMA BecomeLeaderLogs ==
    ASSUME IInv, GoodStep, NEW n \in Node, BecomeLeader(n, currentTerm'[n]),
           UNCHANGED <<log, commitIndex, lastApplied, appendReplies>>,
           voteCalls' \subseteq voteCalls,
           \A m \in Node \ {n} : currentTerm'[m] = currentTerm[m],
           \/ currentTerm'[n] > currentTerm[n]
           \/ currentTerm'[n] = currentTerm[n] /\ status[n] = "CANDIDATE",
           \A m \in Node : VoteMoves(m)
    PROVE  LogStep
<1> DEFINE next == [p \in Node |-> LastIndex(log[n]) + 1]
<1>1. TypeOK /\ TypeOK'
  BY DEF IInv, GoodStep
<1>2. /\ currentTerm'[n] \in Nat /\ log[n] \in Seq(LogEntry)
      /\ Len(log[n]) \in Nat /\ commitIndex[n] \in Nat
  BY <1>1, NodeTypes, NextTypes
<1>3. /\ status' = [status EXCEPT ![n] = "LEADER"]
      /\ \A p \in Node : matchIndex'[n][p] = 0
      /\ \A m \in Node \ {n} : matchIndex'[m] = matchIndex[m]
  BY <1>1, <1>2, BecomeLeaderStep
<1>4. status'[n] = "LEADER" /\ \A m \in Node \ {n} : status'[m] = status[m]
  BY <1>1, <1>3 DEF TypeOK, ElectionTypes
<1>5. \A m \in Node : LogMoves(m)
  BY DEF LogMoves
<1>6. ASSUME NEW m \in Node
      PROVE  RoleMoves(m) /\ BooksMove(m)
  <2>1. CASE m = n
    BY <1>3, <1>4, <2>1 DEF RoleMoves, BooksMove, Peers
  <2>2. CASE m # n
    BY <1>3, <1>4, <2>2 DEF RoleMoves, BooksMove
  <2> QED  BY <2>1, <2>2
<1>7. \A c \in appendCalls' : c \in appendCalls \/ SentNow(c)
  <2>1. ReplicateTo(n, Peers(n), currentTerm'[n], log[n], next, commitIndex[n],
                    {}, appendCalls)
    BY DEF BecomeLeader
  <2>2. \A p \in Peers(n) : next[p] \in 1 .. Len(log[n]) + 1
    BY <1>2 DEF Peers, LastIndex
  <2>3. Peers(n) \in SUBSET Node /\ log'[n] = log[n]
        /\ commitIndex[n] <= commitIndex'[n]
    BY <1>2 DEF Peers
  <2> HIDE DEF next
  <2> QED  BY <1>2, <1>4, <2>1, <2>2, <2>3, ReplicateSends
<1>8. CallsMove
  BY <1>7, CallsEnd
<1> QED  BY <1>5, <1>6, <1>8 DEF LogStep

\* onElectionTimeout(): the bid is for the log the node has.
LEMMA StartElectionRoundLogs ==
    ASSUME IInv, GoodStep, NEW n \in Node, StartElectionRound(n)
    PROVE  LogStep
<1>1. /\ currentTerm' = [currentTerm EXCEPT ![n] = @ + 1]
      /\ votedFor' = [votedFor EXCEPT ![n] = n]
      /\ UNCHANGED <<log, commitIndex, lastApplied, voteReplies, appendReplies>>
  BY DEF StartElectionRound, logVars
<1>2. TypeOK
  BY DEF IInv
<1>3. /\ currentTerm[n] \in Nat /\ currentTerm'[n] = currentTerm[n] + 1
      /\ votedFor'[n] = n
      /\ \A m \in Node \ {n} : /\ currentTerm'[m] = currentTerm[m]
                               /\ votedFor'[m] = votedFor[m]
  BY <1>1, <1>2 DEF TypeOK, ElectionTypes
<1>4. \A m \in Node : VoteMoves(m)
  BY <1>1, <1>3 DEF VoteMoves
<1>5. CASE 1 >= Majority
  <2>1. BecomeLeader(n, currentTerm'[n]) /\ UNCHANGED voteCalls
    BY <1>3, <1>5 DEF StartElectionRound
  <2>2. currentTerm'[n] > currentTerm[n]
    BY <1>3
  <2> QED  BY <1>1, <1>3, <1>4, <2>1, <2>2, BecomeLeaderLogs
<1>6. CASE ~ (1 >= Majority)
  <2>1. /\ status' = [status EXCEPT ![n] = "CANDIDATE"]
        /\ UNCHANGED <<matchIndex, appendCalls>>
        /\ voteCalls' = voteCalls \cup
             {[from |-> n, to |-> p, term |-> currentTerm[n] + 1,
               lastLogIndex |-> LastIndex(log[n]),
               lastLogTerm |-> LastTerm(log[n])] : p \in Peers(n)}
    BY <1>6 DEF StartElectionRound, leaderVars
  <2>2. status'[n] = "CANDIDATE" /\ \A m \in Node \ {n} : status'[m] = status[m]
    BY <1>2, <2>1 DEF TypeOK, ElectionTypes
  <2>3. \A m \in Node : LogMoves(m)
    BY <1>1 DEF LogMoves
  <2>4. ASSUME NEW m \in Node
        PROVE  RoleMoves(m) /\ BooksMove(m)
    <3>1. CASE m = n
      <4>1. currentTerm'[m] > currentTerm[m]
        BY <1>3, <3>1
      <4> QED  BY <1>1, <2>2, <3>1, <4>1 DEF RoleMoves, BooksMove
    <3>2. CASE m # n
      BY <1>1, <1>3, <2>1, <2>2, <3>2 DEF RoleMoves, BooksMove
    <3> QED  BY <3>1, <3>2
  <2>5. \A c \in voteCalls' : c \in voteCalls \/ BidTrue(c)'
    <3>1. ASSUME NEW c \in voteCalls', c \notin voteCalls
          PROVE  /\ c.from = n /\ c.lastLogIndex = Len(log[n])
                 /\ c.lastLogTerm = LastTerm(log[n])
      BY <2>1, <3>1 DEF LastIndex
    <3> QED  BY <1>1, <3>1 DEF BidTrue
  <2>6. \A c \in appendCalls : SameRequest(c, c)
    BY DEF SameRequest
  <2>7. CallsMove
    BY <1>1, <2>1, <2>5, <2>6 DEF CallsMove
  <2> QED  BY <1>4, <2>3, <2>4, <2>7 DEF LogStep
<1> QED  BY <1>5, <1>6

\* replicateToAllPeers()
LEMMA HeartbeatTickLogs ==
    ASSUME IInv, NEW n \in Node, HeartbeatTick(n)
    PROVE  LogStep
<1>1. /\ status[n] = "LEADER"
      /\ ReplicateTo(n, Peers(n), currentTerm[n], log[n], nextIndex[n],
                     commitIndex[n], inFlight[n], appendCalls)
      /\ UNCHANGED <<currentTerm, votedFor, status, log, commitIndex,
                     lastApplied, matchIndex, voteCalls, appendReplies>>
  BY DEF HeartbeatTick, electionVars, logVars, voteVars
<1>2. TypeOK /\ BooksFit
  BY DEF IInv
<1>3. /\ log[n] \in Seq(LogEntry) /\ Len(log[n]) \in Nat /\ commitIndex[n] \in Nat
  BY <1>2, NodeTypes
<1>4. \A p \in Peers(n) : nextIndex[n][p] \in 1 .. Len(log[n]) + 1
  BY <1>1, <1>2, <1>3 DEF Peers, BooksFit, TypeOK, LeaderTypes
<1>5. /\ Peers(n) \in SUBSET Node /\ log'[n] = log[n]
      /\ currentTerm'[n] = currentTerm[n] /\ status'[n] = "LEADER"
      /\ commitIndex[n] <= commitIndex'[n]
  BY <1>1, <1>3 DEF Peers
<1>6. \A c \in appendCalls' : c \in appendCalls \/ SentNow(c)
  BY <1>1, <1>3, <1>4, <1>5, ReplicateSends
<1>7. CallsMove
  BY <1>1, <1>6, CallsEnd
<1> QED  BY <1>1, <1>7, SteadyStep

\* Committing at a leader: the commit index does not fall.
LEMMA AdvanceCommitGrows ==
    ASSUME NEW n, NEW l \in Seq(LogEntry), NEW match, NEW commit \in Nat
    PROVE  commit <= AdvanceCommit(n, l, match, commit)
<1> DEFINE S == {i \in commit + 1 .. LastIndex(l) :
                   /\ \A j \in i .. LastIndex(l) : l[j].term = currentTerm[n]
                   /\ Cardinality({p \in Peers(n) : match[p] >= i}) + 1 >= Majority}
<1>1. AdvanceCommit(n, l, match, commit) = Greatest(S, commit)
  BY DEF AdvanceCommit
<1>2. S \subseteq 0 .. LastIndex(l) /\ LastIndex(l) \in Nat
      /\ \A i \in S : commit <= i
  BY LenProperties DEF LastIndex
<1> HIDE DEF S
<1>3. CASE S = {}
  BY <1>1, <1>3 DEF Greatest
<1>4. CASE S # {}
  <2>1. PICK x \in S : \A y \in S : y <= x
    BY <1>2, <1>4, GreatestExists
  <2>2. Greatest(S, commit) \in S
    BY <1>4, <2>1 DEF Greatest
  <2> QED  BY <1>1, <1>2, <2>2
<1> QED  BY <1>3, <1>4

\* submitCommand() at the leader.
LEMMA SubmitCommandLogs ==
    ASSUME IInv, NEW n \in Node, NEW r \in Request, SubmitCommand(n, r)
    PROVE  LogStep
<1> DEFINE e == [term |-> currentTerm[n], request |-> r]
           l == Append(log[n], e)
           commit == AdvanceCommit(n, l, matchIndex[n], commitIndex[n])
<1>0. TypeOK /\ BooksFit
  BY DEF IInv
<1>1. /\ status[n] = "LEADER"
      /\ log' = [log EXCEPT ![n] = l]
      /\ ReplicateTo(n, Peers(n), currentTerm[n], l, nextIndex[n],
                     commitIndex[n], inFlight[n], appendCalls)
      /\ commitIndex' = [commitIndex EXCEPT ![n] = commit]
      /\ lastApplied' = [lastApplied EXCEPT ![n] = MaxOf(@, commit)]
      /\ UNCHANGED <<currentTerm, votedFor, status, nextIndex, matchIndex,
                     voteCalls, appendReplies>>
  BY DEF SubmitCommand, ApplyCommitted, electionVars, voteVars
<1>2. /\ currentTerm[n] \in Nat /\ commitIndex[n] \in Nat
      /\ log[n] \in Seq(LogEntry) /\ Len(log[n]) \in Nat
  BY <1>0, NodeTypes
<1>3. e \in LogEntry /\ e.term = currentTerm[n]
  BY <1>2 DEF LogEntry
<1>4. l \in Seq(LogEntry) /\ Len(l) = Len(log[n]) + 1
  BY <1>2, <1>3, AppendProperties
<1> HIDE DEF e
<1>5. commitIndex[n] <= commit
  <2> HIDE DEF l
  <2> QED  BY <1>2, <1>4, AdvanceCommitGrows
<1>6. /\ log'[n] = l /\ commitIndex'[n] = commit
      /\ lastApplied'[n] = MaxOf(lastApplied[n], commit)
      /\ \A m \in Node \ {n} : /\ log'[m] = log[m] /\ lastApplied'[m] = lastApplied[m]
                               /\ commitIndex'[m] = commitIndex[m]
  <2> HIDE DEF l, commit
  <2> QED  BY <1>0, <1>1 DEF TypeOK, LogTypes
<1>7. Commits(n)
  <2>1. AdvanceCommit(n, l, matchIndex[n], commitIndex[n])
           = AdvanceCommit(n, log'[n], matchIndex'[n], commitIndex[n])
    <3> HIDE DEF l
    <3> QED  BY <1>1, <1>6
  <2>2. commitIndex'[n] = AdvanceCommit(n, log'[n], matchIndex'[n], commitIndex[n])
    BY <1>6, <2>1
  <2>3. log'[n] = Append(log[n], e)
    BY <1>6
  <2> QED  BY <1>1, <1>3, <2>2, <2>3 DEF Commits
<1>8. \A p \in Peers(n) : nextIndex[n][p] \in 1 .. Len(l) + 1
  <2> HIDE DEF l, commit
  <2>1. \A p \in Peers(n) : /\ nextIndex[n][p] <= Len(log[n]) + 1
                            /\ nextIndex[n][p] \in Nat \ {0}
    BY <1>0, <1>1 DEF Peers, BooksFit, TypeOK, LeaderTypes
  <2> QED  BY <1>2, <1>4, <2>1
<1> HIDE DEF l, commit
<1>9. \A c \in appendCalls' : c \in appendCalls \/ SentNow(c)
  <2>1. /\ Peers(n) \in SUBSET Node /\ currentTerm'[n] = currentTerm[n]
        /\ status'[n] = "LEADER" /\ commitIndex[n] <= commitIndex'[n]
    BY <1>1, <1>5, <1>6 DEF Peers
  <2> QED  BY <1>1, <1>4, <1>6, <1>8, <2>1, ReplicateSends
<1>10. CallsMove
  BY <1>1, <1>9, CallsEnd
<1>11. ASSUME NEW m \in Node
       PROVE  LogMoves(m) /\ RoleMoves(m) /\ VoteMoves(m) /\ BooksMove(m)
  <2>1. VoteMoves(m) /\ BooksMove(m)
    BY <1>1 DEF VoteMoves, BooksMove
  <2>2. CASE m = n
    BY <1>1, <1>6, <1>7, <2>1, <2>2 DEF LogMoves, RoleMoves
  <2>3. CASE m # n
    BY <1>1, <1>6, <2>1, <2>3 DEF LogMoves, RoleMoves
  <2> QED  BY <2>2, <2>3
<1> QED  BY <1>10, <1>11 DEF LogStep

\* Tasks that only answer, or only arm a timer.
LEMMA AsideLogs ==
    ASSUME NEW n \in Node,
           \/ Start(n)
           \/ \E r \in Request : RefuseCommand(n, r)
           \/ \E c \in voteCalls : RefuseOldCandidate(n, c)
           \/ \E c \in voteReplies : IgnoreVote(n, c)
           \/ \E c \in appendReplies : IgnoreAppendReply(n, c)
    PROVE  LogStep
<1>1. /\ UNCHANGED <<currentTerm, votedFor, status, log, commitIndex,
                     lastApplied, matchIndex, appendCalls>>
      /\ appendReplies' \subseteq appendReplies
      /\ voteCalls' \subseteq voteCalls
  BY DEF Start, RefuseCommand, RefuseOldCandidate, IgnoreVote, IgnoreAppendReply,
         electionVars, logVars, leaderVars, voteVars, appendVars
<1>2. CallsMove
  BY <1>1, CallsEnd
<1> QED  BY <1>1, <1>2, SteadyStep

---------------------------------------------------------------------------
(* The votes. *)

\* handleRequestVote()
LEMMA VoteLogs ==
    ASSUME IInv, NEW n \in Node, NEW c \in voteCalls, Vote(n, c)
    PROVE  LogStep
<1> DEFINE vote    == ForgetVote(n, c.term)
           granted == /\ vote \in {Nil, c.from}
                      /\ IsLogUpToDate(log[n], c.lastLogTerm, c.lastLogIndex)
<1>0. TypeOK
  BY DEF IInv
<1>1. /\ c.from \in Node /\ c.term \in Nat /\ currentTerm[n] \in Nat
      /\ c.term >= currentTerm[n]
  BY <1>0 DEF Vote, TypeOK, VoteTypes, ElectionTypes, VoteCall
<1>2. /\ voteCalls' = voteCalls \ {c}
      /\ votedFor' = [votedFor EXCEPT ![n] = IF granted THEN c.from ELSE vote]
      /\ UNCHANGED <<log, commitIndex, lastApplied, matchIndex, appendCalls,
                     appendReplies>>
  BY DEF Vote, logVars, leaderVars, appendVars
<1>3. \/ BecomeFollower(n, c.term)
      \/ c.term = currentTerm[n] /\ UNCHANGED <<currentTerm, status>>
  <2>1. CASE c.term > currentTerm[n]
    BY <2>1 DEF Vote
  <2>2. CASE ~ (c.term > currentTerm[n])
    <3>1. c.term = currentTerm[n]
      BY <1>1, <2>2
    <3> QED  BY <2>2, <3>1 DEF Vote
  <2> QED  BY <2>1, <2>2
<1>4. CallsMove
  BY <1>2, CallsEnd
<1>5. CASE ~ granted
  <2>1. votedFor' = [votedFor EXCEPT ![n] = ForgetVote(n, c.term)]
    <3> HIDE DEF granted
    <3> QED  BY <1>2, <1>5
  <2>2. \A m \in Node : SameRole(m) /\ VoteMoves(m)
    BY <1>0, <1>1, <1>3, <2>1, FollowerMoves
  <2> QED  BY <1>2, <1>4, <2>2, QuietLogStep
<1>6. CASE granted
  <2>1. /\ votedFor' = [votedFor EXCEPT ![n] = c.from]
        /\ IsLogUpToDate(log[n], c.lastLogTerm, c.lastLogIndex)
    BY <1>2, <1>6
  <2> HIDE DEF granted, vote
  <2>2. /\ currentTerm'[n] = c.term
        /\ \A m \in Node \ {n} : /\ currentTerm'[m] = currentTerm[m]
                                 /\ status'[m] = status[m]
        /\ status'[n] = "FOLLOWER" \/ UNCHANGED <<currentTerm, status>>
    <3>1. CASE BecomeFollower(n, c.term)
      <4>1. /\ currentTerm' = [currentTerm EXCEPT ![n] = c.term]
            /\ status' = [status EXCEPT ![n] = "FOLLOWER"]
        BY <1>0, <1>1, <3>1, BecomeFollowerStep
      <4> QED  BY <1>0, <4>1 DEF TypeOK, ElectionTypes
    <3>2. CASE c.term = currentTerm[n] /\ UNCHANGED <<currentTerm, status>>
      BY <3>2
    <3> QED  BY <1>3, <3>1, <3>2
  <2>3. /\ votedFor'[n] = c.from
        /\ \A m \in Node \ {n} : votedFor'[m] = votedFor[m]
    BY <1>0, <2>1 DEF TypeOK, ElectionTypes
  <2>4. VoteMoves(n)
    BY <1>2, <2>1, <2>2, <2>3 DEF VoteMoves
  <2>5. \A m \in Node : SameRole(m) /\ VoteMoves(m)
    <3> TAKE m \in Node
    <3>1. CASE m = n
      BY <2>2, <2>4, <3>1 DEF SameRole
    <3>2. CASE m # n
      BY <2>2, <2>3, <3>2 DEF SameRole, VoteMoves
    <3> QED  BY <3>1, <3>2
  <2> QED  BY <1>2, <1>4, <2>5, QuietLogStep
<1> QED  BY <1>5, <1>6

\* A node that steps down on an answer.
LEMMA StepDownLogs ==
    ASSUME IInv, NEW n \in Node,
           \/ \E c \in voteReplies : StepDownOnVote(n, c)
           \/ \E c \in appendReplies : StepDownOnAppend(n, c)
    PROVE  LogStep
<1>0. TypeOK
  BY DEF IInv
<1>1. PICK t \in Nat : t >= currentTerm[n] /\ StepDown(n, t)
  <2>1. ASSUME NEW c \in voteReplies, StepDownOnVote(n, c)
        PROVE  c.term \in Nat /\ c.term >= currentTerm[n] /\ StepDown(n, c.term)
    BY <1>0, <2>1 DEF StepDownOnVote, TypeOK, VoteTypes, VoteReply, ElectionTypes
  <2>2. ASSUME NEW c \in appendReplies, StepDownOnAppend(n, c)
        PROVE  c.term \in Nat /\ c.term >= currentTerm[n] /\ StepDown(n, c.term)
    BY <1>0, <2>2, AppendReplyTypes DEF StepDownOnAppend
  <2> QED  BY <2>1, <2>2
<1>2. /\ BecomeFollower(n, t)
      /\ votedFor' = [votedFor EXCEPT ![n] = ForgetVote(n, t)]
      /\ UNCHANGED <<log, commitIndex, lastApplied, matchIndex>>
  BY <1>1 DEF StepDown, logVars
<1>3. /\ UNCHANGED appendCalls /\ appendReplies' \subseteq appendReplies
      /\ voteCalls' \subseteq voteCalls
  BY DEF StepDownOnVote, StepDownOnAppend, appendVars, voteVars
<1>4. \A m \in Node : SameRole(m) /\ VoteMoves(m)
  BY <1>0, <1>1, <1>2, FollowerMoves
<1>5. CallsMove
  BY <1>3, CallsEnd
<1> QED  BY <1>2, <1>4, <1>5, QuietLogStep

\* onVoteResponse() that counts.
LEMMA CountVoteLogs ==
    ASSUME IInv, GoodStep, NEW n \in Node, NEW c \in voteReplies, CountVote(n, c)
    PROVE  LogStep
<1>1. /\ status[n] = "CANDIDATE"
      /\ UNCHANGED <<currentTerm, votedFor, log, commitIndex, lastApplied,
                     voteCalls, appendReplies>>
  BY DEF CountVote, Counts, logVars
<1>2. CASE votesReceived[n] + 1 >= Majority
  <2>1. BecomeLeader(n, currentTerm'[n])
    BY <1>1, <1>2 DEF CountVote
  <2>2. \A m \in Node : VoteMoves(m)
    BY <1>1 DEF VoteMoves
  <2> QED  BY <1>1, <2>1, <2>2, BecomeLeaderLogs
<1>3. CASE ~ (votesReceived[n] + 1 >= Majority)
  <2>1. UNCHANGED <<status, matchIndex, appendCalls>>
    BY <1>3 DEF CountVote, leaderVars
  <2>2. CallsMove
    BY <1>1, <2>1, CallsEnd
  <2> QED  BY <1>1, <2>1, <2>2, SteadyStep
<1> QED  BY <1>2, <1>3


---------------------------------------------------------------------------
(* AppendEntries at the follower. *)

\* handleAppendEntries() that refuses says nothing of its log.
LEMMA RefusalSaysNothing ==
    ASSUME NEW n, NEW c, NEW t, Reply(n, c, t, FALSE)
    PROVE  \A d \in appendReplies' : d \in appendReplies \/ ~ d.success
BY DEF Reply

LEMMA RefuseOldLeaderLogs ==
    ASSUME NEW n \in Node, NEW c \in appendCalls, RefuseOldLeader(n, c)
    PROVE  LogStep
<1>1. /\ appendCalls' = appendCalls \ {c}
      /\ Reply(n, c, currentTerm[n], FALSE)
      /\ UNCHANGED <<currentTerm, votedFor, status, log, commitIndex,
                     lastApplied, matchIndex, voteCalls>>
  BY DEF RefuseOldLeader, electionVars, logVars, leaderVars, voteVars
<1>2. CallsMove
  BY <1>1, RefusalSaysNothing, CallsEnd
<1> QED  BY <1>1, <1>2, SteadyStep

\* A node that follows the sender of a request.
LEMMA FollowLeaderMoves ==
    ASSUME IInv, NEW n \in Node, NEW c \in appendCalls,
           c.term >= currentTerm[n], FollowLeader(n, c)
    PROVE  /\ currentTerm'[n] = c.term /\ status'[n] = "FOLLOWER"
           /\ \A m \in Node : SameRole(m) /\ VoteMoves(m)
<1>0. TypeOK
  BY DEF IInv
<1>1. c.term \in Nat /\ currentTerm[n] \in Nat
  BY <1>0, AppendCallTerm
<1>2. \/ BecomeFollower(n, c.term)
      \/ /\ c.term = currentTerm[n] /\ UNCHANGED <<currentTerm, status>>
         /\ status[n] = "FOLLOWER"
  BY <1>1 DEF FollowLeader, StepsDown
<1>3. votedFor' = [votedFor EXCEPT ![n] = ForgetVote(n, c.term)]
  BY DEF FollowLeader
<1>4. currentTerm'[n] = c.term /\ status'[n] = "FOLLOWER"
  <2>1. CASE BecomeFollower(n, c.term)
    <3>1. /\ currentTerm' = [currentTerm EXCEPT ![n] = c.term]
          /\ status' = [status EXCEPT ![n] = "FOLLOWER"]
      BY <1>0, <1>1, <2>1, BecomeFollowerStep
    <3> QED  BY <1>0, <3>1 DEF TypeOK, ElectionTypes
  <2> QED  BY <1>2, <2>1
<1> QED  BY <1>0, <1>1, <1>2, <1>3, <1>4, FollowerMoves

LEMMA RefuseAppendLogs ==
    ASSUME IInv, NEW n \in Node, NEW c \in appendCalls, RefuseAppend(n, c)
    PROVE  LogStep
<1>1. /\ c.term >= currentTerm[n] /\ FollowLeader(n, c)
      /\ appendCalls' = appendCalls \ {c}
      /\ Reply(n, c, c.term, FALSE)
      /\ UNCHANGED <<log, commitIndex, lastApplied, matchIndex, voteCalls>>
  BY DEF RefuseAppend, logVars, leaderVars, voteVars
<1>2. CallsMove
  BY <1>1, RefusalSaysNothing, CallsEnd
<1>3. \A m \in Node : SameRole(m) /\ VoteMoves(m)
  BY <1>1, FollowLeaderMoves
<1> QED  BY <1>1, <1>2, <1>3, QuietLogStep

LEMMA AcceptAppendLogs ==
    ASSUME IInv, NEW n \in Node, NEW c \in appendCalls, AcceptAppend(n, c)
    PROVE  LogStep
<1> DEFINE l      == Merge(log[n], c.prevLogIndex, c.entries)
           commit == FollowerCommit(c, commitIndex[n])
<1>0. TypeOK
  BY DEF IInv
<1>1. /\ c.term >= currentTerm[n] /\ FollowLeader(n, c)
      /\ Consistent(log[n], c.prevLogIndex, c.prevLogTerm)
      /\ appendCalls' = appendCalls \ {c}
      /\ Reply(n, c, c.term, TRUE)
      /\ log' = [log EXCEPT ![n] = l]
      /\ commitIndex' = [commitIndex EXCEPT ![n] = commit]
      /\ lastApplied' = [lastApplied EXCEPT ![n] = MaxOf(@, commit)]
      /\ UNCHANGED <<matchIndex, voteCalls>>
  BY DEF AcceptAppend, ApplyCommitted, leaderVars, voteVars
<1>2. /\ log'[n] = l /\ commitIndex'[n] = commit
      /\ lastApplied'[n] = MaxOf(lastApplied[n], commit)
      /\ \A m \in Node \ {n} : /\ log'[m] = log[m] /\ lastApplied'[m] = lastApplied[m]
                               /\ commitIndex'[m] = commitIndex[m]
  <2> HIDE DEF l, commit
  <2> QED  BY <1>0, <1>1 DEF TypeOK, LogTypes
<1>3. /\ currentTerm'[n] = c.term /\ status'[n] = "FOLLOWER"
      /\ \A m \in Node : SameRole(m) /\ VoteMoves(m)
  BY <1>1, FollowLeaderMoves
<1>4. Accepts(n, c)
  BY <1>1, <1>2, <1>3 DEF Accepts
<1> HIDE DEF l, commit
<1>5. ASSUME NEW m \in Node
      PROVE  LogMoves(m) /\ RoleMoves(m) /\ VoteMoves(m) /\ BooksMove(m)
  <2>1. CASE m = n
    BY <1>2, <1>3, <1>4, <2>1 DEF LogMoves, RoleMoves, BooksMove
  <2>2. CASE m # n
    BY <1>1, <1>2, <1>3, <2>2 DEF SameRole, LogMoves, RoleMoves, BooksMove
  <2> QED  BY <2>1, <2>2
<1>6. ASSUME NEW d \in appendReplies', d \notin appendReplies
      PROVE  /\ d.from = n /\ d.roundTerm = c.term
             /\ d.prevLogIndex = c.prevLogIndex /\ d.sentCount = Len(c.entries)
  BY <1>1, <1>6 DEF Reply
<1>7. \A d \in appendCalls : SameRequest(d, d)
  BY DEF SameRequest
<1>8. CallsMove
  BY <1>1, <1>4, <1>6, <1>7 DEF CallsMove
<1> QED  BY <1>5, <1>8 DEF LogStep

---------------------------------------------------------------------------
(* AppendEntries answers at the leader. *)

LEMMA AppendSucceededLogs ==
    ASSUME IInv, GoodStep, NEW n \in Node, NEW c \in appendReplies,
           AppendSucceeded(n, c)
    PROVE  LogStep
<1> DEFINE match  == [matchIndex[n] EXCEPT ![c.from] =
                          MaxOf(@, Replicated(n, c))]
           next   == [nextIndex[n] EXCEPT ![c.from] = match[c.from] + 1]
           commit == AdvanceCommit(n, log[n], match, commitIndex[n])
           more   == IF next[c.from] <= LastIndex(log[n]) THEN {c.from} ELSE {}
           busy   == inFlight[n] \ {c.from}
<1>0. TypeOK /\ TypeOK' /\ BooksFit'
  BY DEF IInv, GoodStep
<1>1. /\ status[n] = "LEADER" /\ c.roundTerm = currentTerm[n] /\ c.success
      /\ appendReplies' = appendReplies \ {c}
      /\ matchIndex' = [matchIndex EXCEPT ![n] = match]
      /\ nextIndex' = [nextIndex EXCEPT ![n] = next]
      /\ commitIndex' = [commitIndex EXCEPT ![n] = commit]
      /\ lastApplied' = [lastApplied EXCEPT ![n] = MaxOf(@, commit)]
      /\ ReplicateTo(n, more, currentTerm[n], log[n], next, commit, busy,
                     appendCalls)
      /\ UNCHANGED <<currentTerm, votedFor, status, log, voteCalls>>
  <2>1. /\ ReplicateTo(n, more, currentTerm[n], log[n], next, commit, busy,
                       appendCalls)
        /\ ApplyCommitted(n, log[n], commit, pendingClients[n], answers)
        /\ matchIndex' = [matchIndex EXCEPT ![n] = match]
        /\ nextIndex' = [nextIndex EXCEPT ![n] = next]
        /\ commitIndex' = [commitIndex EXCEPT ![n] = commit]
    BY DEF AppendSucceeded
  <2>2. /\ status[n] = "LEADER" /\ c.roundTerm = currentTerm[n] /\ c.success
        /\ appendReplies' = appendReplies \ {c}
        /\ UNCHANGED <<currentTerm, votedFor, status, log, voteCalls>>
    BY DEF AppendSucceeded, OfThisRound, electionVars, voteVars
  <2> HIDE DEF match, next, commit, more, busy
  <2> QED  BY <2>1, <2>2 DEF ApplyCommitted
<1>2. /\ currentTerm[n] \in Nat /\ commitIndex[n] \in Nat
      /\ log[n] \in Seq(LogEntry) /\ Len(log[n]) \in Nat /\ c.from \in Node
      /\ matchIndex[n] \in [Node -> Nat] /\ Replicated(n, c) \in Nat
  <2>1. c.from \in Node /\ c.prevLogIndex \in Nat /\ c.sentCount \in Nat
    BY <1>0, AppendReplyTypes
  <2>2. matchIndex[n] \in [Node -> Nat]
    BY <1>0 DEF TypeOK, LeaderTypes
  <2> QED  BY <1>0, <2>1, <2>2, NodeTypes DEF Replicated
<1>3. /\ match[c.from] = matchIndex[n][c.from] \/ match[c.from] = Replicated(n, c)
      /\ \A p \in Node \ {c.from} : match[p] = matchIndex[n][p]
  BY <1>2 DEF MaxOf
<1> HIDE DEF match, commit
<1>4. /\ matchIndex'[n] = match /\ commitIndex'[n] = commit
      /\ lastApplied'[n] = MaxOf(lastApplied[n], commit)
      /\ \A m \in Node \ {n} : /\ matchIndex'[m] = matchIndex[m]
                               /\ commitIndex'[m] = commitIndex[m]
                               /\ lastApplied'[m] = lastApplied[m]
  BY <1>0, <1>1 DEF TypeOK, LogTypes, LeaderTypes
<1>5. commitIndex'[n] = AdvanceCommit(n, log'[n], matchIndex'[n], commitIndex[n])
  BY <1>1, <1>4 DEF commit
<1>6. Commits(n)
  BY <1>1, <1>5 DEF Commits
<1>7. BooksMove(n)
  <2> SUFFICES ASSUME NEW p \in Peers(n)
               PROVE  \/ match[p] = matchIndex[n][p]
                      \/ p = c.from /\ match[p] = c.prevLogIndex + c.sentCount
    BY <1>1, <1>4 DEF BooksMove
  <2> QED  BY <1>3 DEF Peers, Replicated
<1>8. \A c1 \in appendCalls' : c1 \in appendCalls \/ SentNow(c1)
  <2> HIDE DEF next, busy
  <2>1. nextIndex'[n] = next
    BY <1>0, <1>1 DEF TypeOK, LeaderTypes
  <2>2. \A p \in Node : next[p] \in Nat \ {0} /\ next[p] <= Len(log[n]) + 1
    BY <1>0, <1>1, <2>1 DEF TypeOK, LeaderTypes, BooksFit
  <2>3. more \subseteq {c.from}
    OBVIOUS
  <2> HIDE DEF more
  <2>4. more \in SUBSET Node /\ \A p \in more : next[p] \in 1 .. Len(log[n]) + 1
    BY <1>2, <2>2, <2>3
  <2>5. commit <= commitIndex'[n]
    BY <1>0, <1>4, NextTypes
  <2>6. status'[n] = "LEADER" /\ currentTerm'[n] = currentTerm[n] /\ log'[n] = log[n]
    BY <1>1
  <2>7. ReplicateTo(n, more, currentTerm[n], log[n], next, commit, busy, appendCalls)
    BY <1>1
  <2> QED  BY <1>2, <2>4, <2>5, <2>6, <2>7, ReplicateSends
<1>9. CallsMove
  BY <1>1, <1>8, CallsEnd
<1>10. ASSUME NEW m \in Node
       PROVE  LogMoves(m) /\ RoleMoves(m) /\ VoteMoves(m) /\ BooksMove(m)
  <2>1. CASE m = n
    BY <1>1, <1>4, <1>6, <1>7, <2>1 DEF LogMoves, RoleMoves, VoteMoves
  <2>2. CASE m # n
    BY <1>1, <1>4, <2>2 DEF LogMoves, RoleMoves, VoteMoves, BooksMove
  <2> QED  BY <2>1, <2>2
<1> QED  BY <1>9, <1>10 DEF LogStep

LEMMA AppendRefusedLogs ==
    ASSUME IInv, GoodStep, NEW n \in Node, NEW c \in appendReplies,
           AppendRefused(n, c)
    PROVE  LogStep
<1> DEFINE next == [nextIndex[n] EXCEPT ![c.from] = MaxOf(1, @ - 1)]
           busy == inFlight[n] \ {c.from}
           to   == {c.from}
<1>0. TypeOK /\ TypeOK' /\ BooksFit'
  BY DEF IInv, GoodStep
<1>1. /\ status[n] = "LEADER"
      /\ appendReplies' = appendReplies \ {c}
      /\ nextIndex' = [nextIndex EXCEPT ![n] = next]
      /\ ReplicateTo(n, to, currentTerm[n], log[n], next, commitIndex[n], busy,
                     appendCalls)
      /\ UNCHANGED <<currentTerm, votedFor, status, log, commitIndex,
                     lastApplied, matchIndex, voteCalls>>
  BY DEF AppendRefused, StepBack, OfThisRound, electionVars, logVars, voteVars
<1> HIDE DEF next, busy
<1>2. /\ commitIndex[n] \in Nat /\ log[n] \in Seq(LogEntry) /\ Len(log[n]) \in Nat
      /\ to \in SUBSET Node
  BY <1>0, NodeTypes, AppendReplyTypes
<1> HIDE DEF to
<1>3. \A p \in to : next[p] \in 1 .. Len(log[n]) + 1
  <2>1. nextIndex'[n] = next
    BY <1>0, <1>1 DEF TypeOK, LeaderTypes
  <2>2. \A p \in Node : next[p] \in Nat \ {0} /\ next[p] <= Len(log[n]) + 1
    BY <1>0, <1>1, <2>1 DEF TypeOK, LeaderTypes, BooksFit
  <2> QED  BY <1>2, <2>2
<1>4. /\ status'[n] = "LEADER" /\ currentTerm'[n] = currentTerm[n]
      /\ log'[n] = log[n] /\ commitIndex[n] <= commitIndex'[n]
  BY <1>1, <1>2
<1>5. \A d \in appendCalls' : d \in appendCalls \/ SentNow(d)
  BY <1>1, <1>2, <1>3, <1>4, ReplicateSends
<1>6. CallsMove
  BY <1>1, <1>5, CallsEnd
<1> QED  BY <1>1, <1>6, SteadyStep

---------------------------------------------------------------------------
(* Calls that fail. *)

LEMMA CallFailsLogs ==
    ASSUME CallFails
    PROVE  LogStep
<1>1. /\ UNCHANGED <<currentTerm, votedFor, status, log, commitIndex,
                     lastApplied, matchIndex>>
      /\ voteCalls' \subseteq voteCalls
  BY DEF CallFails, VoteCallFails, electionVars, logVars, leaderVars, voteVars
<1>2. /\ appendReplies' \subseteq appendReplies
      /\ \A c \in appendCalls' : \/ c \in appendCalls
                                 \/ \E d \in appendCalls :
                                       c = [d EXCEPT !.awaited = FALSE]
  BY DEF CallFails, appendVars, AbandonAppend, LoseAppendReply, LoseLateAppend
<1>3. \A d : SameRequest([d EXCEPT !.awaited = FALSE], d)
  BY DEF SameRequest
<1>4. CallsMove
  BY <1>1, <1>2, <1>3, CallsEnd
<1> QED  BY <1>1, <1>4, SteadyStep


---------------------------------------------------------------------------
(* The invariant is inductive. *)

\* Nothing has happened, so nothing is claimed.
LEMMA InitGivesLInv ==
    ASSUME Init
    PROVE  LInv
<1> DEFINE h == [leader |-> [t \in Nat |-> Nil], log |-> [t \in Nat |-> <<>>],
                 held |-> [p \in Node |-> [t \in Nat |-> <<>>]]]
<1>1. PICK ballot : EInvOf(ballot)
  BY InitGivesEInv DEF EInv
<1>2. /\ h.leader = [t \in Nat |-> Nil] /\ h.log = [t \in Nat |-> <<>>]
      /\ h.held = [p \in Node |-> [t \in Nat |-> <<>>]]
  OBVIOUS
<1> HIDE DEF h
<1>3. <<>> \in Seq(LogEntry) /\ Len(<<>>) = 0
  OBVIOUS
<1>4. \A n \in Node : /\ status[n] = "FOLLOWER" /\ log[n] = <<>>
                      /\ currentTerm[n] = 0 /\ commitIndex[n] = 0
                      /\ lastApplied[n] = 0
  BY DEF Init
<1>5. HistoryTypes(h)
  BY <1>2, <1>3 DEF HistoryTypes
<1>6. Tracks(h, status, currentTerm, log) /\ LeadersOver(h)
  BY <1>2, <1>4 DEF Tracks, LeadersOver
<1>7. LogsKnown(h)
  <2>1. Known(h, <<>>) /\ \A t : TermsUpTo(<<>>, t)
    BY <1>3 DEF Known, TermsUpTo
  <2>2. \A t \in Nat : h.log[t] = <<>> /\ \A p \in Node : h.held[p][t] = <<>>
    BY <1>2
  <2> QED  BY <1>4, <2>1, <2>2 DEF LogsKnown
<1>8. \A p \in Node : \A t, i \in Nat : ~ Reached(h, p, t, i)
  BY <1>2, <1>3 DEF Reached
<1>9. NodesKeep(h) /\ CandidatesKeep(h, ballot) /\ LeadersKeep(h, ballot)
  BY <1>2, <1>4, <1>8 DEF NodesKeep, CandidatesKeep, LeadersKeep, Handed
<1>10. VotersAsked(ballot)
  <2> SUFFICES ASSUME NEW p \in Node, NEW t \in Nat
               PROVE  ballot[p][t] = Nil
    BY DEF VotersAsked
  <2>1. Recorded(ballot, currentTerm, votedFor) /\ votedFor[p] = Nil
    BY <1>1 DEF EInvOf, Init
  <2>2. t = 0 \/ t > 0
    OBVIOUS
  <2> QED  BY <1>4, <2>1, <2>2 DEF Recorded
<1>11. CommitsVouched(h) /\ AllApplied
  BY <1>4 DEF CommitsVouched, Vouched, AllApplied
<1>12. CallsTrue(h) /\ BooksTrue(h)
  BY <1>4 DEF Init, CallsTrue, BooksTrue
<1>13. LInvOf(h, ballot)
  BY <1>5, <1>6, <1>7, <1>9, <1>10, <1>11, <1>12 DEF LInvOf
<1> QED  BY <1>1, <1>13 DEF LInv

\* Every task, and every failure of a call, is such a step ...
LEMMA EveryLogStep ==
    ASSUME IInv, Next
    PROVE  LogStep
<1>0. GoodStep
  BY EveryStepIsGood
<1>1. ASSUME NEW n \in Node, Timers(n) \/ Client(n)
      PROVE  LogStep
  BY <1>0, <1>1, AsideLogs, StartElectionRoundLogs, HeartbeatTickLogs,
     SubmitCommandLogs DEF Timers, Client
<1>2. ASSUME NEW n \in Node, NEW p \in Node,
             HandleRequestVote(n, p) \/ OnVoteResponse(n, p)
      PROVE  LogStep
  BY <1>0, <1>2, AsideLogs, VoteLogs, StepDownLogs, CountVoteLogs
     DEF HandleRequestVote, OnVoteResponse
<1>3. ASSUME NEW n \in Node, NEW p \in Node, HandleAppendEntries(n, p)
      PROVE  LogStep
  BY <1>0, <1>3, RefuseOldLeaderLogs, RefuseAppendLogs, AcceptAppendLogs
     DEF HandleAppendEntries
<1>4. ASSUME NEW n \in Node, NEW p \in Node, OnAppendEntriesResponse(n, p)
      PROVE  LogStep
  BY <1>0, <1>4, AsideLogs, StepDownLogs, AppendSucceededLogs, AppendRefusedLogs
     DEF OnAppendEntriesResponse
<1> QED  BY <1>1, <1>2, <1>3, <1>4, CallFailsLogs DEF Next, Tasks

\* ... over which the history and the record of votes go on.
LEMMA EveryWholeStep ==
    ASSUME IInv, NEW ballot, EInvOf(ballot), NEW h, LInvOf(h, ballot), Next
    PROVE  \E g, new : WholeStep(h, ballot, g, new)
<1>1. GoodStep /\ LogStep
  BY EveryStepIsGood, EveryLogStep
<1>2. PICK new : EInvOf(new)' /\ Continues(new, ballot, currentTerm')
  BY EveryStepKeeps DEF VotesGoOn
<1>3. PICK g : HistoryStep(h, g)
  BY <1>1, <1>2, HistoryGoesOn
<1> QED  BY <1>1, <1>2, <1>3 DEF WholeStep

\* What a step does to what is committed.
CommitsStay ==
    \A n \in Node : /\ commitIndex'[n] >= commitIndex[n]
                    /\ Agree(log'[n], log[n], commitIndex[n])

LEMMA LInvIsKept ==
    ASSUME IInv, LInv, Next
    PROVE  LInv' /\ CommitsStay
<1>1. PICK ballot, h : EInvOf(ballot) /\ LInvOf(h, ballot)
  BY DEF LInv
<1>2. PICK g, new : WholeStep(h, ballot, g, new)
  BY <1>1, EveryWholeStep
<1>3. EInvOf(new)' /\ LInvOf(g, new)'
  BY <1>2, LInvGoesOn DEF WholeStep
<1>4. CommitsStay
  BY <1>2, CommitsKept DEF CommitsStay
<1> QED  BY <1>3, <1>4 DEF LInv

\* A step that changes nothing keeps it with the same history.
LEMMA LInvStutters ==
    ASSUME LInv, UNCHANGED vars
    PROVE  LInv'
<1>1. UNCHANGED <<currentTerm, votedFor, status, votesReceived, log, commitIndex,
                  lastApplied, matchIndex, voteCalls, voteReplies, appendCalls,
                  appendReplies>>
  BY DEF vars, electionVars, logVars, leaderVars, voteVars, appendVars
<1>2. PICK ballot, h : EInvOf(ballot) /\ LInvOf(h, ballot)
  BY DEF LInv
<1>3. EInvOf(ballot)'
  <2>1. CallsApart' /\ Recorded(ballot, currentTerm', votedFor')
    BY <1>1, <1>2 DEF EInvOf, CallsApart
  <2>2. VotesAdd(ballot)'
    BY <1>1, <1>2 DEF EInvOf, VotesAdd, VotesGiven, CountedBy, Asked
  <2> QED  BY <2>1, <2>2 DEF EInvOf
<1>4. LInvOf(h, ballot)'
  <2>1. (HistoryTypes(h) /\ Tracks(h, status, currentTerm, log) /\ LeadersOver(h))'
    BY <1>1, <1>2 DEF LInvOf, HistoryTypes, Tracks, LeadersOver
  <2>2. LogsKnown(h)'
    BY <1>1, <1>2 DEF LInvOf, LogsKnown
  <2>3. (NodesKeep(h) /\ CandidatesKeep(h, ballot) /\ LeadersKeep(h, ballot)
           /\ VotersAsked(ballot))'
    <3>1. NodesKeep(h)'
      BY <1>1, <1>2 DEF LInvOf, NodesKeep
    <3>2. CandidatesKeep(h, ballot)'
      BY <1>1, <1>2 DEF LInvOf, CandidatesKeep
    <3>3. LeadersKeep(h, ballot)' /\ VotersAsked(ballot)'
      BY <1>1, <1>2 DEF LInvOf, LeadersKeep, VotersAsked
    <3> QED  BY <3>1, <3>2, <3>3
  <2>4. (CommitsVouched(h) /\ AllApplied /\ BooksTrue(h))'
    BY <1>1, <1>2 DEF LInvOf, CommitsVouched, AllApplied, BooksTrue
  <2>5. CallsTrue(h)'
    BY <1>1, <1>2 DEF LInvOf, CallsTrue, BidTrue
  <2> QED  BY <2>1, <2>2, <2>3, <2>4, <2>5 DEF LInvOf
<1> QED  BY <1>3, <1>4 DEF LInv

\* In every cluster there is such a history: what was committed was held by
\* a majority in the term of a leader, and no later leader is without it.
THEOREM HistoryKept == Spec => []LInv
<1>1. Init => LInv
  BY InitGivesLInv
<1>2. IInv /\ LInv /\ [Next]_vars => LInv'
  BY LInvIsKept, LInvStutters
<1> QED  BY <1>1, <1>2, IInvHolds, PTL DEF Spec


---------------------------------------------------------------------------
(* What follows from it. *)

LEMMA LogsMatch ==
    ASSUME IInv, LInv
    PROVE  LogMatching
<1>1. PICK ballot, h : EInvOf(ballot) /\ LInvOf(h, ballot)
  BY DEF LInv
<1> SUFFICES ASSUME NEW m \in Node, NEW n \in Node,
                    NEW i \in 1 .. MinOf(Len(log[m]), Len(log[n])),
                    log[m][i].term = log[n][i].term
             PROVE  SubSeq(log[m], 1, i) = SubSeq(log[n], 1, i)
  BY DEF LogMatching
<1>2. /\ log[m] \in Seq(LogEntry) /\ Len(log[m]) \in Nat
      /\ log[n] \in Seq(LogEntry) /\ Len(log[n]) \in Nat
  BY NodeTypes DEF IInv
<1>3. i \in Nat /\ i \in 1 .. Len(log[m]) /\ i \in 1 .. Len(log[n])
  BY <1>2 DEF MinOf
<1>4. Known(h, log[m]) /\ Known(h, log[n])
  BY <1>1 DEF LInvOf, LogsKnown
<1>5. Agree(log[m], log[n], i)
  BY <1>3, <1>4, KnownAgree
<1> QED  BY <1>2, <1>3, <1>5, AgreeSubSeq

\* handleAppendEntries()' check of the previous entry and its truncation of
\* conflicts: in every cluster, two logs that hold an entry of the same term
\* at the same index are the same up to it.
THEOREM LogsAgree == Spec => []LogMatching
BY LogsMatch, IInvHolds, HistoryKept, PTL

LEMMA BooksMatch ==
    ASSUME IInv, LInv
    PROVE  MatchIndexIsTrue
<1>1. PICK ballot, h : EInvOf(ballot) /\ LInvOf(h, ballot)
  BY DEF LInv
<1> SUFFICES ASSUME NEW n \in Node, NEW p \in Peers(n), status[n] = "LEADER",
                    currentTerm[p] = currentTerm[n]
             PROVE  /\ Len(log[p]) >= matchIndex[n][p]
                    /\ SubSeq(log[p], 1, matchIndex[n][p])
                         = SubSeq(log[n], 1, matchIndex[n][p])
  BY DEF MatchIndexIsTrue
<1>2. p \in Node
  BY DEF Peers
<1>3. /\ log[p] \in Seq(LogEntry) /\ log[n] \in Seq(LogEntry)
      /\ Len(log[p]) \in Nat /\ matchIndex[n][p] \in Nat
  BY <1>2, NodeTypes DEF IInv, TypeOK, LeaderTypes
<1>4. Agree(h.held[p][currentTerm[n]], h.log[currentTerm[n]], matchIndex[n][p])
  BY <1>1 DEF LInvOf, BooksTrue
<1>5. h.held[p][currentTerm[n]] = log[p] /\ h.log[currentTerm[n]] = log[n]
  BY <1>1, <1>2 DEF LInvOf, Tracks
<1>6. Agree(log[p], log[n], matchIndex[n][p])
  BY <1>4, <1>5
<1> QED  BY <1>3, <1>6, AgreeSubSeq DEF Agree

\* onAppendEntriesResponse(), which reads matchIndex from the request it
\* sent: in every cluster, and whichever answers are lost or late, a peer in
\* the leader's term holds what the leader counts for it.
THEOREM BooksAreTrue == Spec => []MatchIndexIsTrue
BY BooksMatch, IInvHolds, HistoryKept, PTL

\* Who reached an entry had a leader to get it from.
LEMMA ChosenHasLeader ==
    ASSUME NEW h, LeadersOver(h), NEW t \in Nat, NEW i \in Nat, Chosen(h, t, i)
    PROVE  h.leader[t] # Nil
<1>1. PICK Q \in SUBSET Node :
          Cardinality(Q) >= Majority /\ \A p \in Q : Reached(h, p, t, i)
  BY DEF Chosen
<1>2. PICK p \in Q : TRUE
  BY <1>1, MajoritiesMeet
<1>3. i \in 1 .. Len(h.log[t])
  BY <1>1, <1>2 DEF Reached
<1>4. h.log[t] # <<>>
  BY <1>3
<1> QED  BY <1>4 DEF LeadersOver

\* What is vouched for by term u is in the log of a leader of term u or later.
LEMMA VouchedIsLed ==
    ASSUME NEW h, HistoryTypes(h), NEW ballot, LeadersKeep(h, ballot),
           NEW l \in Seq(LogEntry), NEW k \in Nat, NEW u \in Nat,
           Vouched(h, l, k, u), NEW v \in Nat, u <= v, h.leader[v] # Nil
    PROVE  Agree(l, h.log[v], k)
<1>1. h.log[v] \in Seq(LogEntry)
  BY HistoryTyped
<1>2. CASE k = 0
  BY <1>1, <1>2, AgreeNone
<1>3. CASE k # 0
  <2>1. PICK t \in Nat, i \in Nat : /\ t <= u /\ k <= i /\ Chosen(h, t, i)
                                   /\ Agree(l, h.log[t], k)
    BY <1>3 DEF Vouched
  <2>2. CASE t = v
    BY <2>1, <2>2
  <2>3. CASE t # v
    <3>1. t < v
      BY <2>1, <2>3
    <3>2. Agree(h.log[v], h.log[t], i)
      BY <2>1, <3>1, ChosenIsKept
    <3>3. Agree(h.log[v], h.log[t], k)
      BY <1>1, <2>1, <3>2, HistoryTyped, AgreeLess
    <3> QED  BY <2>1, <3>3, AgreeSwapped, AgreeThrough
  <2> QED  BY <2>2, <2>3
<1> QED  BY <1>2, <1>3

LEMMA LeadersComplete ==
    ASSUME IInv, LInv
    PROVE  LeaderCompleteness
<1>1. PICK ballot, h : EInvOf(ballot) /\ LInvOf(h, ballot)
  BY DEF LInv
<1> SUFFICES ASSUME NEW m \in Node, NEW n \in Node, status[m] = "LEADER",
                    currentTerm[m] >= currentTerm[n]
             PROVE  /\ Len(log[m]) >= commitIndex[n]
                    /\ SubSeq(log[m], 1, commitIndex[n]) = Committed(n)
  BY DEF LeaderCompleteness
<1>2. /\ log[m] \in Seq(LogEntry) /\ Len(log[m]) \in Nat /\ m # Nil
      /\ log[n] \in Seq(LogEntry) /\ commitIndex[n] \in Nat
      /\ currentTerm[m] \in Nat /\ currentTerm[n] \in Nat
  BY NodeTypes DEF IInv
<1>3. /\ HistoryTypes(h) /\ LeadersKeep(h, ballot)
      /\ h.leader[currentTerm[m]] = m /\ h.log[currentTerm[m]] = log[m]
      /\ Vouched(h, log[n], commitIndex[n], currentTerm[n])
  BY <1>1 DEF LInvOf, Tracks, CommitsVouched
<1>4. Agree(log[n], log[m], commitIndex[n])
  BY <1>2, <1>3, VouchedIsLed
<1>5. commitIndex[n] <= Len(log[m])
      /\ SubSeq(log[n], 1, commitIndex[n]) = SubSeq(log[m], 1, commitIndex[n])
  BY <1>2, <1>4, AgreeSubSeq
<1> QED  BY <1>2, <1>5 DEF Committed

\* isLogUpToDate() and advanceCommitIndex(), which commits by counting only
\* entries of its own term: in every cluster a leader holds whatever any node
\* has committed in the leader's term or before.
THEOREM LeadersHoldCommits == Spec => []LeaderCompleteness
BY LeadersComplete, IInvHolds, HistoryKept, PTL

\* Two nodes' committed entries are the same, as far as both have them.
CommitsAgree ==
    \A m, n \in Node : commitIndex[m] <= commitIndex[n]
        => Agree(log[m], log[n], commitIndex[m])

LEMMA CommitsMatch ==
    ASSUME IInv, LInv
    PROVE  CommitsAgree
<1>1. PICK ballot, h : EInvOf(ballot) /\ LInvOf(h, ballot)
  BY DEF LInv
<1> SUFFICES ASSUME NEW m \in Node, NEW n \in Node, commitIndex[m] <= commitIndex[n]
             PROVE  Agree(log[m], log[n], commitIndex[m])
  BY DEF CommitsAgree
<1> DEFINE k == commitIndex[m]
           j == commitIndex[n]
<1>2. /\ log[m] \in Seq(LogEntry) /\ log[n] \in Seq(LogEntry)
      /\ k \in Nat /\ j \in Nat /\ k <= j
  BY NodeTypes DEF IInv
<1>3. /\ HistoryTypes(h) /\ LeadersKeep(h, ballot) /\ LeadersOver(h)
      /\ Vouched(h, log[m], k, currentTerm[m])
      /\ Vouched(h, log[n], j, currentTerm[n])
  BY <1>1 DEF LInvOf, CommitsVouched
<1> HIDE DEF k, j
<1>4. CASE k = 0
  BY <1>2, <1>4, AgreeNone DEF k
<1>5. CASE k # 0
  <2>1. PICK t \in Nat, i \in Nat :
            k <= i /\ Chosen(h, t, i) /\ Agree(log[m], h.log[t], k)
    BY <1>3, <1>5 DEF Vouched
  <2>2. PICK u \in Nat, x \in Nat :
            j <= x /\ Chosen(h, u, x) /\ Agree(log[n], h.log[u], j)
    BY <1>2, <1>3, <1>5 DEF Vouched
  <2>3. h.leader[t] # Nil /\ h.leader[u] # Nil
    BY <1>3, <2>1, <2>2, ChosenHasLeader
  <2>4. h.log[t] \in Seq(LogEntry) /\ h.log[u] \in Seq(LogEntry)
    BY <1>3, HistoryTyped
  <2>5. Agree(h.log[t], h.log[u], k)
    <3>1. CASE t = u
      BY <1>2, <2>1, <3>1 DEF Agree
    <3>2. CASE t < u
      <4>1. Agree(h.log[u], h.log[t], i)
        BY <1>3, <2>1, <2>3, <3>2, ChosenIsKept
      <4> QED  BY <1>2, <2>1, <2>4, <4>1, AgreeLess, AgreeSwapped
    <3>3. CASE u < t
      <4>1. Agree(h.log[t], h.log[u], x)
        BY <1>3, <2>2, <2>3, <3>3, ChosenIsKept
      <4>2. k <= x
        BY <1>2, <2>2
      <4> QED  BY <1>2, <2>2, <2>4, <4>1, <4>2, AgreeLess
    <3> QED  BY <3>1, <3>2, <3>3
  <2>6. Agree(log[n], h.log[u], k)
    BY <1>2, <2>2, <2>4, AgreeLess
  <2>7. Agree(log[m], log[n], k)
    BY <2>1, <2>5, <2>6, AgreeThrough, AgreeSwapped
  <2> QED  BY <2>7 DEF k
<1> QED  BY <1>4, <1>5

\* handleAppendEntries(): in every cluster no step lowers a commit index or
\* truncates a committed entry, not even for a late request.
THEOREM CommitsAreStable == Spec => CommittedIsStable
<1> DEFINE Stable ==
      \A n \in Node :
        /\ commitIndex'[n] >= commitIndex[n]
        /\ Len(log'[n]) >= commitIndex[n]
        /\ SubSeq(log'[n], 1, commitIndex[n]) = Committed(n)
<1>1. IInv /\ LInv /\ [Next]_vars => [Stable]_vars
  <2> SUFFICES ASSUME IInv, LInv, Next
               PROVE  Stable
    OBVIOUS
  <2>1. CommitsStay /\ TypeOK /\ TypeOK'
    BY LInvIsKept, EveryStepIsGood DEF IInv, GoodStep
  <2> TAKE n \in Node
  <2>2. /\ log[n] \in Seq(LogEntry) /\ commitIndex[n] \in Nat
        /\ log'[n] \in Seq(LogEntry) /\ Len(log'[n]) \in Nat
    BY <2>1, NodeTypes, NextTypes
  <2>3. commitIndex'[n] >= commitIndex[n] /\ Agree(log'[n], log[n], commitIndex[n])
    BY <2>1 DEF CommitsStay
  <2>4. /\ commitIndex[n] <= Len(log'[n])
        /\ SubSeq(log'[n], 1, commitIndex[n]) = SubSeq(log[n], 1, commitIndex[n])
    BY <2>2, <2>3, AgreeSubSeq
  <2> QED  BY <2>2, <2>3, <2>4 DEF Committed
<1>2. Spec => [][Stable]_vars
  BY <1>1, IInvHolds, HistoryKept, PTL DEF Spec
<1> QED  BY <1>2 DEF CommittedIsStable

=============================================================================
