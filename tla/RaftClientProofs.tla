------------------------- MODULE RaftClientProofs -------------------------
(***************************************************************************)
(* What nodes apply and what clients and readers are told.  First the      *)
(* nodes' maps: each is the replay of the entries its node has applied, so *)
(* that nodes which applied as many hold the same map.  Then the published *)
(* snapshot, the timers that keep a node working, the futures that wait    *)
(* for an entry, the answers, and that the cluster is one replicated log   *)
(* to its clients.                                                         *)
(***************************************************************************)
EXTENDS RaftLogProofs

---------------------------------------------------------------------------
(* Replaying a log. *)

\* The map after entry i, when the map after the entry before is v.
After(v, l, i) == Apply(v, CommandOf[l[i].request]).values

\* Function f replays log l up to entry n.
Replays(f, vals, l, from, n) ==
    \A i \in 0 .. n : f[i] = IF i <= from THEN vals ELSE After(f[i - 1], l, i)

\* There is one way to replay a log.
LEMMA ReplaysAgree ==
    ASSUME NEW vals, NEW l, NEW from \in Nat, NEW m \in Nat, NEW n \in Nat,
           NEW f, NEW g, Replays(f, vals, l, from, m), Replays(g, vals, l, from, n),
           NEW i \in Nat, i <= m, i <= n
    PROVE  f[i] = g[i]
<1> DEFINE Bad == {j \in Nat : j <= m /\ j <= n /\ f[j] # g[j]}
<1> SUFFICES ASSUME Bad # {}
             PROVE  FALSE
  OBVIOUS
<1>1. PICK j \in Bad : \A k \in Bad : j <= k
  <2>1. Bad \subseteq Nat
    OBVIOUS
  <2> HIDE DEF Bad
  <2> QED  BY <2>1, LeastExists
<1>2. /\ j \in Nat /\ j \in 0 .. m /\ j \in 0 .. n /\ f[j] # g[j]
  BY <1>1
<1>3. /\ f[j] = IF j <= from THEN vals ELSE After(f[j - 1], l, j)
      /\ g[j] = IF j <= from THEN vals ELSE After(g[j - 1], l, j)
  BY <1>2 DEF Replays
<1>4. ~ (j <= from)
  BY <1>2, <1>3
<1>5. j - 1 \in Nat /\ ~ (j <= j - 1) /\ j - 1 <= m /\ j - 1 <= n
  BY <1>2, <1>4
<1>6. f[j - 1] = g[j - 1]
  BY <1>1, <1>5
<1> QED  BY <1>2, <1>3, <1>4, <1>6

LEMMA ReplayExists ==
    ASSUME NEW vals, NEW l, NEW from \in Nat, NEW n \in Nat
    PROVE  \E f : Replays(f, vals, l, from, n)
<1> DEFINE Bad == {j \in Nat : ~ \E f : Replays(f, vals, l, from, j)}
<1> SUFFICES ASSUME Bad # {}
             PROVE  FALSE
  OBVIOUS
<1>1. PICK j \in Bad : \A k \in Bad : j <= k
  <2>1. Bad \subseteq Nat
    OBVIOUS
  <2> HIDE DEF Bad
  <2> QED  BY <2>1, LeastExists
<1>2. j \in Nat /\ ~ \E f : Replays(f, vals, l, from, j)
  BY <1>1
<1>3. CASE j = 0
  <2> DEFINE f == [i \in 0 .. 0 |-> vals]
  <2>1. \A i \in 0 .. 0 : f[i] = vals /\ i <= from
    OBVIOUS
  <2> HIDE DEF f
  <2>2. Replays(f, vals, l, from, j)
    BY <1>3, <2>1 DEF Replays
  <2> QED  BY <1>2, <2>2
<1>4. CASE j # 0
  <2>1. j - 1 \in Nat /\ ~ (j <= j - 1)
    BY <1>2, <1>4
  <2>2. PICK e : Replays(e, vals, l, from, j - 1)
    BY <1>1, <2>1
  <2> DEFINE last == IF j <= from THEN vals ELSE After(e[j - 1], l, j)
             f == [i \in 0 .. j |-> IF i = j THEN last ELSE e[i]]
  <2>3. /\ f[j] = IF j <= from THEN vals ELSE After(e[j - 1], l, j)
        /\ \A i \in 0 .. j - 1 : f[i] = e[i]
    BY <1>2, <1>4
  <2> HIDE DEF f
  <2>4. Replays(f, vals, l, from, j)
    <3> SUFFICES ASSUME NEW i \in 0 .. j
                 PROVE  f[i] = IF i <= from THEN vals ELSE After(f[i - 1], l, i)
      BY DEF Replays
    <3>1. CASE i = j
      <4>1. j - 1 \in 0 .. j - 1
        BY <2>1
      <4> QED  BY <2>3, <3>1, <4>1
    <3>2. CASE i # j
      <4>1. i \in 0 .. j - 1
        BY <1>2, <3>2
      <4>2. f[i] = e[i] /\ f[i] = IF i <= from THEN vals ELSE After(e[i - 1], l, i)
        BY <2>2, <2>3, <4>1 DEF Replays
      <4>3. ~ (i <= from) => i - 1 \in 0 .. j - 1
        BY <1>2, <4>1
      <4> QED  BY <2>3, <4>2, <4>3
    <3> QED  BY <3>1, <3>2
  <2> QED  BY <1>2, <2>4
<1> QED  BY <1>3, <1>4

\* So applyCommitted()'s loop has the result its definition says.
LEMMA ReplayDefined ==
    ASSUME NEW vals, NEW l, NEW from \in Nat, NEW i \in Nat
    PROVE  LET R == ReplayFrom(vals, l, from)
           IN  R[i] = IF i <= from THEN vals ELSE After(R[i - 1], l, i)
<1> DEFINE Up(f, n) == Replays(f, vals, l, from, n)
           upTo(n) == CHOOSE f : Up(f, n)
           r == [n \in Nat |-> upTo(n)[n]]
<1>1. \A n \in Nat : Up(upTo(n), n)
  <2> TAKE n \in Nat
  <2>1. \E f : Up(f, n)
    BY ReplayExists
  <2> HIDE DEF Up
  <2> QED  BY <2>1
<1>2. \A n \in Nat : r[n] = upTo(n)[n]
  OBVIOUS
<1>3. r = [n \in Nat |-> r[n]]
  OBVIOUS
<1> HIDE DEF r, upTo
<1>4. ASSUME NEW n \in Nat
      PROVE  r[n] = IF n <= from THEN vals ELSE After(r[n - 1], l, n)
  <2>1. n \in 0 .. n
    OBVIOUS
  <2>2. r[n] = IF n <= from THEN vals ELSE After(upTo(n)[n - 1], l, n)
    BY <1>1, <1>2, <2>1 DEF Replays
  <2>3. CASE ~ (n <= from)
    <3>1. n - 1 \in Nat /\ n - 1 <= n /\ n - 1 <= n - 1
      BY <2>3
    <3>2. Up(upTo(n), n) /\ Up(upTo(n - 1), n - 1)
      BY <1>1, <3>1
    <3> HIDE DEF Up
    <3>3. upTo(n)[n - 1] = upTo(n - 1)[n - 1]
      BY <3>1, <3>2, ReplaysAgree DEF Up
    <3> QED  BY <1>2, <2>2, <3>1, <3>3
  <2> QED  BY <2>2, <2>3
<1> DEFINE Is(a) == a = [n \in Nat |-> IF n <= from THEN vals
                                      ELSE Apply(a[n - 1], CommandOf[l[n].request]).values]
<1>5. Is(r)
  BY <1>3, <1>4 DEF After
<1>6. ReplayFrom(vals, l, from) = CHOOSE a : Is(a)
  BY DEF ReplayFrom
<1> HIDE DEF Is
<1>7. Is(ReplayFrom(vals, l, from))
  BY <1>5, <1>6
<1> QED  BY <1>7 DEF Is, After


\* Only the entries that are replayed matter.
LEMMA ReplaySame ==
    ASSUME NEW vals, NEW l, NEW m, NEW from \in Nat, NEW i \in Nat, Agree(l, m, i),
           NEW j \in Nat, j <= i
    PROVE  ReplayFrom(vals, l, from)[j] = ReplayFrom(vals, m, from)[j]
<1> DEFINE f == ReplayFrom(vals, l, from)
           g == ReplayFrom(vals, m, from)
<1>1. \A k \in Nat : f[k] = IF k <= from THEN vals ELSE After(f[k - 1], l, k)
  BY ReplayDefined
<1>2. \A k \in Nat : g[k] = IF k <= from THEN vals ELSE After(g[k - 1], m, k)
  BY ReplayDefined
<1> HIDE DEF f, g
<1>3. Replays(f, vals, l, from, i)
  BY <1>1 DEF Replays
<1>4. Replays(g, vals, l, from, i)
  <2> SUFFICES ASSUME NEW k \in 0 .. i
               PROVE  g[k] = IF k <= from THEN vals ELSE After(g[k - 1], l, k)
    BY DEF Replays
  <2>1. ~ (k <= from) => k \in 1 .. i
    OBVIOUS
  <2>2. ~ (k <= from) => l[k] = m[k]
    BY <2>1 DEF Agree
  <2> QED  BY <1>2, <2>2 DEF After
<1>5. f[j] = g[j]
  BY <1>3, <1>4, ReplaysAgree
<1> QED  BY <1>5 DEF f, g

\* A replay may be interrupted and go on from the map it had.
LEMMA ReplayOn ==
    ASSUME NEW vals, NEW l, NEW from \in Nat, NEW i \in Nat, from <= i
    PROVE  ReplayFrom(ReplayFrom(vals, l, 0)[from], l, from)[i]
             = ReplayFrom(vals, l, 0)[i]
<1> DEFINE f == ReplayFrom(vals, l, 0)
           g == ReplayFrom(f[from], l, from)
           Bad == {k \in Nat : from <= k /\ f[k] # g[k]}
<1>1. \A k \in Nat : f[k] = IF k <= 0 THEN vals ELSE After(f[k - 1], l, k)
  BY ReplayDefined
<1> HIDE DEF f
<1>2. \A k \in Nat : g[k] = IF k <= from THEN f[from] ELSE After(g[k - 1], l, k)
  BY ReplayDefined
<1> HIDE DEF g
<1>3. ASSUME Bad # {}
      PROVE  FALSE
  <2>1. PICK j \in Bad : \A k \in Bad : j <= k
    <3>1. Bad \subseteq Nat
      OBVIOUS
    <3> HIDE DEF Bad
    <3> QED  BY <1>3, <3>1, LeastExists
  <2>2. j \in Nat /\ from <= j /\ f[j] # g[j]
    BY <2>1
  <2>3. CASE j = from
    BY <1>2, <2>2, <2>3
  <2>4. CASE j # from
    <3>1. j - 1 \in Nat /\ from <= j - 1 /\ ~ (j <= j - 1) /\ ~ (j <= from)
          /\ ~ (j <= 0)
      BY <2>2, <2>4
    <3>2. f[j - 1] = g[j - 1]
      BY <2>1, <3>1
    <3> QED  BY <1>1, <1>2, <2>2, <3>1, <3>2
  <2> QED  BY <2>3, <2>4
<1>4. f[i] = g[i]
  BY <1>3
<1> QED  BY <1>4 DEF f, g

---------------------------------------------------------------------------
(* The maps. *)

\* A node's map is the replay of what it has applied.
MapsReplayed ==
    \A n \in Node : values[n] = ReplayFrom(NoValues, log[n], 0)[lastApplied[n]]

\* What a step does to the map of node n: nothing, or applyCommitted().
MapMoves(n) ==
    \/ values'[n] = values[n] /\ lastApplied'[n] = lastApplied[n]
    \/ /\ lastApplied'[n] = MaxOf(lastApplied[n], commitIndex'[n])
       /\ values'[n] = ReplayFrom(values[n], log'[n], lastApplied[n])[lastApplied'[n]]

LEMMA ApplyMoves ==
    ASSUME TypeOK, NEW n \in Node, NEW l, NEW commit, NEW futures, NEW given,
           ApplyCommitted(n, l, commit, futures, given),
           log' = [log EXCEPT ![n] = l],
           commitIndex' = [commitIndex EXCEPT ![n] = commit]
    PROVE  \A m \in Node : MapMoves(m)
<1> DEFINE last == MaxOf(lastApplied[n], commit)
<1>1. log'[n] = l /\ commitIndex'[n] = commit
  BY DEF TypeOK, LogTypes
<1>2. /\ lastApplied' = [lastApplied EXCEPT ![n] = MaxOf(@, commit)]
      /\ values' = [values EXCEPT ![n] =
                       ReplayFrom(values[n], l, lastApplied[n])[last]]
  BY DEF ApplyCommitted
<1>3. DOMAIN values = Node /\ lastApplied \in [Node -> Nat]
  BY DEF TypeOK, LogTypes
<1> DEFINE v == ReplayFrom(values[n], l, lastApplied[n])[last]
<1>4. /\ values'[n] = v /\ lastApplied'[n] = last
      /\ \A m \in Node \ {n} : /\ values'[m] = values[m]
                               /\ lastApplied'[m] = lastApplied[m]
  <2> HIDE DEF v
  <2>1. values' = [values EXCEPT ![n] = v]
    BY <1>2 DEF v
  <2> QED  BY <1>2, <1>3, <2>1
<1> QED  BY <1>1, <1>4 DEF MapMoves

LEMMA EveryMapMoves ==
    ASSUME IInv, Next
    PROVE  \A m \in Node : MapMoves(m)
<1>0. TypeOK
  BY DEF IInv
<1>1. CASE UNCHANGED <<values, lastApplied>>
  BY <1>1 DEF MapMoves
<1>2. ASSUME NEW n \in Node, NEW r \in Request, SubmitCommand(n, r)
      PROVE  \A m \in Node : MapMoves(m)
  BY <1>0, <1>2, ApplyMoves DEF SubmitCommand
<1>3. ASSUME NEW n \in Node, NEW c \in appendCalls, AcceptAppend(n, c)
      PROVE  \A m \in Node : MapMoves(m)
  BY <1>0, <1>3, ApplyMoves DEF AcceptAppend
<1>4. ASSUME NEW n \in Node, NEW c \in appendReplies, AppendSucceeded(n, c)
      PROVE  \A m \in Node : MapMoves(m)
  <2>1. log' = [log EXCEPT ![n] = log[n]]
    BY <1>0, <1>4 DEF AppendSucceeded, TypeOK, LogTypes
  <2> QED  BY <1>0, <1>4, <2>1, ApplyMoves DEF AppendSucceeded
<1>5. ASSUME NEW n \in Node,
             \/ Start(n) \/ StartElectionRound(n) \/ HeartbeatTick(n)
             \/ \E r \in Request : RefuseCommand(n, r)
             \/ \E c \in voteCalls : RefuseOldCandidate(n, c) \/ Vote(n, c)
             \/ \E c \in voteReplies : StepDownOnVote(n, c) \/ IgnoreVote(n, c)
                                       \/ CountVote(n, c)
             \/ \E c \in appendCalls : RefuseOldLeader(n, c) \/ RefuseAppend(n, c)
             \/ \E c \in appendReplies :
                   StepDownOnAppend(n, c) \/ IgnoreAppendReply(n, c)
                   \/ AppendRefused(n, c)
      PROVE  UNCHANGED <<values, lastApplied>>
  BY <1>5 DEF Start, StartElectionRound, HeartbeatTick, RefuseCommand,
     RefuseOldCandidate, Vote, StepDownOnVote, IgnoreVote, CountVote,
     RefuseOldLeader, RefuseAppend, StepDownOnAppend, IgnoreAppendReply,
     AppendRefused, StepDown, logVars
<1>6. CASE CallFails
  BY <1>1, <1>6 DEF CallFails, logVars
<1>7. CASE Tasks
  BY <1>1, <1>2, <1>3, <1>4, <1>5, <1>7
     DEF Tasks, Timers, Client, HandleRequestVote, OnVoteResponse,
         HandleAppendEntries, OnAppendEntriesResponse
<1> QED  BY <1>6, <1>7 DEF Next

LEMMA MapsStayReplayed ==
    ASSUME IInv, LInv, MapsReplayed, Next
    PROVE  MapsReplayed'
<1>1. CommitsStay /\ TypeOK /\ TypeOK'
  BY LInvIsKept, EveryStepIsGood DEF IInv, GoodStep
<1> SUFFICES ASSUME NEW n \in Node
             PROVE  values'[n] = ReplayFrom(NoValues, log'[n], 0)[lastApplied'[n]]
  BY DEF MapsReplayed
<1>2. /\ lastApplied[n] \in Nat /\ commitIndex[n] \in Nat /\ commitIndex'[n] \in Nat
      /\ lastApplied[n] = commitIndex[n]
      /\ Agree(log'[n], log[n], commitIndex[n])
      /\ values[n] = ReplayFrom(NoValues, log[n], 0)[lastApplied[n]]
  BY <1>1, NodeTypes, NextTypes
     DEF LInv, LInvOf, AllApplied, CommitsStay, MapsReplayed
<1>3. values[n] = ReplayFrom(NoValues, log'[n], 0)[lastApplied[n]]
  BY <1>2, ReplaySame
<1>4. MapMoves(n)
  BY EveryMapMoves
<1>5. CASE values'[n] = values[n] /\ lastApplied'[n] = lastApplied[n]
  BY <1>3, <1>5
<1>6. CASE /\ lastApplied'[n] = MaxOf(lastApplied[n], commitIndex'[n])
           /\ values'[n] = ReplayFrom(values[n], log'[n],
                                      lastApplied[n])[lastApplied'[n]]
  <2>1. lastApplied'[n] \in Nat /\ lastApplied[n] <= lastApplied'[n]
    BY <1>2, <1>6 DEF MaxOf
  <2> QED  BY <1>2, <1>3, <1>6, <2>1, ReplayOn
<1> QED  BY <1>4, <1>5, <1>6 DEF MapMoves

\* In every cluster each map is what replaying the node's applied entries
\* from the start gives.
THEOREM MapsAreReplays == Spec => []MapsReplayed
<1>1. Init => MapsReplayed
  <2> SUFFICES ASSUME Init, NEW n \in Node
               PROVE  values[n] = ReplayFrom(NoValues, log[n], 0)[lastApplied[n]]
    BY DEF MapsReplayed
  <2>1. values[n] = NoValues /\ lastApplied[n] = 0
    BY DEF Init
  <2>2. ReplayFrom(NoValues, log[n], 0)[0] = NoValues
    BY ReplayDefined
  <2> QED  BY <2>1, <2>2
<1>2. IInv /\ LInv /\ MapsReplayed /\ [Next]_vars => MapsReplayed'
  <2>1. ASSUME MapsReplayed, UNCHANGED vars
        PROVE  MapsReplayed'
    BY <2>1 DEF MapsReplayed, vars, logVars
  <2> QED  BY <2>1, MapsStayReplayed
<1> QED  BY <1>1, <1>2, IInvHolds, HistoryKept, PTL DEF Spec

LEMMA MapsMatch ==
    ASSUME IInv, LInv, MapsReplayed
    PROVE  StateMachineSafety
<1> SUFFICES ASSUME NEW m \in Node, NEW n \in Node
             PROVE  /\ lastApplied[n] = commitIndex[n]
                    /\ commitIndex[m] <= commitIndex[n]
                         => SubSeq(log[n], 1, commitIndex[m]) = Committed(m)
                    /\ commitIndex[m] = commitIndex[n] => values[m] = values[n]
  BY DEF StateMachineSafety
<1>1. /\ lastApplied[m] = commitIndex[m] /\ lastApplied[n] = commitIndex[n]
      /\ log[m] \in Seq(LogEntry) /\ log[n] \in Seq(LogEntry)
      /\ commitIndex[m] \in Nat /\ commitIndex[n] \in Nat
  BY NodeTypes DEF IInv, LInv, LInvOf, AllApplied
<1>2. ASSUME commitIndex[m] <= commitIndex[n]
      PROVE  Agree(log[m], log[n], commitIndex[m])
  BY <1>2, CommitsMatch DEF CommitsAgree
<1>3. ASSUME commitIndex[m] <= commitIndex[n]
      PROVE  SubSeq(log[n], 1, commitIndex[m]) = Committed(m)
  BY <1>1, <1>2, <1>3, AgreeSubSeq DEF Committed
<1>4. ASSUME commitIndex[m] = commitIndex[n]
      PROVE  values[m] = values[n]
  <2>1. Agree(log[m], log[n], commitIndex[m])
    BY <1>1, <1>2, <1>4
  <2>2. ReplayFrom(NoValues, log[m], 0)[commitIndex[m]]
          = ReplayFrom(NoValues, log[n], 0)[commitIndex[m]]
    BY <1>1, <2>1, ReplaySame
  <2> QED  BY <1>1, <1>4, <2>2 DEF MapsReplayed
<1> QED  BY <1>1, <1>3, <1>4

\* applyCommitted() on every node: in every cluster no two nodes ever apply
\* different entries at an index, and nodes that have applied as many hold
\* the same map.
THEOREM NodesAgree == Spec => []StateMachineSafety
BY MapsMatch, IInvHolds, HistoryKept, MapsAreReplays, PTL

---------------------------------------------------------------------------
(* What is committed is there. *)

\* A commit index is within the log.
LEMMA CommitWithinLog ==
    ASSUME IInv, LInv, NEW n \in Node
    PROVE  commitIndex[n] <= Len(log[n]) /\ lastApplied[n] = commitIndex[n]
<1>1. PICK ballot, h : EInvOf(ballot) /\ LInvOf(h, ballot)
  BY DEF LInv
<1>2. log[n] \in Seq(LogEntry) /\ commitIndex[n] \in Nat
  BY NodeTypes DEF IInv
<1>3. /\ HistoryTypes(h) /\ Vouched(h, log[n], commitIndex[n], currentTerm[n])
      /\ AllApplied
  BY <1>1 DEF LInvOf, CommitsVouched
<1> QED  BY <1>2, <1>3, VouchedLess DEF AllApplied

\* Nor does a step leave a commit index beyond the log.
LEMMA NextCommitWithinLog ==
    ASSUME IInv, LInv, Next, NEW n \in Node
    PROVE  /\ commitIndex'[n] <= Len(log'[n]) /\ lastApplied'[n] = commitIndex'[n]
           /\ lastApplied[n] = commitIndex[n] /\ commitIndex[n] <= commitIndex'[n]
           /\ log'[n] \in Seq(LogEntry)
           /\ commitIndex[n] \in Nat /\ commitIndex'[n] \in Nat
<1>1. TypeOK /\ TypeOK' /\ LInv' /\ CommitsStay
  BY LInvIsKept, EveryStepIsGood DEF IInv, GoodStep
<1>2. PICK ballot, h : LInvOf(h, ballot)'
  BY <1>1 DEF LInv
<1>3. /\ log'[n] \in Seq(LogEntry) /\ commitIndex'[n] \in Nat
      /\ commitIndex[n] \in Nat
  BY <1>1, NodeTypes, NextTypes
<1>4. /\ HistoryTypes(h) /\ Vouched(h, log'[n], commitIndex'[n], currentTerm'[n])
      /\ lastApplied'[n] = commitIndex'[n]
  BY <1>2 DEF LInvOf, CommitsVouched, AllApplied
<1>5. commitIndex'[n] <= Len(log'[n])
  BY <1>3, <1>4, VouchedLess
<1>6. lastApplied[n] = commitIndex[n] /\ commitIndex[n] <= commitIndex'[n]
  BY <1>1, <1>3, CommitWithinLog DEF CommitsStay
<1> QED  BY <1>3, <1>4, <1>5, <1>6

---------------------------------------------------------------------------
(* The published snapshot.                                                 *)

\* What publishSnapshot() of node n writes.
Seen(n) ==
    [currentTerm |-> currentTerm[n], status |-> status[n],
     currentLeaderId |-> currentLeaderId[n],
     commitIndex |-> commitIndex[n], lastApplied |-> lastApplied[n],
     lastIndex |-> Len(log[n])]

\* The snapshots are those of all nodes, each up to date.
AllPublished == snapshot = [n \in Node |-> Seen(n)]

\* Only node n's own fields change, and it publishes them.
LEMMA PublishedByNode ==
    ASSUME AllPublished, NEW n \in Node, PublishSnapshot(n),
           \A m \in Node \ {n} : Seen(m)' = Seen(m)
    PROVE  AllPublished'
<1>1. snapshot' = [snapshot EXCEPT ![n] = Seen(n)']
  BY DEF PublishSnapshot, Seen, LastIndex
<1> QED  BY <1>1 DEF AllPublished

\* No node's fields change, and nothing is published.
LEMMA NothingToPublish ==
    ASSUME AllPublished, UNCHANGED <<currentTerm, status, currentLeaderId,
                                     commitIndex, lastApplied, log, snapshot>>
    PROVE  AllPublished'
BY DEF AllPublished, Seen

\* What a task changes of the fields readers see is the node's own.
OwnFields(n) ==
    \A m \in Node \ {n} :
        /\ currentTerm'[m] = currentTerm[m] /\ status'[m] = status[m]
        /\ currentLeaderId'[m] = currentLeaderId[m]
        /\ commitIndex'[m] = commitIndex[m] /\ lastApplied'[m] = lastApplied[m]
        /\ log'[m] = log[m]

LEMMA OwnFieldsSeen ==
    ASSUME NEW n \in Node, OwnFields(n), NEW m \in Node \ {n}
    PROVE  Seen(m)' = Seen(m)
BY DEF OwnFields, Seen

\* becomeFollower() and becomeLeader() change the node's own fields.
LEMMA RolesAreOwn ==
    ASSUME TypeOK, NEW n \in Node, NEW t,
           \/ BecomeFollower(n, t) /\ UNCHANGED currentLeaderId
           \/ BecomeLeader(n, t) /\ UNCHANGED currentTerm
    PROVE  \A m \in Node \ {n} :
              /\ currentTerm'[m] = currentTerm[m] /\ status'[m] = status[m]
              /\ currentLeaderId'[m] = currentLeaderId[m]
BY DEF BecomeFollower, BecomeLeader, TypeOK, ElectionTypes

LEMMA TimersPublish ==
    ASSUME TypeOK, AllPublished, NEW n \in Node, Timers(n)
    PROVE  AllPublished'
<1>1. CASE Start(n) \/ HeartbeatTick(n)
  BY <1>1, NothingToPublish DEF Start, HeartbeatTick, electionVars, logVars
<1>2. CASE StartElectionRound(n)
  <2>1. /\ currentTerm' = [currentTerm EXCEPT ![n] = @ + 1]
        /\ UNCHANGED <<commitIndex, lastApplied, log>>
        /\ PublishSnapshot(n)
    BY <1>2 DEF StartElectionRound, logVars
  <2>2. \/ /\ status' = [status EXCEPT ![n] = "LEADER"]
           /\ currentLeaderId' = [currentLeaderId EXCEPT ![n] = n]
        \/ /\ status' = [status EXCEPT ![n] = "CANDIDATE"]
           /\ currentLeaderId' = [currentLeaderId EXCEPT ![n] = Nil]
    BY <1>2 DEF StartElectionRound, BecomeLeader
  <2>3. OwnFields(n)
    BY <2>1, <2>2 DEF OwnFields, TypeOK, ElectionTypes
  <2> QED  BY <2>1, <2>3, OwnFieldsSeen, PublishedByNode
<1> QED  BY <1>1, <1>2 DEF Timers

LEMMA ClientPublishes ==
    ASSUME TypeOK, AllPublished, NEW n \in Node, Client(n)
    PROVE  AllPublished'
<1>1. ASSUME NEW r \in Request, RefuseCommand(n, r)
      PROVE  AllPublished'
  BY <1>1, NothingToPublish DEF RefuseCommand, electionVars, logVars
<1>2. ASSUME NEW r \in Request, SubmitCommand(n, r)
      PROVE  AllPublished'
  <2>1. /\ \E l : log' = [log EXCEPT ![n] = l]
        /\ \E i : commitIndex' = [commitIndex EXCEPT ![n] = i]
        /\ \E i : lastApplied' = [lastApplied EXCEPT ![n] = i]
        /\ UNCHANGED <<currentTerm, status, currentLeaderId>>
        /\ PublishSnapshot(n)
    BY <1>2 DEF SubmitCommand, ApplyCommitted, electionVars
  <2>2. OwnFields(n)
    BY <2>1 DEF OwnFields, TypeOK, LogTypes
  <2> QED  BY <2>1, <2>2, OwnFieldsSeen, PublishedByNode
<1> QED  BY <1>1, <1>2 DEF Client


\* What handlers that leave the log and the leader alone publish.
LEMMA RolePublishes ==
    ASSUME TypeOK, AllPublished, NEW n \in Node, NEW t,
           \/ BecomeFollower(n, t)
           \/ UNCHANGED <<currentTerm, status>>,
           UNCHANGED <<currentLeaderId, logVars>>, PublishSnapshot(n)
    PROVE  AllPublished'
<1>1. \A m \in Node \ {n} :
         currentTerm'[m] = currentTerm[m] /\ status'[m] = status[m]
  BY DEF BecomeFollower, TypeOK, ElectionTypes
<1>2. OwnFields(n)
  BY <1>1 DEF OwnFields, logVars
<1> QED  BY <1>2, OwnFieldsSeen, PublishedByNode

LEMMA RequestVotePublishes ==
    ASSUME TypeOK, AllPublished, NEW n \in Node, NEW p \in Node,
           HandleRequestVote(n, p)
    PROVE  AllPublished'
<1>1. PICK c \in voteCalls : RefuseOldCandidate(n, c) \/ Vote(n, c)
  BY DEF HandleRequestVote
<1>2. CASE RefuseOldCandidate(n, c)
  BY <1>2, NothingToPublish DEF RefuseOldCandidate, electionVars, logVars
<1>3. CASE Vote(n, c)
  <2>1. BecomeFollower(n, c.term) \/ UNCHANGED <<currentTerm, status>>
    BY <1>3 DEF Vote
  <2>2. UNCHANGED <<currentLeaderId, logVars>> /\ PublishSnapshot(n)
    BY <1>3 DEF Vote
  <2> QED  BY <2>1, <2>2, RolePublishes
<1> QED  BY <1>1, <1>2, <1>3

LEMMA StepDownPublishes ==
    ASSUME TypeOK, AllPublished, NEW n \in Node, NEW t, StepDown(n, t)
    PROVE  AllPublished'
<1>1. BecomeFollower(n, t) /\ UNCHANGED <<currentLeaderId, logVars>>
      /\ PublishSnapshot(n)
  BY DEF StepDown
<1> QED  BY <1>1, RolePublishes

LEMMA VoteResponsePublishes ==
    ASSUME TypeOK, AllPublished, NEW n \in Node, NEW p \in Node,
           OnVoteResponse(n, p)
    PROVE  AllPublished'
<1>1. PICK c \in voteReplies :
         StepDownOnVote(n, c) \/ IgnoreVote(n, c) \/ CountVote(n, c)
  BY DEF OnVoteResponse
<1>2. CASE StepDownOnVote(n, c)
  BY <1>2, StepDownPublishes DEF StepDownOnVote
<1>3. CASE IgnoreVote(n, c)
  BY <1>3, NothingToPublish DEF IgnoreVote, electionVars, logVars
<1>4. CASE CountVote(n, c)
  <2>1. UNCHANGED <<currentTerm, log, commitIndex, lastApplied>>
    BY <1>4 DEF CountVote, logVars
  <2>2. CASE UNCHANGED <<status, currentLeaderId, snapshot>>
    BY <2>1, <2>2, NothingToPublish
  <2>3. CASE BecomeLeader(n, currentTerm[n]) /\ PublishSnapshot(n)
    <3>1. OwnFields(n)
      BY <2>1, <2>3, RolesAreOwn DEF OwnFields
    <3> QED  BY <2>3, <3>1, OwnFieldsSeen, PublishedByNode
  <2> QED  BY <1>4, <2>2, <2>3 DEF CountVote
<1> QED  BY <1>1, <1>2, <1>3, <1>4

LEMMA AppendEntriesPublishes ==
    ASSUME TypeOK, AllPublished, NEW n \in Node, NEW p \in Node,
           HandleAppendEntries(n, p)
    PROVE  AllPublished'
<1>1. PICK c \in appendCalls :
         RefuseOldLeader(n, c) \/ RefuseAppend(n, c) \/ AcceptAppend(n, c)
  BY DEF HandleAppendEntries
<1>2. CASE RefuseOldLeader(n, c)
  BY <1>2, NothingToPublish DEF RefuseOldLeader, electionVars, logVars
<1>3. CASE RefuseAppend(n, c) \/ AcceptAppend(n, c)
  <2>1. FollowLeader(n, c) /\ PublishSnapshot(n)
    BY <1>3 DEF RefuseAppend, AcceptAppend
  <2>2. /\ \E l : log' = [log EXCEPT ![n] = l]
        /\ \E i : commitIndex' = [commitIndex EXCEPT ![n] = i]
        /\ \E i : lastApplied' = [lastApplied EXCEPT ![n] = i]
    <3>1. CASE RefuseAppend(n, c)
      <4>1. /\ log' = [log EXCEPT ![n] = log[n]]
            /\ commitIndex' = [commitIndex EXCEPT ![n] = commitIndex[n]]
            /\ lastApplied' = [lastApplied EXCEPT ![n] = lastApplied[n]]
        BY <3>1 DEF RefuseAppend, logVars, TypeOK, LogTypes
      <4> QED  BY <4>1
    <3>2. CASE AcceptAppend(n, c)
      BY <3>2 DEF AcceptAppend, ApplyCommitted
    <3> QED  BY <1>3, <3>1, <3>2
  <2>3. \A m \in Node \ {n} :
           /\ currentTerm'[m] = currentTerm[m] /\ status'[m] = status[m]
           /\ currentLeaderId'[m] = currentLeaderId[m]
    BY <2>1 DEF FollowLeader, BecomeFollower, TypeOK, ElectionTypes
  <2>4. OwnFields(n)
    BY <2>2, <2>3 DEF OwnFields, TypeOK, LogTypes
  <2> QED  BY <2>1, <2>4, OwnFieldsSeen, PublishedByNode
<1> QED  BY <1>1, <1>2, <1>3

LEMMA AppendResponsePublishes ==
    ASSUME TypeOK, AllPublished, NEW n \in Node, NEW p \in Node,
           OnAppendEntriesResponse(n, p)
    PROVE  AllPublished'
<1>1. PICK c \in appendReplies :
         \/ StepDownOnAppend(n, c) \/ IgnoreAppendReply(n, c)
         \/ AppendSucceeded(n, c) \/ AppendRefused(n, c)
  BY DEF OnAppendEntriesResponse
<1>2. CASE StepDownOnAppend(n, c)
  BY <1>2, StepDownPublishes DEF StepDownOnAppend
<1>3. CASE IgnoreAppendReply(n, c) \/ AppendRefused(n, c)
  BY <1>3, NothingToPublish
     DEF IgnoreAppendReply, AppendRefused, electionVars, logVars
<1>4. CASE AppendSucceeded(n, c)
  <2>1. /\ \E i : commitIndex' = [commitIndex EXCEPT ![n] = i]
        /\ \E i : lastApplied' = [lastApplied EXCEPT ![n] = i]
        /\ UNCHANGED <<log, electionVars>> /\ PublishSnapshot(n)
    BY <1>4 DEF AppendSucceeded, ApplyCommitted
  <2>2. OwnFields(n)
    BY <2>1 DEF OwnFields, electionVars, TypeOK, LogTypes
  <2> QED  BY <2>1, <2>2, OwnFieldsSeen, PublishedByNode
<1> QED  BY <1>1, <1>2, <1>3, <1>4

LEMMA EveryTaskPublishes ==
    ASSUME TypeOK, AllPublished, Next
    PROVE  AllPublished'
<1>1. CASE CallFails
  BY <1>1, NothingToPublish DEF CallFails, electionVars, logVars
<1>2. ASSUME NEW n \in Node, Timers(n) \/ Client(n)
      PROVE  AllPublished'
  BY <1>2, TimersPublish, ClientPublishes
<1>3. ASSUME NEW n \in Node, NEW p \in Node,
             \/ HandleRequestVote(n, p) \/ OnVoteResponse(n, p)
             \/ HandleAppendEntries(n, p) \/ OnAppendEntriesResponse(n, p)
      PROVE  AllPublished'
  BY <1>3, RequestVotePublishes, VoteResponsePublishes,
     AppendEntriesPublishes, AppendResponsePublishes
<1> QED  BY <1>1, <1>2, <1>3 DEF Next, Tasks

\* A reader of currentState() always sees the node as its last task left it:
\* publishSnapshot() is reached by every path of every task that changes
\* what it publishes.
THEOREM SnapshotsCurrent == Spec => []SnapshotIsCurrent
<1>1. Init => AllPublished
  BY DEF Init, AllPublished, Seen
<1>2. TypeOK /\ AllPublished /\ [Next]_vars => AllPublished'
  <2>1. ASSUME AllPublished, UNCHANGED vars PROVE AllPublished'
    BY <2>1, NothingToPublish DEF vars, electionVars, logVars
  <2> QED  BY <2>1, EveryTaskPublishes
<1>3. AllPublished => SnapshotIsCurrent
  BY DEF AllPublished, Seen, SnapshotIsCurrent
<1> QED  BY <1>1, <1>2, <1>3, TypeCorrect, PTL DEF Spec


---------------------------------------------------------------------------
(* The timers.                                                             *)

\* A candidate or leader has its own vote, and the timers fit the role of a
\* node whose start() ran before its first call came in.
Timed(n) ==
    /\ status[n] # "FOLLOWER" => votedFor[n] = n
    /\ n \notin SlowStart =>
          /\ started[n] /\ ~leakedHeartbeat[n]
          /\ heartbeat[n] <=> status[n] = "LEADER"
          /\ electionTimer[n] <=> status[n] # "LEADER"

\* Nobody asks itself for its vote.
PeersAsked == \A c \in voteCalls : c.from # c.to

TimersInv == PeersAsked /\ \A n \in Node : Timed(n)

\* The fields that Timed is about.
SameTimers(m) ==
    /\ status'[m] = status[m] /\ votedFor'[m] = votedFor[m]
    /\ started'[m] = started[m] /\ leakedHeartbeat'[m] = leakedHeartbeat[m]
    /\ heartbeat'[m] = heartbeat[m] /\ electionTimer'[m] = electionTimer[m]

LEMMA TimersOfOthers ==
    ASSUME TimersInv, NEW n \in Node, \A m \in Node \ {n} : SameTimers(m),
           Timed(n)', PeersAsked'
    PROVE  TimersInv'
<1>1. ASSUME NEW m \in Node PROVE Timed(m)'
  <2>1. CASE m = n
    BY <2>1
  <2>2. CASE m # n
    BY <2>2 DEF SameTimers, TimersInv, Timed
  <2> QED  BY <2>1, <2>2
<1> QED  BY <1>1 DEF TimersInv

LEMMA TimersUntouched ==
    ASSUME TimersInv, UNCHANGED <<electionVars, timerVars>>, PeersAsked'
    PROVE  TimersInv'
BY DEF TimersInv, Timed, electionVars, timerVars

\* becomeFollower() cancels the heartbeat and arms the election timeout.
LEMMA FollowersTime ==
    ASSUME TypeOK, TimersInv, NEW n \in Node, NEW t, NEW v,
           BecomeFollower(n, t), votedFor' = [votedFor EXCEPT ![n] = v],
           UNCHANGED <<leakedHeartbeat, started>>, PeersAsked'
    PROVE  TimersInv'
<1>1. \A m \in Node \ {n} : SameTimers(m)
  BY DEF BecomeFollower, SameTimers, TypeOK, ElectionTypes, TimerTypes
<1>2. Timed(n)'
  <2>1. /\ status'[n] = "FOLLOWER" /\ ~heartbeat'[n] /\ electionTimer'[n]
        /\ started'[n] = started[n] /\ leakedHeartbeat'[n] = leakedHeartbeat[n]
    BY DEF BecomeFollower, TypeOK, ElectionTypes, TimerTypes
  <2>2. Timed(n)
    BY DEF TimersInv
  <2> QED  BY <2>1, <2>2 DEF Timed
<1> QED  BY <1>1, <1>2, TimersOfOthers

\* A candidate that wins stops its election timeout and starts ticking.
LEMMA LeadersTime ==
    ASSUME TypeOK, TimersInv, NEW n \in Node, NEW t, BecomeLeader(n, t),
           status[n] # "LEADER", votedFor'[n] = n,
           \A m \in Node \ {n} : votedFor'[m] = votedFor[m],
           UNCHANGED started, PeersAsked'
    PROVE  TimersInv'
<1>1. \A m \in Node \ {n} : SameTimers(m)
  BY DEF BecomeLeader, SameTimers, TypeOK, ElectionTypes, TimerTypes
<1>2. Timed(n)'
  <2>1. /\ status'[n] = "LEADER" /\ heartbeat'[n] /\ ~electionTimer'[n]
        /\ started'[n] = started[n]
        /\ leakedHeartbeat'[n] = (leakedHeartbeat[n] \/ heartbeat[n])
    BY DEF BecomeLeader, TypeOK, ElectionTypes, TimerTypes
  <2>2. Timed(n)
    BY DEF TimersInv
  <2> QED  BY <2>1, <2>2 DEF Timed
<1> QED  BY <1>1, <1>2, TimersOfOthers

LEMMA StartTimes ==
    ASSUME TypeOK, TimersInv, NEW n \in Node, Start(n)
    PROVE  TimersInv'
<1>1. \A m \in Node \ {n} : SameTimers(m)
  BY DEF Start, SameTimers, TypeOK, TimerTypes, electionVars
<1>2. Timed(n)'
  BY DEF Start, TimersInv, Timed, electionVars
<1>3. PeersAsked'
  BY DEF Start, TimersInv, PeersAsked, voteVars
<1> QED  BY <1>1, <1>2, <1>3, TimersOfOthers

\* A node whose election times out is not the leader, so a node that is a
\* majority by itself leaves no heartbeat behind.
LEMMA StartElectionRoundTimes ==
    ASSUME TypeOK, TimersInv, NEW n \in Node, StartElectionRound(n)
    PROVE  TimersInv'
<1>1. /\ votedFor' = [votedFor EXCEPT ![n] = n]
      /\ electionTimer[n] /\ UNCHANGED started
  BY DEF StartElectionRound
<1>2. /\ votedFor'[n] = n
      /\ \A m \in Node \ {n} : votedFor'[m] = votedFor[m]
  BY <1>1 DEF TypeOK, ElectionTypes
<1>3. CASE BecomeLeader(n, currentTerm[n] + 1) /\ UNCHANGED voteCalls
  <2>1. \A m \in Node \ {n} : SameTimers(m)
    BY <1>1, <1>2, <1>3
       DEF BecomeLeader, SameTimers, TypeOK, ElectionTypes, TimerTypes
  <2>2. Timed(n)'
    <3>1. /\ status'[n] = "LEADER" /\ heartbeat'[n] /\ ~electionTimer'[n]
          /\ started'[n] = started[n]
          /\ leakedHeartbeat'[n] = (leakedHeartbeat[n] \/ heartbeat[n])
      BY <1>1, <1>3 DEF BecomeLeader, TypeOK, ElectionTypes, TimerTypes
    <3>2. Timed(n)
      BY DEF TimersInv
    <3> QED  BY <1>1, <1>2, <3>1, <3>2 DEF Timed
  <2>3. PeersAsked'
    BY <1>3 DEF TimersInv, PeersAsked
  <2> QED  BY <2>1, <2>2, <2>3, TimersOfOthers
<1>4. CASE /\ status' = [status EXCEPT ![n] = "CANDIDATE"]
           /\ voteCalls' = voteCalls \cup
                {[from |-> n, to |-> p, term |-> currentTerm[n] + 1,
                  lastLogIndex |-> LastIndex(log[n]),
                  lastLogTerm |-> LastTerm(log[n])] : p \in Peers(n)}
           /\ UNCHANGED <<electionTimer, heartbeat, leakedHeartbeat>>
  <2>1. \A m \in Node \ {n} : SameTimers(m)
    BY <1>1, <1>2, <1>4 DEF SameTimers, TypeOK, ElectionTypes, TimerTypes
  <2>2. Timed(n)'
    <3>1. status'[n] = "CANDIDATE"
      BY <1>4 DEF TypeOK, ElectionTypes
    <3>2. Timed(n)
      BY DEF TimersInv
    <3> QED  BY <1>1, <1>2, <1>4, <3>1, <3>2 DEF Timed
  <2>3. PeersAsked'
    BY <1>4 DEF TimersInv, PeersAsked, Peers
  <2> QED  BY <2>1, <2>2, <2>3, TimersOfOthers
<1> QED  BY <1>3, <1>4 DEF StartElectionRound

\* A leader asked for its vote in its own term refuses: it has voted for
\* itself.  So granting a vote never arms a leader's election timeout.
LEMMA VoteTimes ==
    ASSUME TypeOK, TimersInv, NEW n \in Node, NEW c \in voteCalls, Vote(n, c)
    PROVE  TimersInv'
<1> DEFINE granted == /\ ForgetVote(n, c.term) \in {Nil, c.from}
                      /\ IsLogUpToDate(log[n], c.lastLogTerm, c.lastLogIndex)
           v == IF granted THEN c.from ELSE ForgetVote(n, c.term)
<1>1. /\ c.to = n /\ c.term >= currentTerm[n] /\ voteCalls' = voteCalls \ {c}
      /\ votedFor' = [votedFor EXCEPT ![n] = v]
      /\ UNCHANGED <<leakedHeartbeat, started>>
  BY DEF Vote
<1>2. PeersAsked' /\ c.from # n
  BY <1>1 DEF TimersInv, PeersAsked
<1>3. CASE BecomeFollower(n, c.term)
  <2> HIDE DEF v
  <2> QED  BY <1>1, <1>2, <1>3, FollowersTime
<1>4. CASE /\ ~ (c.term > currentTerm[n])
           /\ electionTimer' = [electionTimer EXCEPT ![n] = @ \/ granted]
           /\ UNCHANGED <<status, heartbeat>>
  <2>1. ForgetVote(n, c.term) = votedFor[n]
    BY <1>4 DEF ForgetVote
  <2>2. Timed(n)
    BY DEF TimersInv
  <2>3. status[n] # "FOLLOWER" => ~granted
    BY <1>2, <2>1, <2>2, NodeAssumption DEF Timed
  <2>4. /\ votedFor'[n] = v /\ electionTimer'[n] = (electionTimer[n] \/ granted)
        /\ \A m \in Node \ {n} : /\ votedFor'[m] = votedFor[m]
                                 /\ electionTimer'[m] = electionTimer[m]
    <3> HIDE DEF v, granted
    <3> QED  BY <1>1, <1>4 DEF TypeOK, ElectionTypes, TimerTypes
  <2>5. \A m \in Node \ {n} : SameTimers(m)
    BY <1>1, <1>4, <2>4 DEF SameTimers
  <2>6. Timed(n)'
    <3>1. status[n] # "FOLLOWER" => v = votedFor[n]
      BY <2>1, <2>3
    <3> HIDE DEF v, granted
    <3>2. status[n] \in ServerStatus
      BY DEF TypeOK, ElectionTypes
    <3> QED  BY <1>1, <1>4, <2>2, <2>3, <2>4, <3>1, <3>2 DEF Timed, ServerStatus
  <2> QED  BY <1>2, <2>5, <2>6, TimersOfOthers
<1> QED  BY <1>3, <1>4 DEF Vote


LEMMA StepDownTimes ==
    ASSUME TypeOK, TimersInv, NEW n \in Node, NEW t, StepDown(n, t), PeersAsked'
    PROVE  TimersInv'
<1>1. /\ BecomeFollower(n, t)
      /\ votedFor' = [votedFor EXCEPT ![n] = ForgetVote(n, t)]
      /\ UNCHANGED <<leakedHeartbeat, started>>
  BY DEF StepDown
<1> QED  BY <1>1, FollowersTime

\* A new leader was a candidate, so it was not ticking yet.
LEMMA CountVoteTimes ==
    ASSUME TypeOK, TimersInv, NEW n \in Node, NEW c, CountVote(n, c)
    PROVE  TimersInv'
<1>1. /\ status[n] = "CANDIDATE" /\ votedFor[n] = n
      /\ UNCHANGED <<votedFor, started, voteCalls>> /\ PeersAsked'
  BY DEF CountVote, Counts, TimersInv, Timed, PeersAsked
<1>2. CASE BecomeLeader(n, currentTerm[n])
  BY <1>1, <1>2, LeadersTime
<1>3. CASE UNCHANGED <<status, electionTimer, heartbeat, leakedHeartbeat>>
  BY <1>1, <1>3 DEF TimersInv, Timed
<1> QED  BY <1>2, <1>3 DEF CountVote

\* Whoever hears from the leader of its term is a follower with an election
\* timeout running.
LEMMA FollowLeaderTimes ==
    ASSUME TypeOK, TimersInv, NEW n \in Node, NEW c, FollowLeader(n, c),
           PeersAsked'
    PROVE  TimersInv'
<1>1. /\ votedFor' = [votedFor EXCEPT ![n] = ForgetVote(n, c.term)]
      /\ UNCHANGED <<leakedHeartbeat, started>>
  BY DEF FollowLeader
<1>2. CASE BecomeFollower(n, c.term)
  BY <1>1, <1>2, FollowersTime
<1>3. CASE /\ ~StepsDown(n, c)
           /\ electionTimer' = [electionTimer EXCEPT ![n] = TRUE]
           /\ UNCHANGED <<status, heartbeat>>
  <2>1. \A m \in Node \ {n} : SameTimers(m)
    BY <1>1, <1>3 DEF SameTimers, TypeOK, ElectionTypes, TimerTypes
  <2>2. electionTimer'[n] /\ status[n] = "FOLLOWER"
    BY <1>3 DEF TypeOK, TimerTypes, StepsDown
  <2>3. Timed(n)'
    BY <1>1, <1>3, <2>2 DEF TimersInv, Timed
  <2> QED  BY <2>1, <2>3, TimersOfOthers
<1> QED  BY <1>2, <1>3 DEF FollowLeader

LEMMA AppendsTime ==
    ASSUME TypeOK, TimersInv, NEW n \in Node, NEW p \in Node,
           HandleAppendEntries(n, p) \/ OnAppendEntriesResponse(n, p)
    PROVE  TimersInv'
<1>1. PeersAsked'
  <2>1. UNCHANGED voteCalls
    BY DEF HandleAppendEntries, OnAppendEntriesResponse, voteVars,
           RefuseOldLeader, RefuseAppend, AcceptAppend, StepDownOnAppend,
           IgnoreAppendReply, AppendSucceeded, AppendRefused
  <2> QED  BY <2>1 DEF TimersInv, PeersAsked
<1>2. CASE HandleAppendEntries(n, p)
  <2>1. PICK c \in appendCalls :
           RefuseOldLeader(n, c) \/ RefuseAppend(n, c) \/ AcceptAppend(n, c)
    BY <1>2 DEF HandleAppendEntries
  <2>2. CASE RefuseOldLeader(n, c)
    BY <1>1, <2>2, TimersUntouched DEF RefuseOldLeader
  <2>3. CASE RefuseAppend(n, c) \/ AcceptAppend(n, c)
    BY <1>1, <2>3, FollowLeaderTimes DEF RefuseAppend, AcceptAppend
  <2> QED  BY <2>1, <2>2, <2>3
<1>3. CASE OnAppendEntriesResponse(n, p)
  <2>1. PICK c \in appendReplies :
           \/ StepDownOnAppend(n, c) \/ IgnoreAppendReply(n, c)
           \/ AppendSucceeded(n, c) \/ AppendRefused(n, c)
    BY <1>3 DEF OnAppendEntriesResponse
  <2>2. CASE StepDownOnAppend(n, c)
    BY <1>1, <2>2, StepDownTimes DEF StepDownOnAppend
  <2>3. CASE IgnoreAppendReply(n, c) \/ AppendSucceeded(n, c)
               \/ AppendRefused(n, c)
    BY <1>1, <2>3, TimersUntouched
       DEF IgnoreAppendReply, AppendSucceeded, AppendRefused
  <2> QED  BY <2>1, <2>2, <2>3
<1> QED  BY <1>2, <1>3

LEMMA VotesTime ==
    ASSUME TypeOK, TimersInv, NEW n \in Node, NEW p \in Node,
           HandleRequestVote(n, p) \/ OnVoteResponse(n, p)
    PROVE  TimersInv'
<1>1. CASE HandleRequestVote(n, p)
  <2>1. PICK c \in voteCalls : RefuseOldCandidate(n, c) \/ Vote(n, c)
    BY <1>1 DEF HandleRequestVote
  <2>2. CASE RefuseOldCandidate(n, c)
    <3>1. PeersAsked'
      BY <2>2 DEF RefuseOldCandidate, TimersInv, PeersAsked
    <3> QED  BY <2>2, <3>1, TimersUntouched DEF RefuseOldCandidate
  <2> QED  BY <2>1, <2>2, VoteTimes
<1>2. CASE OnVoteResponse(n, p)
  <2>1. PICK c \in voteReplies :
           StepDownOnVote(n, c) \/ IgnoreVote(n, c) \/ CountVote(n, c)
    BY <1>2 DEF OnVoteResponse
  <2>2. CASE StepDownOnVote(n, c)
    <3>1. PeersAsked' /\ StepDown(n, c.term)
      BY <2>2 DEF StepDownOnVote, TimersInv, PeersAsked
    <3> QED  BY <3>1, StepDownTimes
  <2>3. CASE IgnoreVote(n, c)
    <3>1. PeersAsked'
      BY <2>3 DEF IgnoreVote, TimersInv, PeersAsked
    <3> QED  BY <2>3, <3>1, TimersUntouched DEF IgnoreVote
  <2> QED  BY <2>1, <2>2, <2>3, CountVoteTimes
<1> QED  BY <1>1, <1>2

LEMMA EveryTaskTimes ==
    ASSUME TypeOK, TimersInv, Next
    PROVE  TimersInv'
<1>1. CASE CallFails
  <2>1. UNCHANGED <<electionVars, timerVars>> /\ voteCalls' \subseteq voteCalls
    BY <1>1 DEF CallFails, VoteCallFails, voteVars
  <2>2. PeersAsked'
    BY <2>1 DEF TimersInv, PeersAsked
  <2> QED  BY <2>1, <2>2, TimersUntouched
<1>2. ASSUME NEW n \in Node, Timers(n) \/ Client(n)
      PROVE  TimersInv'
  <2>1. CASE HeartbeatTick(n) \/ Client(n)
    <3>1. UNCHANGED <<electionVars, timerVars, voteCalls>>
      BY <2>1 DEF HeartbeatTick, Client, RefuseCommand, SubmitCommand, voteVars
    <3>2. PeersAsked'
      BY <3>1 DEF TimersInv, PeersAsked
    <3> QED  BY <3>1, <3>2, TimersUntouched
  <2> QED  BY <1>2, <2>1, StartTimes, StartElectionRoundTimes DEF Timers
<1>3. ASSUME NEW n \in Node, NEW p \in Node,
             \/ HandleRequestVote(n, p) \/ OnVoteResponse(n, p)
             \/ HandleAppendEntries(n, p) \/ OnAppendEntriesResponse(n, p)
      PROVE  TimersInv'
  BY <1>3, VotesTime, AppendsTime
<1> QED  BY <1>1, <1>2, <1>3 DEF Next, Tasks

LEMMA InitTimes == ASSUME Init PROVE TimersInv
BY DEF Init, TimersInv, Timed, PeersAsked

\* Timers fit the roles, and nobody is asked for its own vote, in every behavior
\* (becomeLeader(), becomeFollower() and start() in RaftNode.java).
THEOREM TimersHold == Spec => []TimersInv
<1>1. Init => TimersInv
  BY InitTimes
<1>2. TypeOK /\ TimersInv /\ [Next]_vars => TimersInv'
  <2>1. ASSUME TimersInv, UNCHANGED vars PROVE TimersInv'
    <3>1. UNCHANGED <<electionVars, timerVars, voteCalls>>
      BY <2>1 DEF vars, voteVars
    <3>2. PeersAsked'
      BY <2>1, <3>1 DEF TimersInv, PeersAsked
    <3> QED  BY <2>1, <3>1, <3>2, TimersUntouched
  <2> QED  BY <2>1, EveryTaskTimes
<1> QED  BY <1>1, <1>2, TypeCorrect, PTL DEF Spec

\* A leader ticks and cannot time out, everyone else can and does not tick,
\* and no heartbeat runs that no field refers to: becomeFollower(),
\* becomeLeader() and the two handlers that restart the election timeout
\* agree on this for every node that was started before its gRPC server.
THEOREM TimersFit == Spec => []TimersFitStatus
<1>1. TimersInv => TimersFitStatus
  BY DEF TimersInv, Timed, TimersFitStatus
<1> QED  BY <1>1, TimersHold, PTL


---------------------------------------------------------------------------
(* The futures of waiting clients.                                         *)

\* For futures registered at nodes with the given logs, roles and progress,
\* and answers given: a future is at a candidate or leader, for an entry of
\* its log that carries the future's command and is not applied, and its
\* client is unanswered.
Waiting(futures, logs, applied, roles, given) ==
    \A n \in Node : \A f \in futures[n] :
        /\ roles[n] # "FOLLOWER"
        /\ f.index \in applied[n] + 1 .. Len(logs[n])
        /\ logs[n][f.index].request = f.request
        /\ given[f.request] = Pending

\* No client waits twice.
WaitsOnce(futures) ==
    \A m, n \in Node : \A f \in futures[m] : \A g \in futures[n] :
        f.request = g.request => m = n /\ f = g

\* Every unanswered client has its future.
HasFuture(futures, given) ==
    \A r \in Request : given[r] = Pending
        => \E n \in Node : \E f \in futures[n] : f.request = r

FuturesFit ==
    /\ Waiting(pendingClients, log, lastApplied, status, answers)
    /\ WaitsOnce(pendingClients)
    /\ HasFuture(pendingClients, answers)

LEMMA AnswersDiffer ==
    /\ Unsent # Pending /\ NotLeader # Pending
    /\ \A i, x : Outcome(i, x) # Pending
<1>1. \A i, x : Outcome(i, x).status # "PENDING"
  BY DEF Outcome
<1>2. Pending.status = "PENDING" /\ Unsent.status # "PENDING"
      /\ NotLeader.status # "PENDING"
  BY DEF Pending, Unsent, NotLeader
<1> QED  BY <1>1, <1>2

\* What the futures are about changes at most at nodes that have none.
LEMMA FuturesUntouched ==
    ASSUME TypeOK, FuturesFit, UNCHANGED clientVars,
           \A n \in Node : pendingClients[n] # {} =>
              /\ log'[n] = log[n] /\ lastApplied'[n] = lastApplied[n]
              /\ status'[n] # "FOLLOWER"
    PROVE  FuturesFit'
<1>1. pendingClients' = pendingClients /\ answers' = answers
  BY DEF clientVars
<1>2. Waiting(pendingClients, log', lastApplied', status', answers)
  BY DEF FuturesFit, Waiting
<1> QED  BY <1>1, <1>2 DEF FuturesFit

\* failPendingClients() answers every future that it drops.
LEMMA FuturesFail ==
    ASSUME TypeOK, FuturesFit, NEW n \in Node,
           pendingClients' = [pendingClients EXCEPT ![n] = {}],
           \A r \in Request : answers'[r] = FailFutures(pendingClients[n])[r],
           \A m \in Node \ {n} : /\ log'[m] = log[m] /\ status'[m] = status[m]
                                 /\ lastApplied'[m] = lastApplied[m]
    PROVE  FuturesFit'
<1>1. /\ pendingClients'[n] = {}
      /\ \A m \in Node \ {n} : pendingClients'[m] = pendingClients[m]
  BY DEF TypeOK, ClientTypes
<1>2. \A m \in Node : \A f \in pendingClients[m] : f.request \in Request
  BY DEF TypeOK, ClientTypes
<1>3. \A r \in Request :
         answers'[r] = IF answers[r] = Pending
                          /\ \E f \in pendingClients[n] : f.request = r
                       THEN NotLeader ELSE answers[r]
  BY DEF FailFutures
<1>4. Waiting(pendingClients', log', lastApplied', status', answers')
  <2> SUFFICES ASSUME NEW m \in Node, NEW f \in pendingClients'[m]
               PROVE  /\ status'[m] # "FOLLOWER"
                      /\ f.index \in lastApplied'[m] + 1 .. Len(log'[m])
                      /\ log'[m][f.index].request = f.request
                      /\ answers'[f.request] = Pending
    BY DEF Waiting
  <2>1. m # n /\ f \in pendingClients[m]
    BY <1>1
  <2>2. /\ status[m] # "FOLLOWER"
        /\ f.index \in lastApplied[m] + 1 .. Len(log[m])
        /\ log[m][f.index].request = f.request
        /\ answers[f.request] = Pending
    BY <2>1 DEF FuturesFit, Waiting
  <2>3. ~ \E g \in pendingClients[n] : g.request = f.request
    BY <2>1 DEF FuturesFit, WaitsOnce
  <2> QED  BY <1>2, <1>3, <2>1, <2>2, <2>3
<1>5. WaitsOnce(pendingClients')
  BY <1>1 DEF FuturesFit, WaitsOnce
<1>6. HasFuture(pendingClients', answers')
  <2> SUFFICES ASSUME NEW r \in Request, answers'[r] = Pending
               PROVE  \E m \in Node : \E f \in pendingClients'[m] : f.request = r
    BY DEF HasFuture
  <2>1. answers[r] = Pending /\ ~ \E f \in pendingClients[n] : f.request = r
    BY <1>3, AnswersDiffer
  <2>2. PICK m \in Node : \E f \in pendingClients[m] : f.request = r
    BY <2>1 DEF FuturesFit, HasFuture
  <2> QED  BY <1>1, <2>1, <2>2
<1> QED  BY <1>4, <1>5, <1>6 DEF FuturesFit


\* applyCommitted() answers the futures of what it applies, and only those.
\* (The futures and the answers it starts from may be ones that its task has
\* just registered.)
LEMMA FuturesApply ==
    ASSUME NEW n \in Node, NEW futures, NEW given, NEW commit \in Nat, NEW l,
           lastApplied \in [Node -> Nat], DOMAIN pendingClients = Node,
           \A f \in futures : f.index \in Nat /\ f.request \in Request,
           \A m \in Node : \A f \in pendingClients[m] : f.request \in Request,
           UNCHANGED status,
           Waiting([pendingClients EXCEPT ![n] = futures], log', lastApplied,
                   status, given),
           WaitsOnce([pendingClients EXCEPT ![n] = futures]),
           HasFuture([pendingClients EXCEPT ![n] = futures], given),
           ApplyCommitted(n, l, commit, futures, given)
    PROVE  FuturesFit'
<1> DEFINE done == {f \in futures : f.index \in lastApplied[n] + 1 .. commit}
           before == ReplayFrom(values[n], l, lastApplied[n])
           pc == [pendingClients EXCEPT ![n] = futures]
<1>1. /\ lastApplied' = [lastApplied EXCEPT ![n] = MaxOf(@, commit)]
      /\ pendingClients' = [pendingClients EXCEPT ![n] = futures \ done]
  BY DEF ApplyCommitted
<1>2. \A r \in Request :
         answers'[r] =
           IF given[r] = Pending /\ \E f \in done : f.request = r
           THEN LET f == CHOOSE f \in done : f.request = r
                IN  Outcome(f.index, Apply(before[f.index - 1],
                                CommandOf[l[f.index].request]))
           ELSE given[r]
  BY DEF ApplyCommitted
<1>3. \A r \in Request :
         /\ given[r] = Pending /\ (\E f \in done : f.request = r)
               => answers'[r] # Pending
         /\ ~ (given[r] = Pending /\ \E f \in done : f.request = r)
               => answers'[r] = given[r]
  <2> HIDE DEF done, before
  <2> QED  BY <1>2, AnswersDiffer
<1> HIDE DEF before
<1>4. /\ pendingClients'[n] = pc[n] \ done /\ done \subseteq pc[n]
      /\ \A m \in Node \ {n} : pendingClients'[m] = pc[m]
      /\ \A m \in Node : \A f \in pc[m] : f.request \in Request
  BY <1>1
<1>5. Waiting(pendingClients', log', lastApplied', status', answers')
  <2> SUFFICES ASSUME NEW m \in Node, NEW f \in pendingClients'[m]
               PROVE  /\ status'[m] # "FOLLOWER"
                      /\ f.index \in lastApplied'[m] + 1 .. Len(log'[m])
                      /\ log'[m][f.index].request = f.request
                      /\ answers'[f.request] = Pending
    BY DEF Waiting
  <2>1. f \in pc[m] /\ f.request \in Request /\ (m = n => f \notin done)
    <3> HIDE DEF pc, done
    <3> QED  BY <1>4
  <2>2. /\ status[m] # "FOLLOWER"
        /\ f.index \in lastApplied[m] + 1 .. Len(log'[m])
        /\ log'[m][f.index].request = f.request
        /\ given[f.request] = Pending
    <3> HIDE DEF pc
    <3>1. Waiting(pc, log', lastApplied, status, given)
      BY DEF pc
    <3> QED  BY <2>1, <3>1 DEF Waiting
  <2>3. ~ \E g \in done : g.request = f.request
    <3> SUFFICES ASSUME NEW g \in done, g.request = f.request
                 PROVE  FALSE
      OBVIOUS
    <3>1. WaitsOnce(pc)
      BY DEF pc
    <3> HIDE DEF pc, done
    <3>2. g \in pc[n]
      BY <1>4
    <3>3. m = n /\ f = g
      BY <2>1, <3>1, <3>2 DEF WaitsOnce
    <3> QED  BY <2>1, <3>3
  <2>4. f.index \in lastApplied'[m] + 1 .. Len(log'[m])
    <3>1. CASE m # n
      BY <1>1, <2>2, <3>1
    <3>2. CASE m = n
      <4>1. f \in futures
        BY <2>1, <3>2
      <4>2. ~ (f.index \in lastApplied[n] + 1 .. commit) /\ f.index \in Nat
        BY <2>1, <3>2, <4>1
      <4>3. lastApplied'[n] = MaxOf(lastApplied[n], commit)
        BY <1>1
      <4> QED  BY <2>2, <3>2, <4>2, <4>3 DEF MaxOf
    <3> QED  BY <3>1, <3>2
  <2> HIDE DEF pc, done
  <2> QED  BY <1>3, <2>1, <2>2, <2>3, <2>4
<1>6. WaitsOnce(pendingClients')
  <2>1. WaitsOnce(pc)
    BY DEF pc
  <2> HIDE DEF pc, done
  <2>2. \A m \in Node : pendingClients'[m] \subseteq pc[m]
    BY <1>4
  <2> QED  BY <2>1, <2>2 DEF WaitsOnce
<1>7. HasFuture(pendingClients', answers')
  <2>1. HasFuture(pc, given)
    BY DEF pc
  <2> HIDE DEF pc, done
  <2> SUFFICES ASSUME NEW r \in Request, answers'[r] = Pending
               PROVE  \E m \in Node : \E f \in pendingClients'[m] : f.request = r
    BY DEF HasFuture
  <2>2. given[r] = Pending /\ ~ \E f \in done : f.request = r
    BY <1>3
  <2>3. PICK m \in Node : \E f \in pc[m] : f.request = r
    BY <2>1, <2>2 DEF HasFuture
  <2>4. PICK f \in pc[m] : f.request = r
    BY <2>3
  <2>5. f \in pendingClients'[m]
    BY <1>4, <2>2, <2>4
  <2> QED  BY <2>4, <2>5
<1> QED  BY <1>5, <1>6, <1>7 DEF FuturesFit


LEMMA StepDownFails ==
    ASSUME TypeOK, FuturesFit, NEW n \in Node, NEW t, BecomeFollower(n, t),
           FailPendingClients(n), UNCHANGED logVars
    PROVE  FuturesFit'
<1>1. /\ pendingClients' = [pendingClients EXCEPT ![n] = {}]
      /\ answers' = FailFutures(pendingClients[n])
  BY DEF FailPendingClients
<1>2. \A m \in Node \ {n} : /\ log'[m] = log[m] /\ status'[m] = status[m]
                            /\ lastApplied'[m] = lastApplied[m]
  BY DEF BecomeFollower, logVars, TypeOK, ElectionTypes
<1> QED  BY <1>1, <1>2, FuturesFail

\* A step that changes no role, log or progress leaves the futures as they are.
LEMMA FuturesAside ==
    ASSUME TypeOK, FuturesFit, UNCHANGED <<clientVars, status, logVars>>
    PROVE  FuturesFit'
<1>1. \A n \in Node : pendingClients[n] # {} => status[n] # "FOLLOWER"
  BY DEF FuturesFit, Waiting
<1> QED  BY <1>1, FuturesUntouched DEF logVars

LEMMA RefuseCommandWaits ==
    ASSUME TypeOK, FuturesFit, NEW n \in Node, NEW r \in Request,
           RefuseCommand(n, r)
    PROVE  FuturesFit'
<1>1. /\ answers[r] = Unsent
      /\ answers' = [answers EXCEPT ![r] = NotLeader]
      /\ UNCHANGED <<status, log, lastApplied, pendingClients>>
  BY DEF RefuseCommand, electionVars, logVars
<1>2. \A q \in Request : (answers'[q] = Pending) = (answers[q] = Pending)
  BY <1>1, AnswersDiffer DEF TypeOK, ClientTypes
<1>3. \A m \in Node : \A f \in pendingClients[m] : f.request \in Request
  BY DEF TypeOK, ClientTypes
<1> QED  BY <1>1, <1>2, <1>3 DEF FuturesFit, Waiting, HasFuture

\* submitCommand() registers the client's future for the entry it appends,
\* and then applies what the entry may commit in a cluster of one.
LEMMA SubmitCommandWaits ==
    ASSUME IInv, LInv, FuturesFit, NEW n \in Node, NEW r \in Request,
           SubmitCommand(n, r)
    PROVE  FuturesFit'
<1> DEFINE l == Append(log[n], [term |-> currentTerm[n], request |-> r])
           i == Len(l)
           commit == AdvanceCommit(n, l, matchIndex[n], commitIndex[n])
           futures == {f \in pendingClients[n] : f.index # i}
                         \cup {[index |-> i, request |-> r]}
           given == [answers EXCEPT ![r] = Pending]
           pc == [pendingClients EXCEPT ![n] = futures]
<1>1. /\ answers[r] = Unsent /\ status[n] = "LEADER"
      /\ log' = [log EXCEPT ![n] = l] /\ UNCHANGED status
      /\ ApplyCommitted(n, l, commit, futures, given)
  BY DEF SubmitCommand, LastIndex, electionVars
<1>2. /\ log[n] \in Seq(LogEntry) /\ Len(log[n]) \in Nat /\ currentTerm[n] \in Nat
      /\ commitIndex[n] \in Nat
  BY NodeTypes DEF IInv
<1>3. /\ l \in Seq(LogEntry) /\ i = Len(log[n]) + 1 /\ l[i].request = r
      /\ \A j \in 1 .. Len(log[n]) : l[j] = log[n][j]
  BY <1>2, AppendProperties DEF LogEntry
<1>4. commit \in Nat
  <2> HIDE DEF l
  <2> QED  BY <1>2, <1>3, AdvanceCommitType
<1>5. /\ lastApplied \in [Node -> Nat] /\ DOMAIN pendingClients = Node
      /\ pendingClients \in [Node -> SUBSET [index : Nat, request : Request]]
      /\ DOMAIN answers = Request /\ log \in [Node -> Seq(LogEntry)]
  BY DEF IInv, TypeOK, LogTypes, ClientTypes
<1> HIDE DEF l, i, commit
<1>6. \A f \in futures : f.index \in Nat /\ f.request \in Request
  BY <1>2, <1>3, <1>5
<1>7. \A m \in Node : \A f \in pendingClients[m] :
         /\ f.request \in Request /\ f.request # r
         /\ m = n => f.index \in lastApplied[n] + 1 .. Len(log[n])
  BY <1>1, <1>5, AnswersDiffer DEF FuturesFit, Waiting
<1>8. futures = pendingClients[n] \cup {[index |-> i, request |-> r]}
  <2>1. \A f \in pendingClients[n] : f.index # i
    BY <1>2, <1>3, <1>5, <1>7
  <2> QED  BY <2>1
<1> DEFINE new == [index |-> i, request |-> r]
<1>9. /\ new \in pc[n] /\ new.index = i /\ new.request = r
      /\ \A f \in pc[n] : f \in pendingClients[n] \/ f = new
      /\ pendingClients[n] \subseteq pc[n]
      /\ \A m \in Node \ {n} : pc[m] = pendingClients[m]
  BY <1>5, <1>8
<1>10. /\ given[r] = Pending
       /\ \A q \in Request : q # r => given[q] = answers[q]
  BY <1>5
<1> HIDE DEF futures, given, pc, new
<1>11. Waiting(pc, log', lastApplied, status, given)
  <2> SUFFICES ASSUME NEW m \in Node, NEW f \in pc[m]
               PROVE  /\ status[m] # "FOLLOWER"
                      /\ f.index \in lastApplied[m] + 1 .. Len(log'[m])
                      /\ log'[m][f.index].request = f.request
                      /\ given[f.request] = Pending
    BY DEF Waiting
  <2>1. CASE f \in pendingClients[m]
    <3>1. /\ status[m] # "FOLLOWER"
          /\ f.index \in lastApplied[m] + 1 .. Len(log[m])
          /\ log[m][f.index].request = f.request
          /\ answers[f.request] = Pending
      BY <2>1 DEF FuturesFit, Waiting
    <3>2. given[f.request] = Pending
      BY <1>7, <1>10, <2>1, <3>1
    <3>3. /\ f.index \in lastApplied[m] + 1 .. Len(log'[m])
          /\ log'[m][f.index].request = f.request
      <4>1. CASE m # n
        BY <1>1, <3>1, <4>1
      <4>2. CASE m = n
        <5>1. log'[n] = l
          BY <1>1, <1>5
        <5>2. lastApplied[n] \in Nat /\ Len(l) = i
          BY <1>5 DEF i
        <5>3. f.index \in 1 .. Len(log[n]) /\ f.index \in lastApplied[n] + 1 .. i
          BY <1>2, <1>3, <3>1, <4>2, <5>2
        <5> QED  BY <1>3, <3>1, <4>2, <5>1, <5>2, <5>3
      <4> QED  BY <4>1, <4>2
    <3> QED  BY <3>1, <3>2, <3>3
  <2>2. CASE m = n /\ f = new
    <3>1. log'[n] = l
      BY <1>1, <1>5
    <3>2. lastApplied[n] \in Nat /\ lastApplied[n] <= Len(log[n])
      BY <1>5, CommitWithinLog
    <3>3. Len(l) = i
      BY DEF i
    <3>4. i \in lastApplied[n] + 1 .. i
      BY <1>2, <1>3, <3>2
    <3> QED  BY <1>1, <1>3, <1>9, <1>10, <2>2, <3>1, <3>3, <3>4
  <2> QED  BY <1>9, <2>1, <2>2
<1>12. WaitsOnce(pc)
  <2> SUFFICES ASSUME NEW m \in Node, NEW k \in Node,
                      NEW f \in pc[m], NEW g \in pc[k], f.request = g.request
               PROVE  m = k /\ f = g
    BY DEF WaitsOnce
  <2>1. CASE f \in pendingClients[m] /\ g \in pendingClients[k]
    BY <2>1 DEF FuturesFit, WaitsOnce
  <2>2. CASE f \notin pendingClients[m] \/ g \notin pendingClients[k]
    <3>1. f.request = r
      BY <1>9, <2>2
    <3>2. f \notin pendingClients[m] /\ g \notin pendingClients[k]
      BY <1>7, <3>1
    <3> QED  BY <1>9, <3>2
  <2> QED  BY <2>1, <2>2
<1>13. HasFuture(pc, given)
  <2> SUFFICES ASSUME NEW q \in Request, given[q] = Pending
               PROVE  \E m \in Node : \E f \in pc[m] : f.request = q
    BY DEF HasFuture
  <2>1. CASE q = r
    BY <1>9, <2>1
  <2>2. CASE q # r
    <3>1. PICK m \in Node : \E f \in pendingClients[m] : f.request = q
      BY <1>10, <2>2 DEF FuturesFit, HasFuture
    <3> QED  BY <1>9, <3>1
  <2> QED  BY <2>1, <2>2
<1>14. \A m \in Node : \A f \in pendingClients[m] : f.request \in Request
  BY <1>7
<1> QED
  BY <1>1, <1>4, <1>5, <1>6, <1>11, <1>12, <1>13, <1>14, FuturesApply DEF pc


LEMMA TimersWait ==
    ASSUME TypeOK, FuturesFit, NEW n \in Node, Timers(n)
    PROVE  FuturesFit'
<1>1. CASE Start(n) \/ HeartbeatTick(n)
  BY <1>1, FuturesAside DEF Start, HeartbeatTick, electionVars
<1>2. CASE StartElectionRound(n)
  <2>1. /\ UNCHANGED <<clientVars, log, lastApplied>>
        /\ \/ status' = [status EXCEPT ![n] = "LEADER"]
           \/ status' = [status EXCEPT ![n] = "CANDIDATE"]
    BY <1>2 DEF StartElectionRound, BecomeLeader, logVars
  <2>2. \A m \in Node : status[m] # "FOLLOWER" => status'[m] # "FOLLOWER"
    BY <2>1 DEF TypeOK, ElectionTypes
  <2>3. \A m \in Node : pendingClients[m] # {} => status[m] # "FOLLOWER"
    BY DEF FuturesFit, Waiting
  <2> QED  BY <2>1, <2>2, <2>3, FuturesUntouched
<1> QED  BY <1>1, <1>2 DEF Timers

LEMMA VotesWait ==
    ASSUME TypeOK, FuturesFit, NEW n \in Node, NEW p \in Node,
           HandleRequestVote(n, p) \/ OnVoteResponse(n, p)
    PROVE  FuturesFit'
<1>1. ASSUME NEW c, RefuseOldCandidate(n, c) \/ IgnoreVote(n, c)
      PROVE  FuturesFit'
  BY <1>1, FuturesAside DEF RefuseOldCandidate, IgnoreVote, electionVars
<1>2. ASSUME NEW c, Vote(n, c)
      PROVE  FuturesFit'
  <2>1. CASE BecomeFollower(n, c.term) /\ FailPendingClients(n)
    BY <1>2, <2>1, StepDownFails DEF Vote
  <2>2. CASE UNCHANGED <<status, clientVars>>
    BY <1>2, <2>2, FuturesAside DEF Vote
  <2> QED  BY <1>2, <2>1, <2>2 DEF Vote
<1>3. ASSUME NEW c, StepDownOnVote(n, c)
      PROVE  FuturesFit'
  BY <1>3, StepDownFails DEF StepDownOnVote, StepDown
<1>4. ASSUME NEW c, CountVote(n, c)
      PROVE  FuturesFit'
  <2>1. /\ UNCHANGED <<clientVars, log, lastApplied>>
        /\ \/ status' = [status EXCEPT ![n] = "LEADER"]
           \/ status' = status
    BY <1>4 DEF CountVote, BecomeLeader, logVars
  <2>2. \A m \in Node : status[m] # "FOLLOWER" => status'[m] # "FOLLOWER"
    BY <2>1 DEF TypeOK, ElectionTypes
  <2>3. \A m \in Node : pendingClients[m] # {} => status[m] # "FOLLOWER"
    BY DEF FuturesFit, Waiting
  <2> QED  BY <2>1, <2>2, <2>3, FuturesUntouched
<1> QED
  BY <1>1, <1>2, <1>3, <1>4 DEF HandleRequestVote, OnVoteResponse

\* A follower has no futures, so applying entries answers none; and a leader
\* that hears of another one drops its own.
LEMMA AcceptAppendDrops ==
    ASSUME TypeOK, FuturesFit, NEW n \in Node, NEW c, AcceptAppend(n, c)
    PROVE  /\ pendingClients' = [pendingClients EXCEPT ![n] = {}]
           /\ \A r \in Request : answers'[r] = FailFutures(pendingClients[n])[r]
           /\ \A m \in Node \ {n} : lastApplied'[m] = lastApplied[m]
<1> DEFINE l      == Merge(log[n], c.prevLogIndex, c.entries)
           commit == FollowerCommit(c, commitIndex[n])
           given  == IF StepsDown(n, c) THEN FailFutures(pendingClients[n])
                     ELSE answers
<1>1. IF StepsDown(n, c)
      THEN ApplyCommitted(n, l, commit, {}, FailFutures(pendingClients[n]))
      ELSE ApplyCommitted(n, l, commit, pendingClients[n], answers)
  BY DEF AcceptAppend
<1> HIDE DEF l, commit
<1>2. ~StepsDown(n, c) => pendingClients[n] = {}
  BY DEF FuturesFit, Waiting, StepsDown
<1>3. ApplyCommitted(n, l, commit, {}, given)
  BY <1>1, <1>2
<1>4. pendingClients' = [pendingClients EXCEPT ![n] = {}]
  BY <1>3 DEF ApplyCommitted
<1>5. \A r \in Request : answers'[r] = given[r]
  <2>1. \A r \in Request :
           \/ answers'[r] = given[r]
           \/ \E f \in {g \in {} : g.index \in lastApplied[n] + 1 .. commit} :
                 f.request = r
    <3> HIDE DEF given
    <3> QED  BY <1>3, Zenon DEF ApplyCommitted
  <2> QED  BY <2>1
<1>6. \A r \in Request : given[r] = FailFutures(pendingClients[n])[r]
  BY <1>2 DEF FailFutures
<1>7. \A m \in Node \ {n} : lastApplied'[m] = lastApplied[m]
  BY <1>3 DEF ApplyCommitted, TypeOK, LogTypes
<1> QED  BY <1>4, <1>5, <1>6, <1>7

LEMMA AcceptAppendFails ==
    ASSUME TypeOK, FuturesFit, NEW n \in Node, NEW c, AcceptAppend(n, c)
    PROVE  FuturesFit'
<1>1. \A m \in Node \ {n} : log'[m] = log[m] /\ status'[m] = status[m]
  <2>1. /\ FollowLeader(n, c)
        /\ \E l : log' = [log EXCEPT ![n] = l]
    BY DEF AcceptAppend
  <2> QED
    BY <2>1 DEF FollowLeader, BecomeFollower, TypeOK, ElectionTypes, LogTypes
<1> QED  BY <1>1, AcceptAppendDrops, FuturesFail

LEMMA AppendEntriesWait ==
    ASSUME TypeOK, FuturesFit, NEW n \in Node, NEW p \in Node,
           HandleAppendEntries(n, p)
    PROVE  FuturesFit'
<1>1. PICK c \in appendCalls :
         RefuseOldLeader(n, c) \/ RefuseAppend(n, c) \/ AcceptAppend(n, c)
  BY DEF HandleAppendEntries
<1>2. CASE RefuseOldLeader(n, c)
  BY <1>2, FuturesAside DEF RefuseOldLeader, electionVars
<1>3. CASE RefuseAppend(n, c)
  <2>1. CASE StepsDown(n, c)
    BY <1>3, <2>1, StepDownFails DEF RefuseAppend, FollowLeader
  <2>2. CASE ~StepsDown(n, c)
    BY <1>3, <2>2, FuturesAside DEF RefuseAppend, FollowLeader
  <2> QED  BY <2>1, <2>2
<1> QED  BY <1>1, <1>2, <1>3, AcceptAppendFails

LEMMA AppendSucceededWaits ==
    ASSUME TypeOK, FuturesFit, NEW n \in Node, NEW c \in appendReplies,
           c.from \in Node, AppendSucceeded(n, c)
    PROVE  FuturesFit'
<1> DEFINE match  == [matchIndex[n] EXCEPT ![c.from] =
                         MaxOf(@, Replicated(n, c))]
           commit == AdvanceCommit(n, log[n], match, commitIndex[n])
<1>1. /\ UNCHANGED <<status, log>>
      /\ ApplyCommitted(n, log[n], commit, pendingClients[n], answers)
  BY DEF AppendSucceeded, electionVars
<1>2. commit \in Nat
  <2> HIDE DEF match
  <2>1. log[n] \in Seq(LogEntry) /\ commitIndex[n] \in Nat
    BY NodeTypes
  <2> QED  BY <2>1, AdvanceCommitType
<1> HIDE DEF commit
<1>3. /\ lastApplied \in [Node -> Nat] /\ DOMAIN pendingClients = Node
      /\ pendingClients \in [Node -> SUBSET [index : Nat, request : Request]]
  BY DEF TypeOK, LogTypes, ClientTypes
<1>4. /\ [pendingClients EXCEPT ![n] = pendingClients[n]] = pendingClients
      /\ \A f \in pendingClients[n] : f.index \in Nat /\ f.request \in Request
      /\ \A m \in Node : \A f \in pendingClients[m] : f.request \in Request
  BY <1>3
<1>5. /\ Waiting(pendingClients, log', lastApplied, status, answers)
      /\ WaitsOnce(pendingClients) /\ HasFuture(pendingClients, answers)
  BY <1>1 DEF FuturesFit
<1> QED  BY <1>1, <1>2, <1>3, <1>4, <1>5, FuturesApply

LEMMA AppendResponsesWait ==
    ASSUME TypeOK, FuturesFit, NEW n \in Node, NEW p \in Node,
           OnAppendEntriesResponse(n, p)
    PROVE  FuturesFit'
<1>1. PICK c \in appendReplies :
         /\ c.from = p
         /\ \/ StepDownOnAppend(n, c) \/ IgnoreAppendReply(n, c)
            \/ AppendSucceeded(n, c) \/ AppendRefused(n, c)
  BY DEF OnAppendEntriesResponse
<1>2. CASE StepDownOnAppend(n, c)
  BY <1>2, StepDownFails DEF StepDownOnAppend, StepDown
<1>3. CASE IgnoreAppendReply(n, c) \/ AppendRefused(n, c)
  BY <1>3, FuturesAside DEF IgnoreAppendReply, AppendRefused, electionVars
<1> QED  BY <1>1, <1>2, <1>3, AppendSucceededWaits

LEMMA EveryTaskWaits ==
    ASSUME IInv, LInv, FuturesFit, Next
    PROVE  FuturesFit'
<1>0. TypeOK
  BY DEF IInv
<1>1. CASE CallFails
  BY <1>0, <1>1, FuturesAside DEF CallFails, electionVars
<1>2. ASSUME NEW n \in Node, Timers(n) \/ Client(n)
      PROVE  FuturesFit'
  BY <1>0, <1>2, TimersWait, RefuseCommandWaits, SubmitCommandWaits DEF Client
<1>3. ASSUME NEW n \in Node, NEW p \in Node,
             \/ HandleRequestVote(n, p) \/ OnVoteResponse(n, p)
             \/ HandleAppendEntries(n, p) \/ OnAppendEntriesResponse(n, p)
      PROVE  FuturesFit'
  BY <1>0, <1>3, VotesWait, AppendEntriesWait, AppendResponsesWait
<1> QED  BY <1>1, <1>2, <1>3 DEF Next, Tasks

\* A future waits for an unapplied entry with its own command, at a node that
\* leads or is up for election, and each unanswered client has exactly one.
THEOREM FuturesAreFit == Spec => []FuturesFit
<1>1. Init => FuturesFit
  <2> SUFFICES ASSUME Init PROVE FuturesFit
    OBVIOUS
  <2>1. \A n \in Node : pendingClients[n] = {}
    BY DEF Init
  <2>2. \A r \in Request : answers[r] # Pending
    BY AnswersDiffer DEF Init
  <2> QED  BY <2>1, <2>2 DEF FuturesFit, Waiting, WaitsOnce, HasFuture
<1>2. IInv /\ LInv /\ FuturesFit /\ [Next]_vars => FuturesFit'
  <2>1. ASSUME IInv, FuturesFit, UNCHANGED vars PROVE FuturesFit'
    <3>1. UNCHANGED <<clientVars, status, logVars>>
      BY <2>1 DEF vars, electionVars
    <3> QED  BY <2>1, <3>1, FuturesAside DEF IInv
  <2> QED  BY <2>1, EveryTaskWaits
<1> QED  BY <1>1, <1>2, IInvHolds, HistoryKept, PTL DEF Spec

\* Nobody waits in vain: every path of every task that drops a registered
\* future completes it first, with a result or with NOT_LEADER.
THEOREM NobodyIsForgotten == Spec => []NobodyForgotten
<1>1. FuturesFit => NobodyForgotten
  BY DEF FuturesFit, HasFuture, NobodyForgotten
<1> QED  BY <1>1, FuturesAreFit, PTL


---------------------------------------------------------------------------
(* Where clients wait.                                                     *)

\* Only a leader has clients waiting, each for an entry of the leader's own
\* term: true of every node whose start() ran before its first call.
OwnEntries ==
    \A n \in Node \ SlowStart : \A f \in pendingClients[n] :
        status[n] = "LEADER" /\ log[n][f.index].term = currentTerm[n]

SameEntries(m) ==
    /\ log'[m] = log[m] /\ status'[m] = status[m]
    /\ currentTerm'[m] = currentTerm[m]

LEMMA OwnKept ==
    ASSUME OwnEntries,
           \A m \in Node \ SlowStart :
              /\ pendingClients'[m] \subseteq pendingClients[m]
              /\ pendingClients'[m] # {} => SameEntries(m)
    PROVE  OwnEntries'
BY DEF OwnEntries, SameEntries

LEMMA OwnAside ==
    ASSUME OwnEntries, UNCHANGED <<pendingClients, log, status, currentTerm>>
    PROVE  OwnEntries'
BY DEF OwnEntries

\* Nobody waits at a node that is becoming leader.
LEMMA OwnElected ==
    ASSUME TypeOK, OwnEntries, NEW n \in Node, UNCHANGED <<pendingClients, log>>,
           n \in SlowStart \/ status[n] # "LEADER",
           \A m \in Node \ {n} : /\ status'[m] = status[m]
                                 /\ currentTerm'[m] = currentTerm[m]
    PROVE  OwnEntries'
<1>1. n \notin SlowStart => pendingClients[n] = {}
  BY DEF OwnEntries
<1> QED  BY <1>1, OwnKept DEF SameEntries

\* Nobody waits at a node that steps down.
LEMMA OwnDropped ==
    ASSUME TypeOK, OwnEntries, NEW n \in Node,
           pendingClients' = [pendingClients EXCEPT ![n] = {}],
           \A m \in Node \ {n} : SameEntries(m)
    PROVE  OwnEntries'
<1>1. /\ pendingClients'[n] = {}
      /\ \A m \in Node \ {n} : pendingClients'[m] = pendingClients[m]
  BY DEF TypeOK, ClientTypes
<1> QED  BY <1>1, OwnKept

LEMMA OwnStepDown ==
    ASSUME TypeOK, OwnEntries, NEW n \in Node, NEW t, BecomeFollower(n, t),
           FailPendingClients(n), UNCHANGED logVars
    PROVE  OwnEntries'
<1>1. pendingClients' = [pendingClients EXCEPT ![n] = {}]
  BY DEF FailPendingClients
<1>2. \A m \in Node \ {n} : SameEntries(m)
  BY DEF BecomeFollower, logVars, SameEntries, TypeOK, ElectionTypes
<1> QED  BY <1>1, <1>2, OwnDropped

LEMMA OwnTimers ==
    ASSUME TypeOK, TimersInv, OwnEntries, NEW n \in Node, Timers(n)
    PROVE  OwnEntries'
<1>1. CASE Start(n) \/ HeartbeatTick(n)
  BY <1>1, OwnAside DEF Start, HeartbeatTick, electionVars, logVars, clientVars
<1>2. CASE StartElectionRound(n)
  <2>1. /\ UNCHANGED <<pendingClients, log>> /\ electionTimer[n]
        /\ currentTerm' = [currentTerm EXCEPT ![n] = @ + 1]
        /\ \/ status' = [status EXCEPT ![n] = "LEADER"]
           \/ status' = [status EXCEPT ![n] = "CANDIDATE"]
    BY <1>2 DEF StartElectionRound, BecomeLeader, logVars, clientVars
  <2>2. n \in SlowStart \/ status[n] # "LEADER"
    BY <2>1 DEF TimersInv, Timed
  <2>3. \A m \in Node \ {n} : /\ status'[m] = status[m]
                              /\ currentTerm'[m] = currentTerm[m]
    BY <2>1 DEF TypeOK, ElectionTypes
  <2> QED  BY <2>1, <2>2, <2>3, OwnElected
<1> QED  BY <1>1, <1>2 DEF Timers

LEMMA OwnSubmit ==
    ASSUME IInv, FuturesFit, OwnEntries, NEW n \in Node, NEW r \in Request,
           SubmitCommand(n, r)
    PROVE  OwnEntries'
<1> DEFINE l == Append(log[n], [term |-> currentTerm[n], request |-> r])
           i == Len(l)
           commit == AdvanceCommit(n, l, matchIndex[n], commitIndex[n])
           futures == {f \in pendingClients[n] : f.index # i}
                         \cup {[index |-> i, request |-> r]}
           given == [answers EXCEPT ![r] = Pending]
<1>1. /\ status[n] = "LEADER" /\ log' = [log EXCEPT ![n] = l]
      /\ UNCHANGED <<status, currentTerm>>
      /\ ApplyCommitted(n, l, commit, futures, given)
  BY DEF SubmitCommand, LastIndex, electionVars
<1>2. /\ log[n] \in Seq(LogEntry) /\ Len(log[n]) \in Nat /\ currentTerm[n] \in Nat
  BY NodeTypes DEF IInv
<1>3. /\ i = Len(log[n]) + 1 /\ l[i].term = currentTerm[n]
      /\ \A j \in 1 .. Len(log[n]) : l[j] = log[n][j]
  BY <1>2, AppendProperties DEF LogEntry
<1> HIDE DEF l, commit, given
<1>4. \E D : pendingClients' = [pendingClients EXCEPT ![n] = futures \ D]
  <2> HIDE DEF futures
  <2> QED  BY <1>1 DEF ApplyCommitted
<1>5. /\ DOMAIN pendingClients = Node /\ log \in [Node -> Seq(LogEntry)]
      /\ lastApplied[n] \in Nat
  BY DEF IInv, TypeOK, ClientTypes, LogTypes
<1>6. ASSUME NEW m \in Node \ SlowStart, NEW f \in pendingClients'[m]
      PROVE  status'[m] = "LEADER" /\ log'[m][f.index].term = currentTerm'[m]
  <2>1. CASE m # n
    BY <1>1, <1>4, <1>5, <1>6, <2>1 DEF OwnEntries
  <2>2. CASE m = n
    <3>1. f \in pendingClients[n] \/ f.index = i
      BY <1>4, <1>5, <1>6, <2>2
    <3>2. log'[n] = l
      BY <1>1, <1>5
    <3>3. CASE f.index = i
      BY <1>1, <1>3, <2>2, <3>2, <3>3
    <3>4. CASE f \in pendingClients[n]
      <4>1. f.index \in lastApplied[n] + 1 .. Len(log[n])
        BY <3>4 DEF FuturesFit, Waiting
      <4>2. l[f.index] = log[n][f.index]
        BY <1>2, <1>3, <1>5, <4>1
      <4> QED  BY <1>1, <2>2, <3>2, <3>4, <4>2 DEF OwnEntries
    <3> QED  BY <3>1, <3>3, <3>4
  <2> QED  BY <2>1, <2>2
<1> QED  BY <1>6 DEF OwnEntries

LEMMA OwnVotes ==
    ASSUME TypeOK, OwnEntries, NEW n \in Node, NEW p \in Node,
           HandleRequestVote(n, p) \/ OnVoteResponse(n, p)
    PROVE  OwnEntries'
<1>1. ASSUME NEW c, RefuseOldCandidate(n, c) \/ IgnoreVote(n, c)
      PROVE  OwnEntries'
  BY <1>1, OwnAside
     DEF RefuseOldCandidate, IgnoreVote, electionVars, logVars, clientVars
<1>2. ASSUME NEW c, Vote(n, c)
      PROVE  OwnEntries'
  <2>1. CASE BecomeFollower(n, c.term) /\ FailPendingClients(n)
    BY <1>2, <2>1, OwnStepDown DEF Vote
  <2>2. CASE UNCHANGED <<currentTerm, status, clientVars>>
    BY <1>2, <2>2, OwnAside DEF Vote, logVars, clientVars
  <2> QED  BY <1>2, <2>1, <2>2 DEF Vote
<1>3. ASSUME NEW c, StepDownOnVote(n, c)
      PROVE  OwnEntries'
  BY <1>3, OwnStepDown DEF StepDownOnVote, StepDown
<1>4. ASSUME NEW c, CountVote(n, c)
      PROVE  OwnEntries'
  <2>1. /\ UNCHANGED <<pendingClients, log, currentTerm>>
        /\ status[n] # "LEADER"
        /\ \/ status' = [status EXCEPT ![n] = "LEADER"]
           \/ status' = status
    BY <1>4 DEF CountVote, Counts, BecomeLeader, logVars, clientVars
  <2>2. \A m \in Node \ {n} : status'[m] = status[m]
    BY <2>1 DEF TypeOK, ElectionTypes
  <2> QED  BY <2>1, <2>2, OwnElected
<1> QED
  BY <1>1, <1>2, <1>3, <1>4 DEF HandleRequestVote, OnVoteResponse


LEMMA OwnAppendEntries ==
    ASSUME TypeOK, FuturesFit, OwnEntries, NEW n \in Node, NEW p \in Node,
           HandleAppendEntries(n, p)
    PROVE  OwnEntries'
<1>1. PICK c \in appendCalls :
         RefuseOldLeader(n, c) \/ RefuseAppend(n, c) \/ AcceptAppend(n, c)
  BY DEF HandleAppendEntries
<1>2. CASE RefuseOldLeader(n, c)
  BY <1>2, OwnAside DEF RefuseOldLeader, electionVars, logVars, clientVars
<1>3. CASE RefuseAppend(n, c) \/ AcceptAppend(n, c)
  <2>1. FollowLeader(n, c)
    BY <1>3 DEF RefuseAppend, AcceptAppend
  <2>2. ~StepsDown(n, c) => pendingClients[n] = {}
    BY DEF FuturesFit, Waiting, StepsDown
  <2>3. pendingClients' = [pendingClients EXCEPT ![n] = {}]
    <3>1. CASE RefuseAppend(n, c)
      <4>1. IF StepsDown(n, c) THEN FailPendingClients(n) ELSE UNCHANGED clientVars
        BY <3>1 DEF RefuseAppend
      <4>2. pendingClients[n] = {}
               => pendingClients = [pendingClients EXCEPT ![n] = {}]
        BY DEF TypeOK, ClientTypes
      <4> QED  BY <2>2, <4>1, <4>2 DEF FailPendingClients, clientVars
    <3>2. CASE AcceptAppend(n, c)
      BY <3>2, AcceptAppendDrops
    <3> QED  BY <1>3, <3>1, <3>2
  <2>4. \E l : log' = [log EXCEPT ![n] = l]
    <3>1. CASE RefuseAppend(n, c)
      <4>1. log' = [log EXCEPT ![n] = log[n]]
        BY <3>1 DEF RefuseAppend, logVars, TypeOK, LogTypes
      <4> QED  BY <4>1
    <3>2. CASE AcceptAppend(n, c)
      BY <3>2 DEF AcceptAppend
    <3> QED  BY <1>3, <3>1, <3>2
  <2>5. \A m \in Node \ {n} : SameEntries(m)
    BY <2>1, <2>4 DEF SameEntries, FollowLeader, BecomeFollower, TypeOK,
                      ElectionTypes, LogTypes
  <2> QED  BY <2>3, <2>5, OwnDropped
<1> QED  BY <1>1, <1>2, <1>3

LEMMA OwnAppendResponses ==
    ASSUME TypeOK, OwnEntries, NEW n \in Node, NEW p \in Node,
           OnAppendEntriesResponse(n, p)
    PROVE  OwnEntries'
<1>1. PICK c \in appendReplies :
         \/ StepDownOnAppend(n, c) \/ IgnoreAppendReply(n, c)
         \/ AppendSucceeded(n, c) \/ AppendRefused(n, c)
  BY DEF OnAppendEntriesResponse
<1>2. CASE StepDownOnAppend(n, c)
  BY <1>2, OwnStepDown DEF StepDownOnAppend, StepDown
<1>3. CASE IgnoreAppendReply(n, c) \/ AppendRefused(n, c)
  BY <1>3, OwnAside
     DEF IgnoreAppendReply, AppendRefused, electionVars, logVars, clientVars
<1>4. CASE AppendSucceeded(n, c)
  <2>1. UNCHANGED <<log, status, currentTerm>>
    BY <1>4 DEF AppendSucceeded, electionVars
  <2>2. \E D : pendingClients' = [pendingClients EXCEPT ![n] = @ \ D]
    BY <1>4 DEF AppendSucceeded, ApplyCommitted
  <2>3. \A m \in Node : pendingClients'[m] \subseteq pendingClients[m]
    BY <2>2 DEF TypeOK, ClientTypes
  <2> QED  BY <2>1, <2>3, OwnKept DEF SameEntries
<1> QED  BY <1>1, <1>2, <1>3, <1>4

LEMMA EveryTaskOwns ==
    ASSUME IInv, TimersInv, FuturesFit, OwnEntries, Next
    PROVE  OwnEntries'
<1>0. TypeOK
  BY DEF IInv
<1>1. CASE CallFails
  BY <1>1, OwnAside DEF CallFails, electionVars, logVars, clientVars
<1>2. ASSUME NEW n \in Node, Timers(n)
      PROVE  OwnEntries'
  BY <1>0, <1>2, OwnTimers
<1>3. ASSUME NEW n \in Node, Client(n)
      PROVE  OwnEntries'
  <2>1. ASSUME NEW r \in Request, RefuseCommand(n, r)
        PROVE  OwnEntries'
    BY <2>1, OwnAside DEF RefuseCommand, electionVars, logVars
  <2> QED  BY <1>3, <2>1, OwnSubmit DEF Client
<1>4. ASSUME NEW n \in Node, NEW p \in Node,
             \/ HandleRequestVote(n, p) \/ OnVoteResponse(n, p)
             \/ HandleAppendEntries(n, p) \/ OnAppendEntriesResponse(n, p)
      PROVE  OwnEntries'
  BY <1>0, <1>4, OwnVotes, OwnAppendEntries, OwnAppendResponses
<1> QED  BY <1>1, <1>2, <1>3, <1>4 DEF Next, Tasks

\* In every behavior the futures of a node that was started before its first
\* call wait only while it leads, for entries of its own term: becomeFollower()
\* fails them all.
THEOREM EntriesAreOwn == Spec => []OwnEntries
<1>1. Init => OwnEntries
  BY DEF Init, OwnEntries
<1>2. IInv /\ TimersInv /\ FuturesFit /\ OwnEntries /\ [Next]_vars => OwnEntries'
  <2>1. ASSUME OwnEntries, UNCHANGED vars PROVE OwnEntries'
    BY <2>1, OwnAside DEF vars, electionVars, logVars, clientVars
  <2> QED  BY <2>1, EveryTaskOwns
<1> QED  BY <1>1, <1>2, IInvHolds, TimersHold, FuturesAreFit, PTL DEF Spec

\* When every node's start() has run before the first call reaches it, only a
\* leader has clients waiting, each for the entry its submission became, of
\* the leader's own term and not applied: no role change keeps a future.
\* (EntriesAreOwn and FuturesAreFit say the same of the nodes outside
\* SlowStart in any cluster; of the others it is false, as the run
\* raft_late_start shows.)
THEOREM ClientsWaitAtLeaders ==
    ASSUME SlowStart = {}
    PROVE  Spec => []PendingAtLeader
<1>1. TypeOK /\ FuturesFit /\ OwnEntries => PendingAtLeader
  <2> SUFFICES ASSUME TypeOK, FuturesFit, OwnEntries,
                      NEW n \in Node, NEW f \in pendingClients[n]
               PROVE  /\ status[n] = "LEADER"
                      /\ f.index \in lastApplied[n] + 1 .. Len(log[n])
                      /\ log[n][f.index]
                           = [term |-> currentTerm[n], request |-> f.request]
                      /\ answers[f.request] = Pending
    BY DEF PendingAtLeader
  <2>1. /\ f.index \in lastApplied[n] + 1 .. Len(log[n])
        /\ log[n][f.index].request = f.request
        /\ answers[f.request] = Pending
    BY DEF FuturesFit, Waiting
  <2>2. status[n] = "LEADER" /\ log[n][f.index].term = currentTerm[n]
    BY DEF OwnEntries
  <2>3. log[n][f.index] \in LogEntry
    <3>1. log[n] \in Seq(LogEntry) /\ lastApplied[n] \in Nat
      BY DEF TypeOK, LogTypes
    <3>2. f.index \in 1 .. Len(log[n])
      BY <2>1, <3>1, LenProperties
    <3> QED  BY <3>1, <3>2, ElementOfSeq
  <2> QED  BY <2>1, <2>2, <2>3 DEF LogEntry
<1> QED  BY <1>1, TypeCorrect, FuturesAreFit, EntriesAreOwn, PTL


---------------------------------------------------------------------------
(* What clients are told.                                                  *)

\* What a step of node n does to the answers: a result is one of applying,
\* in this step, the entry that the client's command became.
AnswerMoves(n) ==
    \A r \in Request :
        \/ answers'[r] = answers[r]
        \/ answers[r] = Unsent /\ answers'[r] = Pending
        \/ /\ answers[r] \in {Unsent, Pending}
           /\ \/ answers'[r] = NotLeader
              \/ \E i \in lastApplied[n] + 1 .. lastApplied'[n] :
                    /\ log'[n][i].request = r
                    /\ answers'[r] =
                         Outcome(i, Apply(ReplayFrom(values[n], log'[n],
                                                     lastApplied[n])[i - 1],
                                          CommandOf[r]))

\* No other node's progress changes.
OneApplies(n) == \A m \in Node \ {n} : lastApplied'[m] = lastApplied[m]

LEMMA ApplyAnswers ==
    ASSUME lastApplied \in [Node -> Nat], NEW n \in Node, NEW l,
           NEW commit \in Nat, NEW futures, NEW given,
           \A f \in futures : l[f.index].request = f.request /\ f.index \in Nat,
           \A r \in Request : \/ given[r] = answers[r]
                              \/ answers[r] = Unsent /\ given[r] = Pending,
           log'[n] = l, ApplyCommitted(n, l, commit, futures, given)
    PROVE  AnswerMoves(n) /\ OneApplies(n)
<1> DEFINE done == {f \in futures : f.index \in lastApplied[n] + 1 .. commit}
           before == ReplayFrom(values[n], l, lastApplied[n])
<1>1. lastApplied' = [lastApplied EXCEPT ![n] = MaxOf(@, commit)]
  BY DEF ApplyCommitted
<1>2. OneApplies(n) /\ lastApplied'[n] = MaxOf(lastApplied[n], commit)
  BY <1>1 DEF OneApplies
<1>3. ASSUME NEW r \in Request
      PROVE  \/ answers'[r] = given[r]
             \/ /\ given[r] = Pending
                /\ \E f \in done : /\ f.request = r
                                   /\ answers'[r] = Outcome(f.index,
                                        Apply(before[f.index - 1],
                                              CommandOf[l[f.index].request]))
  <2>1. answers'[r] =
          IF given[r] = Pending /\ \E f \in done : f.request = r
          THEN LET f == CHOOSE f \in done : f.request = r
               IN  Outcome(f.index, Apply(before[f.index - 1],
                               CommandOf[l[f.index].request]))
          ELSE given[r]
    BY DEF ApplyCommitted
  <2> HIDE DEF done, before
  <2>2. CASE given[r] = Pending /\ \E f \in done : f.request = r
    <3> DEFINE f == CHOOSE g \in done : g.request = r
    <3>1. f \in done /\ f.request = r
      BY <2>2
    <3>2. answers'[r] = Outcome(f.index, Apply(before[f.index - 1],
                                    CommandOf[l[f.index].request]))
      BY <2>1, <2>2
    <3> HIDE DEF f
    <3> QED  BY <2>2, <3>1, <3>2
  <2> QED  BY <2>1, <2>2
<1>4. ASSUME NEW r \in Request, NEW f \in done, f.request = r
      PROVE  /\ f.index \in lastApplied[n] + 1 .. lastApplied'[n]
             /\ l[f.index].request = r
  BY <1>2, <1>4 DEF MaxOf
<1> HIDE DEF done
<1>5. ASSUME NEW r \in Request, answers'[r] # given[r]
      PROVE  /\ given[r] = Pending
             /\ \E i \in lastApplied[n] + 1 .. lastApplied'[n] :
                   /\ l[i].request = r
                   /\ answers'[r] = Outcome(i, Apply(before[i - 1], CommandOf[r]))
  <2>1. PICK f \in done : /\ f.request = r
                          /\ answers'[r] = Outcome(f.index,
                               Apply(before[f.index - 1],
                                     CommandOf[l[f.index].request]))
    BY <1>3, <1>5
  <2>2. /\ f.index \in lastApplied[n] + 1 .. lastApplied'[n]
        /\ l[f.index].request = r
    BY <1>4, <2>1
  <2> HIDE DEF before
  <2> QED  BY <1>3, <1>5, <2>1, <2>2
<1>6. AnswerMoves(n)
  <2> SUFFICES ASSUME NEW r \in Request
               PROVE  \/ answers'[r] = answers[r]
                      \/ answers[r] = Unsent /\ answers'[r] = Pending
                      \/ /\ answers[r] \in {Unsent, Pending}
                         /\ \E i \in lastApplied[n] + 1 .. lastApplied'[n] :
                               /\ l[i].request = r
                               /\ answers'[r] =
                                    Outcome(i, Apply(before[i - 1], CommandOf[r]))
    BY DEF AnswerMoves
  <2> HIDE DEF before
  <2>1. CASE answers'[r] = given[r]
    BY <2>1
  <2>2. CASE answers'[r] # given[r]
    <3>1. answers[r] \in {Unsent, Pending}
      BY <1>5, <2>2
    <3> QED  BY <1>5, <2>2, <3>1
  <2> QED  BY <2>1, <2>2
<1> QED  BY <1>2, <1>6

\* failPendingClients() answers only those who wait.
LEMMA FailedAnswers ==
    ASSUME NEW n \in Node, NEW futures,
           \A r \in Request : answers'[r] = FailFutures(futures)[r]
    PROVE  AnswerMoves(n)
BY DEF FailFutures, AnswerMoves

LEMMA SubmitCommandAnswers ==
    ASSUME IInv, FuturesFit, NEW n \in Node, NEW r \in Request,
           SubmitCommand(n, r)
    PROVE  AnswerMoves(n) /\ OneApplies(n)
<1> DEFINE l == Append(log[n], [term |-> currentTerm[n], request |-> r])
           i == Len(l)
           commit == AdvanceCommit(n, l, matchIndex[n], commitIndex[n])
           futures == {f \in pendingClients[n] : f.index # i}
                         \cup {[index |-> i, request |-> r]}
           given == [answers EXCEPT ![r] = Pending]
<1>1. /\ answers[r] = Unsent /\ log' = [log EXCEPT ![n] = l]
      /\ ApplyCommitted(n, l, commit, futures, given)
  BY DEF SubmitCommand, LastIndex
<1>2. /\ log[n] \in Seq(LogEntry) /\ Len(log[n]) \in Nat /\ currentTerm[n] \in Nat
      /\ commitIndex[n] \in Nat
  BY NodeTypes DEF IInv
<1>3. /\ l \in Seq(LogEntry) /\ i = Len(log[n]) + 1 /\ l[i].request = r
      /\ \A j \in 1 .. Len(log[n]) : l[j] = log[n][j]
  BY <1>2, AppendProperties DEF LogEntry
<1>4. commit \in Nat
  <2> HIDE DEF l
  <2> QED  BY <1>2, <1>3, AdvanceCommitType
<1>5. /\ lastApplied \in [Node -> Nat] /\ DOMAIN answers = Request
      /\ log \in [Node -> Seq(LogEntry)]
  BY DEF IInv, TypeOK, LogTypes, ClientTypes
<1> HIDE DEF l, i, commit
<1>6. \A f \in pendingClients[n] :
         f.index \in lastApplied[n] + 1 .. Len(log[n])
         /\ log[n][f.index].request = f.request
  BY DEF FuturesFit, Waiting
<1>7. \A f \in futures : l[f.index].request = f.request /\ f.index \in Nat
  <2> SUFFICES ASSUME NEW f \in futures
               PROVE  l[f.index].request = f.request /\ f.index \in Nat
    OBVIOUS
  <2>1. CASE f \in pendingClients[n]
    <3>1. f.index \in 1 .. Len(log[n])
      BY <1>2, <1>5, <1>6, <2>1
    <3> QED  BY <1>3, <1>6, <2>1, <3>1
  <2>2. CASE f = [index |-> i, request |-> r]
    BY <1>2, <1>3, <2>2
  <2> QED  BY <2>1, <2>2
<1>8. \A q \in Request : \/ given[q] = answers[q]
                         \/ answers[q] = Unsent /\ given[q] = Pending
  BY <1>1, <1>5
<1>9. log'[n] = l
  BY <1>1, <1>5
<1> HIDE DEF futures, given
<1> QED  BY <1>1, <1>4, <1>5, <1>7, <1>8, <1>9, ApplyAnswers

LEMMA AppendSucceededAnswers ==
    ASSUME TypeOK, FuturesFit, NEW n \in Node, NEW c, AppendSucceeded(n, c)
    PROVE  AnswerMoves(n) /\ OneApplies(n)
<1> DEFINE match  == [matchIndex[n] EXCEPT ![c.from] =
                         MaxOf(@, Replicated(n, c))]
           commit == AdvanceCommit(n, log[n], match, commitIndex[n])
<1>1. /\ UNCHANGED log
      /\ ApplyCommitted(n, log[n], commit, pendingClients[n], answers)
  BY DEF AppendSucceeded
<1>2. log[n] \in Seq(LogEntry) /\ commitIndex[n] \in Nat
  BY NodeTypes
<1>3. commit \in Nat
  <2> HIDE DEF match
  <2> QED  BY <1>2, AdvanceCommitType
<1>4. lastApplied \in [Node -> Nat]
  BY DEF TypeOK, LogTypes
<1>5. \A f \in pendingClients[n] :
         log[n][f.index].request = f.request /\ f.index \in Nat
  BY <1>4 DEF FuturesFit, Waiting
<1> HIDE DEF commit
<1> QED  BY <1>1, <1>3, <1>4, <1>5, ApplyAnswers


LEMMA StepDownAnswers ==
    ASSUME NEW n \in Node, FailPendingClients(n), UNCHANGED logVars
    PROVE  AnswerMoves(n) /\ OneApplies(n)
<1>1. \A r \in Request : answers'[r] = FailFutures(pendingClients[n])[r]
  BY DEF FailPendingClients
<1> QED  BY <1>1, FailedAnswers DEF OneApplies, logVars

LEMMA NoAnswers ==
    ASSUME NEW n \in Node, UNCHANGED <<answers, lastApplied>>
    PROVE  AnswerMoves(n) /\ OneApplies(n)
BY DEF AnswerMoves, OneApplies

LEMMA EveryAnswerMoves ==
    ASSUME IInv, FuturesFit, Next
    PROVE  \E n \in Node : AnswerMoves(n) /\ OneApplies(n)
<1>0. TypeOK
  BY DEF IInv
<1>1. CASE UNCHANGED <<answers, lastApplied>>
  <2>1. PICK n \in Node : TRUE
    BY NodeAssumption
  <2> QED  BY <1>1, <2>1, NoAnswers
<1>2. ASSUME NEW n \in Node, NEW r \in Request, RefuseCommand(n, r)
      PROVE  AnswerMoves(n) /\ OneApplies(n)
  <2>1. /\ answers[r] = Unsent
        /\ answers' = [answers EXCEPT ![r] = NotLeader]
        /\ UNCHANGED lastApplied
    BY <1>2 DEF RefuseCommand, logVars
  <2> QED  BY <1>0, <2>1 DEF AnswerMoves, OneApplies, TypeOK, ClientTypes
<1>3. ASSUME NEW n \in Node, NEW t, StepDown(n, t)
      PROVE  AnswerMoves(n) /\ OneApplies(n)
  BY <1>3, StepDownAnswers DEF StepDown
<1>4. ASSUME NEW n \in Node, NEW c, Vote(n, c)
      PROVE  \E m \in Node : AnswerMoves(m) /\ OneApplies(m)
  <2>1. UNCHANGED logVars
    BY <1>4 DEF Vote
  <2>2. CASE FailPendingClients(n)
    BY <2>1, <2>2, StepDownAnswers
  <2>3. CASE UNCHANGED clientVars
    BY <1>1, <2>1, <2>3 DEF logVars, clientVars
  <2> QED  BY <1>4, <2>2, <2>3 DEF Vote
<1>5. ASSUME NEW n \in Node, NEW c, RefuseAppend(n, c)
      PROVE  \E m \in Node : AnswerMoves(m) /\ OneApplies(m)
  <2>1. UNCHANGED logVars
    BY <1>5 DEF RefuseAppend
  <2>2. CASE FailPendingClients(n)
    BY <2>1, <2>2, StepDownAnswers
  <2>3. CASE UNCHANGED clientVars
    BY <1>1, <2>1, <2>3 DEF logVars, clientVars
  <2> QED  BY <1>5, <2>2, <2>3 DEF RefuseAppend
<1>6. ASSUME NEW n \in Node, NEW c, AcceptAppend(n, c)
      PROVE  AnswerMoves(n) /\ OneApplies(n)
  BY <1>0, <1>6, AcceptAppendDrops, FailedAnswers DEF OneApplies
<1>7. ASSUME NEW n \in Node,
             \/ Start(n) \/ StartElectionRound(n) \/ HeartbeatTick(n)
             \/ \E c : \/ RefuseOldCandidate(n, c)
                       \/ IgnoreVote(n, c) \/ CountVote(n, c)
                       \/ RefuseOldLeader(n, c)
                       \/ IgnoreAppendReply(n, c) \/ AppendRefused(n, c)
      PROVE  UNCHANGED <<answers, lastApplied>>
  BY <1>7 DEF Start, StartElectionRound, HeartbeatTick, RefuseOldCandidate,
     IgnoreVote, CountVote, RefuseOldLeader, IgnoreAppendReply, AppendRefused,
     logVars, clientVars
<1>8. CASE CallFails
  BY <1>1, <1>8 DEF CallFails, logVars, clientVars
<1>9. ASSUME NEW n \in Node, Timers(n) \/ Client(n)
      PROVE  \E m \in Node : AnswerMoves(m) /\ OneApplies(m)
  BY <1>1, <1>2, <1>7, <1>9, SubmitCommandAnswers DEF Timers, Client
<1>10. ASSUME NEW n \in Node, NEW p \in Node,
              HandleRequestVote(n, p) \/ OnVoteResponse(n, p)
       PROVE  \E m \in Node : AnswerMoves(m) /\ OneApplies(m)
  <2>1. ASSUME NEW c, StepDownOnVote(n, c)
        PROVE  AnswerMoves(n) /\ OneApplies(n)
    BY <1>3, <2>1 DEF StepDownOnVote
  <2> QED  BY <1>1, <1>4, <1>7, <1>10, <2>1 DEF HandleRequestVote, OnVoteResponse
<1>11. ASSUME NEW n \in Node, NEW p \in Node, HandleAppendEntries(n, p)
       PROVE  \E m \in Node : AnswerMoves(m) /\ OneApplies(m)
  BY <1>1, <1>5, <1>6, <1>7, <1>11 DEF HandleAppendEntries
<1>12. ASSUME NEW n \in Node, NEW p \in Node, OnAppendEntriesResponse(n, p)
       PROVE  \E m \in Node : AnswerMoves(m) /\ OneApplies(m)
  <2>1. ASSUME NEW c, StepDownOnAppend(n, c)
        PROVE  AnswerMoves(n) /\ OneApplies(n)
    BY <1>3, <2>1 DEF StepDownOnAppend
  <2>2. ASSUME NEW c, AppendSucceeded(n, c)
        PROVE  AnswerMoves(n) /\ OneApplies(n)
    BY <1>0, <2>2, AppendSucceededAnswers
  <2> QED  BY <1>1, <1>7, <1>12, <2>1, <2>2 DEF OnAppendEntriesResponse
<1> QED  BY <1>8, <1>9, <1>10, <1>11, <1>12 DEF Next, Tasks

---------------------------------------------------------------------------
(* Answers that last.                                                      *)

\* A client told COMMITTED or FAILED was told an index that some node has
\* committed, and where its command is.
AnsweredHeld ==
    \A r \in Request : answers[r].status \in {"COMMITTED", "FAILED"} =>
        \E n \in Node : /\ answers[r].index \in 1 .. commitIndex[n]
                        /\ log[n][answers[r].index].request = r

LEMMA OutcomesAnswer ==
    /\ \A i, x : Outcome(i, x).status \in {"COMMITTED", "FAILED"}
                 /\ Outcome(i, x).index = i
    /\ \A a \in {Unsent, Pending, NotLeader} :
          a.status \notin {"COMMITTED", "FAILED"}
BY DEF Outcome, Unsent, Pending, NotLeader

LEMMA AnsweredStays ==
    ASSUME IInv, LInv, FuturesFit, AnsweredHeld, Next
    PROVE  AnsweredHeld'
<1>1. PICK n \in Node : AnswerMoves(n) /\ OneApplies(n)
  BY EveryAnswerMoves
<1>2. CommitsStay
  BY LInvIsKept
<1> SUFFICES ASSUME NEW r \in Request,
                    answers'[r].status \in {"COMMITTED", "FAILED"}
             PROVE  \E m \in Node : /\ answers'[r].index \in 1 .. commitIndex'[m]
                                    /\ log'[m][answers'[r].index].request = r
  BY DEF AnsweredHeld
<1>3. CASE answers'[r] = answers[r]
  <2>1. PICK m \in Node : /\ answers[r].index \in 1 .. commitIndex[m]
                          /\ log[m][answers[r].index].request = r
    BY <1>3 DEF AnsweredHeld
  <2>2. /\ commitIndex'[m] >= commitIndex[m]
        /\ Agree(log'[m], log[m], commitIndex[m])
        /\ commitIndex[m] \in Nat /\ commitIndex'[m] \in Nat
    BY <1>2, NextCommitWithinLog DEF CommitsStay
  <2>3. log'[m][answers[r].index] = log[m][answers[r].index]
    BY <2>1, <2>2 DEF Agree
  <2> QED  BY <1>3, <2>1, <2>2, <2>3
<1>4. ASSUME NEW i \in lastApplied[n] + 1 .. lastApplied'[n],
             log'[n][i].request = r, NEW x, answers'[r] = Outcome(i, x)
      PROVE  /\ answers'[r].index \in 1 .. commitIndex'[n]
             /\ log'[n][answers'[r].index].request = r
  <2>1. answers'[r].index = i
    BY <1>4, OutcomesAnswer
  <2>2. lastApplied'[n] = commitIndex'[n] /\ lastApplied[n] = commitIndex[n]
        /\ commitIndex[n] \in Nat /\ commitIndex'[n] \in Nat
    BY NextCommitWithinLog
  <2> QED  BY <1>4, <2>1, <2>2
<1>5. answers'[r] \notin {Unsent, Pending, NotLeader}
  BY OutcomesAnswer
<1> QED  BY <1>1, <1>3, <1>4, <1>5 DEF AnswerMoves

\* In every behavior what clients were told is committed at some node:
\* applyCommitted() answers after the commit.
THEOREM AnsweredAreHeld == Spec => []AnsweredHeld
<1>1. Init => AnsweredHeld
  BY OutcomesAnswer DEF Init, AnsweredHeld
<1>2. IInv /\ LInv /\ FuturesFit /\ AnsweredHeld /\ [Next]_vars => AnsweredHeld'
  <2>1. ASSUME AnsweredHeld, UNCHANGED vars PROVE AnsweredHeld'
    BY <2>1 DEF AnsweredHeld, vars, clientVars, logVars
  <2> QED  BY <2>1, AnsweredStays
<1> QED  BY <1>1, <1>2, IInvHolds, HistoryKept, FuturesAreFit, PTL DEF Spec

\* Whoever reached a chosen entry still has it, in whatever term it is now.
LEMMA ReachedIsHeld ==
    ASSUME IInv, NEW ballot, NEW h, LInvOf(h, ballot),
           NEW t \in Nat, NEW i \in Nat, Chosen(h, t, i),
           NEW p \in Node, Reached(h, p, t, i)
    PROVE  Agree(log[p], h.log[t], i)
<1>1. /\ HistoryTypes(h) /\ LeadersKeep(h, ballot)
      /\ h.held[p][currentTerm[p]] = log[p]
      /\ \A u \in Nat : u > currentTerm[p] => h.held[p][u] = <<>>
      /\ Handed(h, p, log[p], currentTerm[p], currentTerm[p] + 1)
  BY DEF LInvOf, Tracks, NodesKeep
<1>2. currentTerm[p] \in Nat
  BY NodeTypes DEF IInv
<1>3. /\ i \in 1 .. Len(h.log[t]) /\ Agree(h.held[p][t], h.log[t], i)
  BY DEF Reached
<1>4. CASE t > currentTerm[p]
  <2>1. h.held[p][t] = <<>>
    BY <1>1, <1>4
  <2>2. Len(h.held[p][t]) = 0
    BY <2>1
  <2> QED  BY <1>3, <2>2 DEF Agree
<1>5. CASE t = currentTerm[p]
  BY <1>1, <1>3, <1>5
<1>6. CASE t < currentTerm[p]
  <2>1. Agree(log[p], h.log[t], i) \/ Lost(h, t, i, currentTerm[p] + 1)
    BY <1>1, <1>6 DEF Handed
  <2>2. ~ Lost(h, t, i, currentTerm[p] + 1)
    BY <1>1, ChosenIsKept DEF Lost
  <2> QED  BY <2>1, <2>2
<1> QED  BY <1>2, <1>4, <1>5, <1>6

\* What a node has committed is on a majority, where it is.
LEMMA CommittedIsHeld ==
    ASSUME IInv, LInv, NEW n \in Node, NEW k \in 1 .. commitIndex[n]
    PROVE  \E Q \in SUBSET Node :
              /\ Cardinality(Q) >= Majority
              /\ \A p \in Q : k <= Len(log[p]) /\ log[p][k] = log[n][k]
<1>1. PICK ballot, h : LInvOf(h, ballot)
  BY DEF LInv
<1>2. commitIndex[n] \in Nat /\ k \in Nat /\ k # 0 /\ commitIndex[n] # 0
  BY NodeTypes DEF IInv
<1>3. PICK t \in Nat, i \in Nat :
         /\ commitIndex[n] <= i /\ Chosen(h, t, i)
         /\ Agree(log[n], h.log[t], commitIndex[n])
  BY <1>1, <1>2 DEF LInvOf, CommitsVouched, Vouched
<1>4. PICK Q \in SUBSET Node :
         Cardinality(Q) >= Majority /\ \A p \in Q : Reached(h, p, t, i)
  BY <1>3 DEF Chosen
<1>5. ASSUME NEW p \in Q
      PROVE  k <= Len(log[p]) /\ log[p][k] = log[n][k]
  <2>1. Agree(log[p], h.log[t], i)
    BY <1>1, <1>3, <1>4, ReachedIsHeld
  <2>2. Len(log[p]) \in Nat
    BY NodeTypes DEF IInv
  <2>3. k \in 1 .. i
    BY <1>2, <1>3
  <2> QED  BY <1>2, <1>3, <2>1, <2>2, <2>3 DEF Agree
<1> QED  BY <1>4, <1>5

\* A client told COMMITTED (or FAILED, for an unknown key) keeps its entry:
\* from the task that answered it on, a majority holds it at the index the
\* client was told, whoever leads and whatever calls are late.
THEOREM AnswersLast == Spec => []AnsweredIsDurable
<1>1. IInv /\ LInv /\ AnsweredHeld => AnsweredIsDurable
  <2> SUFFICES ASSUME IInv, LInv, AnsweredHeld, NEW r \in Request,
                      answers[r].status \in {"COMMITTED", "FAILED"}
               PROVE  Cardinality({n \in Node :
                         /\ answers[r].index <= Len(log[n])
                         /\ log[n][answers[r].index].request = r}) >= Majority
    BY DEF AnsweredIsDurable
  <2> DEFINE holders == {n \in Node : /\ answers[r].index <= Len(log[n])
                                      /\ log[n][answers[r].index].request = r}
  <2>1. PICK n \in Node : /\ answers[r].index \in 1 .. commitIndex[n]
                          /\ log[n][answers[r].index].request = r
    BY DEF AnsweredHeld
  <2>2. PICK Q \in SUBSET Node :
           /\ Cardinality(Q) >= Majority
           /\ \A p \in Q : /\ answers[r].index <= Len(log[p])
                           /\ log[p][answers[r].index] = log[n][answers[r].index]
    BY <2>1, CommittedIsHeld
  <2>3. Q \subseteq holders /\ IsFiniteSet(holders) /\ IsFiniteSet(Q)
    BY <2>1, <2>2, NodeAssumption, FS_Subset
  <2> HIDE DEF holders
  <2>4. Cardinality(Q) <= Cardinality(holders) /\ Cardinality(Q) \in Nat
        /\ Cardinality(holders) \in Nat
    BY <2>3, FS_Subset, FS_CardinalityType
  <2>5. Majority \in Nat
    BY NodeAssumption, FS_CardinalityType DEF Majority
  <2>6. Cardinality(holders) >= Majority
    BY <2>2, <2>4, <2>5
  <2> QED  BY <2>6 DEF holders
<1> QED  BY <1>1, IInvHolds, HistoryKept, AnsweredAreHeld, PTL


---------------------------------------------------------------------------
(* Where commands are.                                                     *)

\* Entry e is at index i of some log, or on its way to be.
Placed(i, e) ==
    \/ \E n \in Node : i \in 1 .. Len(log[n]) /\ e = log[n][i]
    \/ \E c \in appendCalls : \E k \in 1 .. Len(c.entries) :
          i = c.prevLogIndex + k /\ e = c.entries[k]

\* A submission becomes one entry, at one index, and only once it is made.
PlacedOnce ==
    /\ \A i, j \in Nat : \A e, f \in LogEntry :
          Placed(i, e) /\ Placed(j, f) /\ e.request = f.request => i = j /\ e = f
    /\ \A i \in Nat : \A e \in LogEntry :
          Placed(i, e) => answers[e.request].status # "UNSENT"

\* A merged log has each entry from where it was in the old log, or from
\* where the request says it is.
LEMMA MergeFrom ==
    ASSUME NEW l \in Seq(LogEntry), NEW entries \in Seq(LogEntry),
           NEW prev \in Nat, prev <= Len(l),
           NEW j \in 1 .. Len(Merge(l, prev, entries))
    PROVE  LET m == Merge(l, prev, entries)
           IN  \/ j \in 1 .. Len(l) /\ m[j] = l[j]
               \/ \E k \in 1 .. Len(entries) : j = prev + k /\ m[j] = entries[k]
<1> DEFINE D == Differing(l, prev, entries)
           m == Merge(l, prev, entries)
<1>1. Len(l) \in Nat /\ Len(entries) \in Nat
  BY LenProperties
<1>2. CASE D = {}
  <2>1. m = l
    BY <1>2 DEF Merge
  <2> QED  BY <2>1
<1>3. CASE D # {}
  <2>1. D \subseteq 1 .. Len(entries)
    BY DEF Differing
  <2>2. PICK first \in D : /\ first = CHOOSE k \in D : \A i \in D : k <= i
                           /\ \A i \in D : first <= i
    <3>1. D \subseteq Nat
      BY <2>1, <1>1
    <3> HIDE DEF D
    <3>2. PICK x \in D : \A y \in D : x <= y
      BY <1>3, <3>1, LeastExists
    <3> QED  BY <3>2
  <2>3. first \in 1 .. Len(entries) /\ first \in Nat
    BY <1>1, <2>1, <2>2
  <2>4. m = TruncateFrom(l, prev + first) \o EntriesFrom(entries, first)
    BY <1>3, <2>2 DEF Merge
  <2>5. prev + first \in 1 .. Len(l) + 1
    <3>1. CASE first = 1
      BY <1>1, <3>1
    <3>2. CASE first # 1
      <4>1. first - 1 \in 1 .. Len(entries) /\ ~ (first <= first - 1)
        BY <1>1, <2>3, <3>2
      <4>2. first - 1 \notin D
        BY <2>2, <4>1
      <4>3. prev + (first - 1) <= Len(l)
        BY <4>1, <4>2 DEF Differing, LastIndex
      <4> QED  BY <1>1, <2>3, <4>3
    <3> QED  BY <3>1, <3>2
  <2> DEFINE a == TruncateFrom(l, prev + first)
             b == EntriesFrom(entries, first)
  <2> HIDE DEF D, m
  <2>6. /\ a \in Seq(LogEntry) /\ Len(a) = prev + first - 1
        /\ \A i \in 1 .. prev + first - 1 : a[i] = l[i]
    <3>1. \E w \in 1 .. Len(l) + 1 : w = prev + first
      BY <2>5
    <3> PICK w \in 1 .. Len(l) + 1 : w = prev + first
      BY <3>1
    <3>2. /\ TruncateFrom(l, w) \in Seq(LogEntry)
          /\ Len(TruncateFrom(l, w)) = w - 1
          /\ \A i \in 1 .. w - 1 : TruncateFrom(l, w)[i] = l[i]
      BY TruncatedOf
    <3>3. TruncateFrom(l, w) = a /\ w - 1 = prev + first - 1
      BY <2>3
    <3> HIDE DEF a
    <3> QED  BY <3>2, <3>3
  <2>7. /\ b \in Seq(LogEntry) /\ Len(b) = Len(entries) - first + 1
        /\ \A i \in 1 .. Len(entries) - first + 1 : b[i] = entries[first + i - 1]
    <3>1. first \in 1 .. Len(entries) + 1
      BY <1>1, <2>3
    <3> QED  BY <3>1, SuffixOf
  <2>8. m = a \o b
    BY <2>4
  <2> HIDE DEF a, b
  <2>9. /\ Len(m) = Len(a) + Len(b)
        /\ \A i \in 1 .. Len(a) + Len(b) :
              m[i] = IF i <= Len(a) THEN a[i] ELSE b[i - Len(a)]
    BY <2>6, <2>7, <2>8, JoinOf
  <2>10. j \in 1 .. Len(m)
    BY DEF m
  <2>11. CASE j <= prev + first - 1
    <3>1. j \in 1 .. Len(l) /\ m[j] = l[j]
      BY <1>1, <2>3, <2>5, <2>6, <2>7, <2>9, <2>10, <2>11
    <3> QED  BY <3>1 DEF m
  <2>12. CASE ~ (j <= prev + first - 1)
    <3> DEFINE size == Len(entries)
    <3>0. /\ size \in Nat /\ first \in Nat /\ first <= size /\ prev \in Nat /\ j \in Nat
          /\ ~ (j <= prev + first - 1)
          /\ j <= (prev + first - 1) + (size - first + 1)
      <4>1. size \in Nat /\ first \in Nat /\ first <= size
        BY <1>1, <2>3
      <4>2. Len(m) = (prev + first - 1) + (size - first + 1)
        BY <2>6, <2>7, <2>9
      <4>3. Len(m) \in Nat
        BY <4>1, <4>2
      <4>4. j \in Nat /\ j <= Len(m)
        BY <2>10, <4>3
      <4> QED  BY <4>1, <4>2, <4>4, <2>12
    <3> HIDE DEF size
    <3>a. first + (j - (prev + first - 1)) - 1 = j - prev /\ j = prev + (j - prev)
      BY <3>0
    <3>b. j - prev \in Nat /\ first <= j - prev /\ j - prev <= size
      BY <3>0
    <3>c. j - (prev + first - 1) = j - prev - first + 1
      BY <3>0
    <3>d. j - (prev + first - 1) \in 1 .. size - first + 1 /\ j - prev \in 1 .. size
      <4> DEFINE o == j - prev
      <4> HIDE DEF o
      <4>1. o \in Nat /\ first <= o /\ o <= size /\ first \in 1 .. size /\ size \in Nat
        BY <3>b, <3>0, <2>3 DEF o, size
      <4>2. o - first + 1 \in 1 .. size - first + 1 /\ o \in 1 .. size
        BY <4>1
      <4> QED  BY <4>2, <3>c DEF o
    <3>1. /\ j - (prev + first - 1) \in 1 .. Len(entries) - first + 1
          /\ first + (j - (prev + first - 1)) - 1 = j - prev
          /\ j - prev \in 1 .. Len(entries)
          /\ j = prev + (j - prev)
      BY <3>a, <3>d DEF size
    <3>2. m[j] = b[j - (prev + first - 1)]
      BY <1>1, <2>6, <2>7, <2>9, <2>10, <2>12
    <3>3. m[j] = entries[j - prev]
      BY <2>7, <3>1, <3>2
    <3> QED  BY <3>1, <3>3 DEF m
  <2> QED  BY <2>11, <2>12
<1> QED  BY <1>2, <1>3

\* Only two tasks change a log.
LEMMA LogTasks ==
    ASSUME Next
    PROVE  \/ UNCHANGED log
           \/ \E n \in Node : \E c \in appendCalls : AcceptAppend(n, c)
           \/ \E n \in Node : \E r \in Request : SubmitCommand(n, r)
<1>1. ASSUME NEW n \in Node,
             \/ Start(n) \/ StartElectionRound(n) \/ HeartbeatTick(n)
             \/ \E r \in Request : RefuseCommand(n, r)
             \/ \E c \in voteCalls : RefuseOldCandidate(n, c) \/ Vote(n, c)
             \/ \E c \in voteReplies : StepDownOnVote(n, c) \/ IgnoreVote(n, c)
                                       \/ CountVote(n, c)
             \/ \E c \in appendCalls : RefuseOldLeader(n, c) \/ RefuseAppend(n, c)
             \/ \E c \in appendReplies :
                   StepDownOnAppend(n, c) \/ IgnoreAppendReply(n, c)
                   \/ AppendSucceeded(n, c) \/ AppendRefused(n, c)
      PROVE  UNCHANGED log
  BY <1>1 DEF Start, StartElectionRound, HeartbeatTick, RefuseCommand,
     RefuseOldCandidate, Vote, StepDownOnVote, IgnoreVote, CountVote,
     RefuseOldLeader, RefuseAppend, StepDownOnAppend, IgnoreAppendReply,
     AppendSucceeded, AppendRefused, StepDown, logVars
<1>2. CASE CallFails
  BY <1>2 DEF CallFails, logVars
<1>3. CASE Tasks
  BY <1>1, <1>3 DEF Tasks, Timers, Client, HandleRequestVote, OnVoteResponse,
         HandleAppendEntries, OnAppendEntriesResponse
<1> QED  BY <1>2, <1>3 DEF Next

\* What a step places was placed, but for the entry of a new submission.
NewPlace(n, r, i, e) ==
    i = Len(log[n]) + 1 /\ e = [term |-> currentTerm[n], request |-> r]

LEMMA LogPlaces ==
    ASSUME TypeOK, NEW n \in Node, NEW m \in Node,
           NEW i \in 1 .. Len(log'[m]), NEW c \in appendCalls, AcceptAppend(n, c)
    PROVE  Placed(i, log'[m][i])
<1>1. log \in [Node -> Seq(LogEntry)]
  BY DEF TypeOK, LogTypes
<1>2. log' = [log EXCEPT ![n] = Merge(log[n], c.prevLogIndex, c.entries)]
      /\ Consistent(log[n], c.prevLogIndex, c.prevLogTerm)
  BY DEF AcceptAppend
<1>3. CASE m # n
  BY <1>1, <1>2, <1>3 DEF Placed
<1>4. CASE m = n
  <2>1. log'[n] = Merge(log[n], c.prevLogIndex, c.entries)
    BY <1>1, <1>2
  <2>2. /\ log[n] \in Seq(LogEntry) /\ c.entries \in Seq(LogEntry)
        /\ c.prevLogIndex \in Nat /\ c.prevLogIndex <= Len(log[n])
    BY <1>1, <1>2 DEF TypeOK, AppendTypes, AppendCall, Consistent, LastIndex
  <2>3. \/ i \in 1 .. Len(log[n]) /\ log'[n][i] = log[n][i]
        \/ \E k \in 1 .. Len(c.entries) :
              i = c.prevLogIndex + k /\ log'[n][i] = c.entries[k]
    <3> DEFINE l == log[n]
               prev == c.prevLogIndex
               entries == c.entries
    <3>1. l \in Seq(LogEntry) /\ entries \in Seq(LogEntry) /\ prev \in Nat
          /\ prev <= Len(l) /\ i \in 1 .. Len(Merge(l, prev, entries))
      BY <1>4, <2>1, <2>2
    <3> HIDE DEF l, prev, entries
    <3>2. \/ i \in 1 .. Len(l) /\ Merge(l, prev, entries)[i] = l[i]
          \/ \E k \in 1 .. Len(entries) :
                i = prev + k /\ Merge(l, prev, entries)[i] = entries[k]
      BY <3>1, MergeFrom
    <3> QED  BY <2>1, <3>2 DEF l, prev, entries
  <2> QED  BY <1>4, <2>3 DEF Placed
<1> QED  BY <1>3, <1>4

LEMMA SubmitPlaces ==
    ASSUME TypeOK, NEW n \in Node, NEW r \in Request, SubmitCommand(n, r),
           NEW m \in Node, NEW i \in 1 .. Len(log'[m])
    PROVE  Placed(i, log'[m][i]) \/ NewPlace(n, r, i, log'[m][i])
<1> DEFINE e == [term |-> currentTerm[n], request |-> r]
<1>1. log' = [log EXCEPT ![n] = Append(log[n], e)]
  BY DEF SubmitCommand
<1>2. /\ log \in [Node -> Seq(LogEntry)] /\ log[n] \in Seq(LogEntry)
      /\ Len(log[n]) \in Nat /\ currentTerm[n] \in Nat
  BY NodeTypes DEF TypeOK, LogTypes
<1>3. e \in LogEntry
  BY <1>2 DEF LogEntry
<1> HIDE DEF e
<1>4. CASE m # n
  BY <1>1, <1>2, <1>4 DEF Placed
<1>5. CASE m = n
  <2>1. log'[m] = Append(log[n], e)
    BY <1>1, <1>2, <1>5
  <2>2. /\ Len(log'[m]) = Len(log[n]) + 1 /\ log'[m][Len(log[n]) + 1] = e
        /\ \A j \in 1 .. Len(log[n]) : log'[m][j] = log[n][j]
    BY <1>2, <1>3, <2>1, AppendProperties
  <2>3. CASE i = Len(log[n]) + 1
    BY <2>2, <2>3 DEF NewPlace, e
  <2>4. CASE i # Len(log[n]) + 1
    <3>1. i \in 1 .. Len(log[n])
      BY <1>2, <2>2, <2>4
    <3> QED  BY <1>5, <2>2, <3>1 DEF Placed
  <2> QED  BY <2>3, <2>4
<1> QED  BY <1>4, <1>5

\* How places change in a step: at most one submission gets one.
PlacesMove ==
    \/ \A i \in Nat : \A e \in LogEntry : Placed(i, e)' => Placed(i, e)
    \/ \E n \in Node : \E r \in Request :
          /\ SubmitCommand(n, r)
          /\ \A i \in Nat : \A e \in LogEntry :
                Placed(i, e)' => Placed(i, e) \/ NewPlace(n, r, i, e)

\* A request made in a step carries entries of the log it was made from.
LEMMA CallPlaces ==
    ASSUME IInv, TypeOK', CallsMove, NEW c \in appendCalls',
           NEW k \in 1 .. Len(c.entries)
    PROVE  \/ Placed(c.prevLogIndex + k, c.entries[k])
           \/ \E n \in Node : /\ c.prevLogIndex + k \in 1 .. Len(log'[n])
                              /\ c.entries[k] = log'[n][c.prevLogIndex + k]
<1>1. CASE \E d \in appendCalls : SameRequest(c, d)
  BY <1>1 DEF SameRequest, Placed
<1>2. CASE SentNow(c)
  <2>1. c \in AppendCall
    BY DEF TypeOK, AppendTypes
  <2>2. c.from \in Node /\ c.prevLogIndex \in Nat /\ c.entries \in Seq(LogEntry)
    BY <2>1 DEF AppendCall
  <2>3. Len(c.entries) \in Nat /\ Len(log'[c.from]) \in Nat
    BY <2>2, NextTypes, LenProperties
  <2>4. /\ c.prevLogIndex + Len(c.entries) = Len(log'[c.from])
        /\ c.entries[k] = log'[c.from][c.prevLogIndex + k]
    BY <1>2 DEF SentNow
  <2>5. c.prevLogIndex + k \in 1 .. Len(log'[c.from])
    BY <2>2, <2>3, <2>4
  <2> QED  BY <2>2, <2>4, <2>5
<1> QED  BY <1>1, <1>2 DEF CallsMove

\* So it is enough to look at the logs.
LEMMA PlacesOfLogs ==
    ASSUME IInv, TypeOK', CallsMove, NEW i \in Nat, NEW e \in LogEntry,
           Placed(i, e)'
    PROVE  \/ Placed(i, e)
           \/ \E n \in Node : i \in 1 .. Len(log'[n]) /\ e = log'[n][i]
<1>1. CASE \E c \in appendCalls' : \E k \in 1 .. Len(c.entries) :
              i = c.prevLogIndex + k /\ e = c.entries[k]
  <2>1. PICK c \in appendCalls' : \E k \in 1 .. Len(c.entries) :
           i = c.prevLogIndex + k /\ e = c.entries[k]
    BY <1>1
  <2>2. PICK k \in 1 .. Len(c.entries) :
           i = c.prevLogIndex + k /\ e = c.entries[k]
    BY <2>1
  <2> QED  BY <2>2, CallPlaces
<1> QED  BY <1>1 DEF Placed

LEMMA EveryPlaceMoves ==
    ASSUME IInv, Next
    PROVE  PlacesMove
<1>1. TypeOK /\ TypeOK' /\ CallsMove
  BY EveryStepIsGood, EveryLogStep DEF IInv, GoodStep, LogStep
<1>2. CASE UNCHANGED log
  BY <1>1, <1>2, PlacesOfLogs DEF Placed, PlacesMove
<1>3. ASSUME NEW n \in Node, NEW c \in appendCalls, AcceptAppend(n, c)
      PROVE  PlacesMove
  BY <1>1, <1>3, PlacesOfLogs, LogPlaces DEF PlacesMove
<1>4. ASSUME NEW n \in Node, NEW r \in Request, SubmitCommand(n, r)
      PROVE  PlacesMove
  <2>1. ASSUME NEW i \in Nat, NEW e \in LogEntry, Placed(i, e)'
        PROVE  Placed(i, e) \/ NewPlace(n, r, i, e)
    BY <1>1, <1>4, <2>1, PlacesOfLogs, SubmitPlaces
  <2> QED  BY <1>4, <2>1 DEF PlacesMove
<1> QED  BY <1>2, <1>3, <1>4, LogTasks

\* The client of a new entry is no longer waiting to be heard.
LEMMA SubmitIsHeard ==
    ASSUME TypeOK, NEW n \in Node, NEW r \in Request, SubmitCommand(n, r)
    PROVE  answers[r] = Unsent /\ answers'[r].status # "UNSENT"
<1> DEFINE given == [answers EXCEPT ![r] = Pending]
<1>1. \E l, commit, futures : ApplyCommitted(n, l, commit, futures, given)
  BY DEF SubmitCommand
<1>2. given[r] = Pending
  BY DEF TypeOK, ClientTypes
<1> HIDE DEF given
<1>3. answers'[r] = Pending \/ \E i, x : answers'[r] = Outcome(i, x)
  BY <1>1, <1>2 DEF ApplyCommitted
<1>4. Pending.status # "UNSENT" /\ \A i, x : Outcome(i, x).status # "UNSENT"
  BY OutcomesAnswer DEF Pending
<1> QED  BY <1>3, <1>4 DEF SubmitCommand

\* Nobody becomes unheard again.
LEMMA HeardStays ==
    ASSUME IInv, FuturesFit, Next, NEW r \in Request,
           answers[r].status # "UNSENT"
    PROVE  answers'[r].status # "UNSENT"
<1>1. PICK n \in Node : AnswerMoves(n)
  BY EveryAnswerMoves
<1>2. /\ Pending.status # "UNSENT" /\ NotLeader.status # "UNSENT"
      /\ \A i, x : Outcome(i, x).status # "UNSENT"
  BY OutcomesAnswer DEF Pending, NotLeader
<1> QED  BY <1>1, <1>2 DEF AnswerMoves

LEMMA PlacedOnceStays ==
    ASSUME IInv, FuturesFit, PlacedOnce, Next
    PROVE  PlacedOnce'
<1>1. PlacesMove /\ TypeOK
  BY EveryPlaceMoves DEF IInv
<1>2. CASE \A i \in Nat : \A e \in LogEntry : Placed(i, e)' => Placed(i, e)
  <2>1. ASSUME NEW i \in Nat, NEW j \in Nat, NEW e \in LogEntry, NEW f \in LogEntry,
               Placed(i, e)', Placed(j, f)', e.request = f.request
        PROVE  i = j /\ e = f
    BY <1>2, <2>1 DEF PlacedOnce
  <2>2. ASSUME NEW i \in Nat, NEW e \in LogEntry, Placed(i, e)'
        PROVE  answers'[e.request].status # "UNSENT"
    BY <1>2, <2>2, HeardStays DEF PlacedOnce, LogEntry
  <2> QED  BY <2>1, <2>2 DEF PlacedOnce
<1>3. ASSUME NEW n \in Node, NEW r \in Request, SubmitCommand(n, r),
             \A i \in Nat : \A e \in LogEntry :
                Placed(i, e)' => Placed(i, e) \/ NewPlace(n, r, i, e)
      PROVE  PlacedOnce'
  <2>1. answers[r].status = "UNSENT" /\ answers'[r].status # "UNSENT"
    BY <1>1, <1>3, SubmitIsHeard DEF Unsent
  <2>2. \A i \in Nat : \A e \in LogEntry :
           NewPlace(n, r, i, e) => e.request = r
    BY DEF NewPlace
  <2>3. \A i \in Nat : \A e \in LogEntry : Placed(i, e) => e.request # r
    BY <2>1 DEF PlacedOnce
  <2>4. ASSUME NEW i \in Nat, NEW j \in Nat, NEW e \in LogEntry, NEW f \in LogEntry,
               Placed(i, e)', Placed(j, f)', e.request = f.request
        PROVE  i = j /\ e = f
    <3>1. CASE e.request = r
      <4>1. NewPlace(n, r, i, e) /\ NewPlace(n, r, j, f)
        BY <1>3, <2>3, <2>4, <3>1
      <4> QED  BY <4>1 DEF NewPlace
    <3>2. CASE e.request # r
      BY <1>3, <2>2, <2>4, <3>2 DEF PlacedOnce
    <3> QED  BY <3>1, <3>2
  <2>5. ASSUME NEW i \in Nat, NEW e \in LogEntry, Placed(i, e)'
        PROVE  answers'[e.request].status # "UNSENT"
    <3>1. CASE Placed(i, e)
      BY <3>1, HeardStays DEF PlacedOnce, LogEntry
    <3>2. CASE NewPlace(n, r, i, e)
      BY <2>1, <2>2, <3>2
    <3> QED  BY <1>3, <2>5, <3>1, <3>2
  <2> QED  BY <2>4, <2>5 DEF PlacedOnce
<1> QED  BY <1>1, <1>2, <1>3 DEF PlacesMove

\* A submission becomes one entry at one index, in every log and request
\* that has it: submitCommand() appends once, and neither an election nor a
\* merge moves an entry.
THEOREM CommandsHavePlaces == Spec => []PlacedOnce
<1>1. Init => PlacedOnce
  <2> SUFFICES ASSUME Init, NEW i \in Nat, NEW e \in LogEntry, Placed(i, e)
               PROVE  FALSE
    BY DEF PlacedOnce
  <2>1. \A n \in Node : Len(log[n]) = 0
    BY DEF Init
  <2>2. appendCalls = {}
    BY DEF Init
  <2> QED  BY <2>1, <2>2 DEF Placed
<1>2. IInv /\ FuturesFit /\ PlacedOnce /\ [Next]_vars => PlacedOnce'
  <2>1. ASSUME PlacedOnce, UNCHANGED vars PROVE PlacedOnce'
    <3>1. UNCHANGED <<log, appendCalls, answers>>
      BY <2>1 DEF vars, logVars, appendVars, clientVars
    <3>2. \A i, e : Placed(i, e)' <=> Placed(i, e)
      BY <3>1 DEF Placed
    <3> QED  BY <2>1, <3>1, <3>2 DEF PlacedOnce
  <2> QED  BY <2>1, PlacedOnceStays
<1> QED  BY <1>1, <1>2, IInvHolds, FuturesAreFit, PTL DEF Spec

---------------------------------------------------------------------------
(* The cluster is one replicated log to its clients.                       *)

\* The committed submissions, as the refinement reads them.
ChosenNow == [i \in 1 .. commitIndex[Longest] |-> log[Longest][i].request]

\* They are a sequence of submissions that were made, each once, and every
\* node's committed entries are the first of them.
ChosenIsOne ==
    /\ Longest \in Node
    /\ ChosenNow \in Seq(Request) /\ Len(ChosenNow) = commitIndex[Longest]
    /\ \A n \in Node :
          /\ commitIndex[n] <= Len(ChosenNow)
          /\ \A i \in 1 .. commitIndex[n] : ChosenNow[i] = log[n][i].request
    /\ \A i \in 1 .. Len(ChosenNow) : answers[ChosenNow[i]].status # "UNSENT"
    /\ \A i, j \in 1 .. Len(ChosenNow) : ChosenNow[i] = ChosenNow[j] => i = j

LEMMA LongestCommits ==
    ASSUME TypeOK
    PROVE  Longest \in Node /\ \A m \in Node : commitIndex[m] <= commitIndex[Longest]
<1>1. IsFiniteSet(Node) /\ Node # {} /\ \A n \in Node : commitIndex[n] \in Nat
  BY NodeAssumption, NodeTypes
<1>2. \E n \in Node : \A m \in Node : commitIndex[m] <= commitIndex[n]
  BY <1>1, GreatestOfFinite
<1> QED  BY <1>2 DEF Longest

LEMMA CommittedPlaces ==
    ASSUME IInv, LInv, PlacedOnce, NEW n \in Node, NEW i \in 1 .. commitIndex[n]
    PROVE  /\ log[n][i] \in LogEntry /\ log[n][i].request \in Request
           /\ i \in Nat /\ Placed(i, log[n][i])
           /\ answers[log[n][i].request].status # "UNSENT"
<1>1. /\ commitIndex[n] \in Nat /\ commitIndex[n] <= Len(log[n])
      /\ log[n] \in Seq(LogEntry) /\ Len(log[n]) \in Nat
  BY CommitWithinLog, NodeTypes DEF IInv
<1>2. i \in 1 .. Len(log[n]) /\ i \in Nat
  BY <1>1
<1>3. log[n][i] \in LogEntry
  BY <1>1, <1>2, ElementOfSeq
<1>4. Placed(i, log[n][i])
  BY <1>2 DEF Placed
<1> QED  BY <1>2, <1>3, <1>4 DEF PlacedOnce, LogEntry

LEMMA ChosenMakesOne ==
    ASSUME IInv, LInv, PlacedOnce
    PROVE  ChosenIsOne
<1> DEFINE L == Longest
           k == commitIndex[L]
<1>1. /\ L \in Node /\ k \in Nat
      /\ \A m \in Node : commitIndex[m] \in Nat /\ commitIndex[m] <= k
  BY LongestCommits, NodeTypes DEF IInv
<1> HIDE DEF L
<1>2. \A i \in 1 .. k : /\ log[L][i] \in LogEntry /\ log[L][i].request \in Request
                        /\ i \in Nat /\ Placed(i, log[L][i])
                        /\ answers[log[L][i].request].status # "UNSENT"
  BY <1>1, CommittedPlaces
<1>3. ChosenNow = [i \in 1 .. k |-> log[L][i].request]
  BY DEF ChosenNow, L
<1> HIDE DEF k
<1>4. /\ ChosenNow \in Seq(Request) /\ Len(ChosenNow) = k
      /\ \A i \in 1 .. k : ChosenNow[i] = log[L][i].request
  BY <1>1, <1>2, <1>3
<1>5. ASSUME NEW n \in Node
      PROVE  /\ commitIndex[n] <= Len(ChosenNow)
             /\ \A i \in 1 .. commitIndex[n] : ChosenNow[i] = log[n][i].request
  <2>1. commitIndex[n] \in Nat /\ commitIndex[n] <= k
    BY <1>1
  <2>2. Agree(log[n], log[L], commitIndex[n])
    BY <1>1, <2>1, CommitsMatch DEF CommitsAgree, k
  <2>3. \A i \in 1 .. commitIndex[n] : i \in 1 .. k /\ log[n][i] = log[L][i]
    BY <1>1, <2>1, <2>2 DEF Agree
  <2> QED  BY <1>4, <2>1, <2>3
<1>6. \A i, j \in 1 .. k : ChosenNow[i] = ChosenNow[j] => i = j
  BY <1>2, <1>4 DEF PlacedOnce
<1> QED  BY <1>1, <1>2, <1>4, <1>5, <1>6 DEF ChosenIsOne, L, k

\* The abstract log's state machine is the nodes' own.
LEMMA SameMachine ==
    /\ Abstract!NoValues = NoValues
    /\ \A v, c : Abstract!Apply(v, c) = Apply(v, c)
    /\ \A i, x : Abstract!Outcome(i, x) = Outcome(i, x)
    /\ Abstract!Unsent = Unsent /\ Abstract!Pending = Pending
    /\ Abstract!NotLeader = NotLeader
<1>1. \A x : Abstract!Wrap(x) = Wrap(x)
  BY DEF Abstract!Wrap, Wrap
<1>2. \A v, c : Abstract!Result(v, c) = Result(v, c)
  BY <1>1 DEF Abstract!Result, Result, Abstract!Delta, Delta
<1>3. \A v, c : Abstract!Knows(v, c) <=> Knows(v, c)
  BY DEF Abstract!Knows, Knows
<1>4. \A v, c : Abstract!Apply(v, c) = Apply(v, c)
  BY <1>2, <1>3 DEF Abstract!Apply, Apply
<1> QED
  BY <1>4 DEF Abstract!NoValues, NoValues, Abstract!Outcome, Outcome,
     Abstract!Unsent, Unsent, Abstract!Pending, Pending,
     Abstract!NotLeader, NotLeader

\* StateAfter is what its recursive definition says ...
LEMMA StateAfterDefined ==
    ASSUME NEW reqs \in Seq(Request), NEW i \in 0 .. Len(reqs)
    PROVE  Abstract!StateAfter(reqs)[i] =
              IF i = 0 THEN NoValues
              ELSE Apply(Abstract!StateAfter(reqs)[i - 1], CommandOf[reqs[i]]).values
<1> DEFINE l == [j \in 1 .. Len(reqs) |-> [request |-> reqs[j]]]
           R == ReplayFrom(NoValues, l, 0)
           r == [j \in 0 .. Len(reqs) |-> R[j]]
           Is(a) == a = [j \in 0 .. Len(reqs) |->
                            IF j = 0 THEN NoValues
                            ELSE Apply(a[j - 1], CommandOf[reqs[j]]).values]
<1>1. Len(reqs) \in Nat
  BY LenProperties
<1>2. \A j \in 1 .. Len(reqs) : l[j].request = reqs[j]
  OBVIOUS
<1>3. \A j \in Nat : R[j] = IF j <= 0 THEN NoValues ELSE After(R[j - 1], l, j)
  BY ReplayDefined
<1> HIDE DEF l, R
<1>4. \A j \in 0 .. Len(reqs) : r[j] = R[j]
  OBVIOUS
<1>5. ASSUME NEW j \in 0 .. Len(reqs)
      PROVE  r[j] = IF j = 0 THEN NoValues
                    ELSE Apply(r[j - 1], CommandOf[reqs[j]]).values
  <2>1. CASE j = 0
    BY <1>3, <1>4, <2>1
  <2>2. CASE j # 0
    <3>1. j \in 1 .. Len(reqs) /\ j - 1 \in 0 .. Len(reqs) /\ j \in Nat /\ ~ (j <= 0)
      BY <1>1, <2>2
    <3>2. R[j] = After(R[j - 1], l, j)
      BY <1>3, <3>1
    <3>3. After(R[j - 1], l, j) = Apply(R[j - 1], CommandOf[reqs[j]]).values
      BY <1>2, <3>1 DEF After
    <3> QED  BY <1>4, <2>2, <3>1, <3>2, <3>3
  <2> QED  BY <2>1, <2>2
<1>6. r = [j \in 0 .. Len(reqs) |-> r[j]]
  OBVIOUS
<1> HIDE DEF r
<1>7. Is(r)
  BY <1>5, <1>6
<1>8. Abstract!StateAfter(reqs) = CHOOSE a : Is(a)
  BY SameMachine DEF Abstract!StateAfter
<1> HIDE DEF Is
<1>9. Is(Abstract!StateAfter(reqs))
  BY <1>7, <1>8
<1> QED  BY <1>9 DEF Is

\* ... and so the replay of any log with these submissions.
LEMMA StateAfterReplays ==
    ASSUME NEW reqs \in Seq(Request), NEW l, NEW k \in Nat, k <= Len(reqs),
           \A i \in 1 .. k : reqs[i] = l[i].request
    PROVE  Abstract!StateAfter(reqs)[k] = ReplayFrom(NoValues, l, 0)[k]
<1> DEFINE f == Abstract!StateAfter(reqs)
           g == ReplayFrom(NoValues, l, 0)
<1>1. Len(reqs) \in Nat
  BY LenProperties
<1>2. \A i \in 0 .. k : f[i] = IF i = 0 THEN NoValues
                               ELSE Apply(f[i - 1], CommandOf[reqs[i]]).values
  <2>1. \A i \in 0 .. k : i \in 0 .. Len(reqs)
    BY <1>1
  <2> QED  BY <2>1, StateAfterDefined
<1>3. \A i \in Nat : g[i] = IF i <= 0 THEN NoValues ELSE After(g[i - 1], l, i)
  BY ReplayDefined
<1> HIDE DEF f, g
<1>4. Replays(g, NoValues, l, 0, k)
  BY <1>3 DEF Replays
<1>5. Replays(f, NoValues, l, 0, k)
  <2> SUFFICES ASSUME NEW i \in 0 .. k
               PROVE  f[i] = IF i <= 0 THEN NoValues ELSE After(f[i - 1], l, i)
    BY DEF Replays
  <2>1. CASE i = 0
    BY <1>2, <2>1
  <2>2. CASE i # 0
    <3>1. i \in 1 .. k /\ ~ (i <= 0)
      BY <2>2
    <3>2. f[i] = Apply(f[i - 1], CommandOf[reqs[i]]).values
      BY <1>2, <2>2
    <3> QED  BY <3>1, <3>2 DEF After
  <2> QED  BY <2>1, <2>2
<1>6. f[k] = g[k]
  BY <1>4, <1>5, ReplaysAgree
<1> QED  BY <1>6 DEF f, g

\* The committed submissions only grow.
LEMMA StepChooses ==
    ASSUME TypeOK, TypeOK', CommitsStay, ChosenIsOne, ChosenIsOne'
    PROVE  Abstract!Choose
<1>1. /\ Longest \in Node
      /\ ChosenNow \in Seq(Request) /\ Len(ChosenNow) = commitIndex[Longest]
      /\ \A i \in 1 .. commitIndex[Longest] : ChosenNow[i] = log[Longest][i].request
  BY DEF ChosenIsOne
<1> DEFINE L == Longest
           old == ChosenNow
           new == ChosenNow'
           k == Len(old)
<1>2. /\ new \in Seq(Request) /\ commitIndex'[L] <= Len(new)
      /\ \A i \in 1 .. commitIndex'[L] : new[i] = log'[L][i].request
      /\ \A i \in 1 .. Len(new) : answers'[new[i]].status # "UNSENT"
      /\ \A i, j \in 1 .. Len(new) : new[i] = new[j] => i = j
  BY <1>1 DEF ChosenIsOne
<1>3. /\ commitIndex'[L] >= k /\ Agree(log'[L], log[L], k)
      /\ k \in Nat /\ commitIndex'[L] \in Nat /\ Len(new) \in Nat
  BY <1>1, <1>2, NodeTypes, NextTypes, LenProperties DEF CommitsStay
<1>4. /\ old \in Seq(Request) /\ \A i \in 1 .. k : old[i] = log[L][i].request
  BY <1>1
<1>5. k <= Len(new) /\ \A i \in 1 .. k : i \in 1 .. Len(new) /\ new[i] = old[i]
  BY <1>2, <1>3, <1>4 DEF Agree
<1> HIDE DEF old, new, k, L
<1>6. SubSeq(new, 1, k) = old
  <2>1. \A i \in 1 .. k : new[i] \in Request
    BY <1>2, <1>5, ElementOfSeq
  <2>2. /\ SubSeq(new, 1, k) \in Seq(Request)
        /\ Len(SubSeq(new, 1, k)) = k
        /\ \A i \in 1 .. k : SubSeq(new, 1, k)[i] = new[i]
    BY <1>3, <2>1, SubSeqProperties
  <2>3. Len(SubSeq(new, 1, k)) = Len(old)
    BY <2>2 DEF k
  <2>4. \A i \in 1 .. Len(SubSeq(new, 1, k)) : SubSeq(new, 1, k)[i] = old[i]
    BY <1>5, <2>2
  <2> QED  BY <1>4, <2>2, <2>3, <2>4, SeqEqual
<1>7. /\ Len(new) >= Len(old) /\ SubSeq(new, 1, Len(old)) = old
      /\ \A i \in 1 .. Len(new) : answers'[new[i]].status # "UNSENT"
      /\ \A i, j \in 1 .. Len(new) : new[i] = new[j] => i = j
  BY <1>2, <1>3, <1>5, <1>6 DEF k
<1> QED  BY <1>7 DEF Abstract!Choose, old, new, ChosenNow

\* The task's node applies, and answers with what replaying the log gives.
LEMMA StepAnswers ==
    ASSUME IInv, LInv, MapsReplayed, ChosenIsOne', Next,
           NEW n \in Node, AnswerMoves(n), OneApplies(n)
    PROVE  Abstract!ApplyAt(n) /\ Abstract!Answer(n)
<1> DEFINE new == ChosenNow'
           from == lastApplied[n]
           to == lastApplied'[n]
<1>1. /\ commitIndex'[n] <= Len(log'[n]) /\ to = commitIndex'[n]
      /\ from = commitIndex[n] /\ commitIndex[n] <= commitIndex'[n]
      /\ commitIndex[n] \in Nat /\ commitIndex'[n] \in Nat
  BY NextCommitWithinLog
<1>2. /\ new \in Seq(Request) /\ commitIndex'[n] <= Len(new)
      /\ \A i \in 1 .. commitIndex'[n] : new[i] = log'[n][i].request
  BY DEF ChosenIsOne
<1>3. Len(new) \in Nat
  BY <1>2, LenProperties
<1>4. Agree(log'[n], log[n], commitIndex[n])
  BY LInvIsKept DEF CommitsStay
<1>5. values[n] = ReplayFrom(NoValues, log'[n], 0)[from]
  <2>1. values[n] = ReplayFrom(NoValues, log[n], 0)[from]
    BY DEF MapsReplayed
  <2> QED  BY <1>1, <1>4, <2>1, ReplaySame
<1> HIDE DEF new, from, to
<1>6. ASSUME NEW i \in from + 1 .. to
      PROVE  /\ new[i] = log'[n][i].request
             /\ Abstract!StateAfter(new)[i - 1]
                  = ReplayFrom(values[n], log'[n], from)[i - 1]
  <2>1. /\ i \in 1 .. commitIndex'[n] /\ i - 1 \in Nat /\ from <= i - 1
        /\ i - 1 <= Len(new) /\ from \in Nat
        /\ \A j \in 1 .. i - 1 : j \in 1 .. commitIndex'[n]
    BY <1>1, <1>2, <1>3
  <2>2. \A j \in 1 .. i - 1 : new[j] = log'[n][j].request
    BY <1>2, <2>1
  <2>3. Abstract!StateAfter(new)[i - 1] = ReplayFrom(NoValues, log'[n], 0)[i - 1]
    BY <1>2, <2>1, <2>2, StateAfterReplays
  <2>4. ReplayFrom(values[n], log'[n], from)[i - 1]
          = ReplayFrom(NoValues, log'[n], 0)[i - 1]
    BY <1>5, <2>1, ReplayOn
  <2> QED  BY <1>2, <2>1, <2>3, <2>4
<1>7. Abstract!ApplyAt(n)
  <2>1. to \in from .. Len(new)
    BY <1>1, <1>2, <1>3
  <2>2. \A m \in Node \ {n} : lastApplied'[m] = lastApplied[m]
    BY DEF OneApplies
  <2> QED  BY <2>1, <2>2 DEF Abstract!ApplyAt, new, from, to, ChosenNow
<1>8. ASSUME NEW r \in Request
      PROVE  \/ answers'[r] = answers[r]
             \/ answers[r] = Abstract!Unsent /\ answers'[r] = Abstract!Pending
             \/ /\ answers[r].status \notin Abstract!Final
                /\ \/ answers'[r] = Abstract!NotLeader
                   \/ \E i \in from + 1 .. to :
                        /\ new[i] = r
                        /\ answers'[r] =
                             Abstract!Outcome(i,
                               Abstract!Apply(Abstract!StateAfter(new)[i - 1],
                                              CommandOf[r]))
  <2>1. CASE answers'[r] = answers[r]
    BY <2>1
  <2>2. CASE answers[r] = Unsent /\ answers'[r] = Pending
    BY <2>2, SameMachine
  <2>3. ASSUME answers[r] \in {Unsent, Pending}
        PROVE  answers[r].status \notin Abstract!Final
    BY <2>3 DEF Unsent, Pending, Abstract!Final
  <2>4. CASE answers[r] \in {Unsent, Pending} /\ answers'[r] = NotLeader
    BY <2>3, <2>4, SameMachine
  <2>5. ASSUME answers[r] \in {Unsent, Pending},
               NEW i \in from + 1 .. to, log'[n][i].request = r,
               answers'[r] = Outcome(i, Apply(ReplayFrom(values[n], log'[n], from)[i - 1],
                                              CommandOf[r]))
        PROVE  /\ new[i] = r
               /\ answers'[r] =
                    Abstract!Outcome(i,
                      Abstract!Apply(Abstract!StateAfter(new)[i - 1], CommandOf[r]))
    BY <1>6, <2>5, SameMachine
  <2> QED  BY <2>1, <2>2, <2>3, <2>4, <2>5 DEF AnswerMoves, from, to
<1>9. Abstract!Answer(n)
  BY <1>8 DEF Abstract!Answer, new, from, to, ChosenNow
<1> QED  BY <1>7, <1>9

\* Every task of the cluster is a step of the abstract log, or a stutter.
LEMMA StepImplements ==
    ASSUME IInv, LInv, FuturesFit, MapsReplayed, ChosenIsOne, ChosenIsOne', Next
    PROVE  Abstract!Next
<1>1. PICK n \in Node : AnswerMoves(n) /\ OneApplies(n)
  BY EveryAnswerMoves
<1>2. TypeOK /\ TypeOK' /\ CommitsStay
  BY LInvIsKept, EveryStepIsGood DEF IInv, GoodStep
<1>3. Abstract!Choose
  BY <1>2, StepChooses
<1>4. Abstract!ApplyAt(n) /\ Abstract!Answer(n)
  BY <1>1, StepAnswers
<1> QED  BY <1>1, <1>3, <1>4 DEF Abstract!Next, Abstract!Step

LEMMA InitImplements ==
    ASSUME Init, ChosenIsOne
    PROVE  Abstract!Init
<1>1. /\ ChosenNow \in Seq(Request) /\ Len(ChosenNow) = 0
  BY DEF ChosenIsOne, Init
<1>2. ChosenNow = <<>>
  BY <1>1, EmptySeq
<1>3. /\ lastApplied = [n \in Node |-> 0]
      /\ answers = [r \in Request |-> Abstract!Unsent]
  BY SameMachine DEF Init
<1> QED  BY <1>2, <1>3 DEF Abstract!Init, ChosenNow

\* In every cluster, whatever is lost, late or interleaved, the nodes are
\* one replicated log to their clients: the committed submissions only grow,
\* every node applies a prefix of them, and a client is told COMMITTED or
\* FAILED once, with its command's place and the result of replaying the log
\* up to it.
THEOREM ClusterIsOneLog == Spec => ImplementsReplicatedLog
<1>1. IInv /\ LInv /\ PlacedOnce => ChosenIsOne
  BY ChosenMakesOne
<1>2. Init /\ ChosenIsOne => Abstract!Init
  BY InitImplements
<1>3. IInv /\ LInv /\ FuturesFit /\ MapsReplayed /\ ChosenIsOne /\ ChosenIsOne'
        /\ [Next]_vars => [Abstract!Next]_(Abstract!vars)
  <2>1. ASSUME UNCHANGED vars PROVE UNCHANGED Abstract!vars
    <3>1. UNCHANGED <<log, commitIndex, lastApplied, answers>>
      BY <2>1 DEF vars, logVars, clientVars
    <3>2. Longest' = Longest
      BY <3>1 DEF Longest
    <3> QED  BY <3>1, <3>2 DEF Abstract!vars
  <2> QED  BY <2>1, StepImplements
<1> QED
  BY <1>1, <1>2, <1>3, IInvHolds, HistoryKept, FuturesAreFit, MapsAreReplays,
     CommandsHavePlaces, PTL DEF Spec, ImplementsReplicatedLog, Abstract!Spec

=============================================================================
