----------------------------- MODULE RaftProofs -----------------------------
(***************************************************************************)
(* Proofs about Raft.tla for every cluster, log and bound: its types, that *)
(* votes and terms only move on, and that a leader's books stay within its *)
(* log.                                                                    *)
(*                                                                         *)
(* Every step is shown to be a GoodStep, action by action; good steps keep *)
(* the inductive invariant IInv, and the theorems follow.  The last part   *)
(* adds who voted for whom: one leader per term.                           *)
(***************************************************************************)
EXTENDS RaftProperties, Extremes, SequenceTheorems, TLAPS

---------------------------------------------------------------------------
(* Operators on logs. *)

\* The greatest of a set of indices, or the default, is an index.
LEMMA GreatestInSet ==
    ASSUME NEW k \in Nat, NEW m \in Nat, NEW S, S \subseteq k .. m, NEW d \in Nat
    PROVE  Greatest(S, d) \in Nat
<1>1. CASE S = {}
  BY <1>1 DEF Greatest
<1>2. CASE S # {}
  <2>1. S \subseteq 0 .. m
    OBVIOUS
  <2>2. PICK x \in S : \A y \in S : y <= x
    BY <1>2, <2>1, GreatestExists
  <2>3. Greatest(S, d) \in S
    BY <2>2, <1>2 DEF Greatest
  <2>4. \A z \in S : z \in Nat
    OBVIOUS
  <2> QED  BY <2>3, <2>4
<1> QED  BY <1>1, <1>2

\* advanceCommitIndex() leaves a natural number in commitIndex.
LEMMA AdvanceCommitType ==
    ASSUME NEW n, NEW l \in Seq(LogEntry), NEW match, NEW commit \in Nat
    PROVE  AdvanceCommit(n, l, match, commit) \in Nat
<1>1. Len(l) \in Nat /\ commit + 1 \in Nat
  BY LenProperties
<1> QED  BY <1>1, GreatestInSet DEF AdvanceCommit, LastIndex

\* The min() a follower takes over from the leader is a natural number.
LEMMA FollowerCommitType ==
    ASSUME NEW c \in AppendCall, NEW own \in Nat
    PROVE  FollowerCommit(c, own) \in Nat
<1>1. c.leaderCommit \in Nat /\ c.prevLogIndex \in Nat /\ Len(c.entries) \in Nat
  BY LenProperties DEF AppendCall
<1> QED  BY <1>1 DEF FollowerCommit, MinOf

\* LogStore.get() answers for every index up to the end of the log.
LEMMA TermAtType ==
    ASSUME NEW l \in Seq(LogEntry), NEW i \in 0 .. Len(l)
    PROVE  TermAt(l, i) \in Nat
<1>1. CASE i = 0
  BY <1>1 DEF TermAt
<1>2. CASE i # 0
  <2>1. i \in 1 .. Len(l)
    BY <1>2, LenProperties
  <2>2. l[i] \in LogEntry
    BY <2>1, ElementOfSeq
  <2> QED  BY <1>2, <2>2 DEF TermAt, LogEntry
<1> QED  BY <1>1, <1>2

\* lastTerm() and lastIndex() are defined for every log.
LEMMA LastTermType ==
    ASSUME NEW l \in Seq(LogEntry)
    PROVE  LastTerm(l) \in Nat /\ LastIndex(l) \in Nat
BY TermAtType, LenProperties DEF LastTerm, LastIndex

\* What a follower's log is after a merge is again a log.
LEMMA MergeType ==
    ASSUME NEW l \in Seq(LogEntry), NEW entries \in Seq(LogEntry),
           NEW prev \in 0 .. Len(l)
    PROVE  Merge(l, prev, entries) \in Seq(LogEntry)
<1> DEFINE D == Differing(l, prev, entries)
<1>1. Len(l) \in Nat /\ Len(entries) \in Nat
  BY LenProperties
<1>2. CASE D = {}
  BY <1>2 DEF Merge
<1>3. CASE D # {}
  <2> DEFINE first == CHOOSE k \in D : \A j \in D : k <= j
  <2>1. D \subseteq 1 .. Len(entries)
    BY DEF Differing
  <2>2. PICK x \in D : \A y \in D : x <= y
    <3>1. D \subseteq Nat
      BY <2>1, <1>1
    <3> HIDE DEF D
    <3> QED  BY <1>3, <3>1, LeastExists
  <2>3. first \in D /\ \A j \in D : first <= j
    <3> HIDE DEF D
    <3> QED  BY <2>2
  <2>4. prev + first - 1 \in 0 .. Len(l)
    <3> HIDE DEF first
    <3>1. first \in 1 .. Len(entries)
      BY <2>1, <2>3
    <3>2. CASE first = 1
      BY <3>2, <1>1
    <3>3. CASE first # 1
      <4>1. first - 1 \in 1 .. Len(entries) /\ ~ (first <= first - 1)
        BY <3>1, <3>3, <1>1
      <4>2. first - 1 \notin D
        BY <2>3, <4>1
      <4>3. prev + (first - 1) <= Len(l)
        BY <4>1, <4>2, <1>1 DEF Differing, LastIndex
      <4> QED  BY <3>1, <4>3, <1>1
    <3> QED  BY <3>2, <3>3
  <2>5. TruncateFrom(l, prev + first) \in Seq(LogEntry)
    <3> HIDE DEF first
    <3>1. first \in Nat
      BY <2>1, <2>3, <1>1
    <3> QED  BY <2>4, <3>1, <1>1, SubSeqProperties DEF TruncateFrom
  <2>6. EntriesFrom(entries, first) \in Seq(LogEntry)
    <3> HIDE DEF first
    <3>1. first \in 1 .. Len(entries)
      BY <2>1, <2>3
    <3> QED  BY <3>1, <1>1, SubSeqProperties DEF EntriesFrom
  <2>7. Merge(l, prev, entries)
           = TruncateFrom(l, prev + first) \o EntriesFrom(entries, first)
    BY <1>3 DEF Merge
  <2> HIDE DEF first
  <2> QED  BY <2>5, <2>6, <2>7, ConcatProperties
<1> QED  BY <1>2, <1>3

---------------------------------------------------------------------------
(* The inductive invariant.  A leader reads its log just before nextIndex, *)
(* so the types need that nextIndex is within the log.  That needs the     *)
(* same of every answer that may still move it: no call of a leader's own  *)
(* term, on its way or answered, claims more than the leader's log, which  *)
(* holds because that log does not shrink while it leads.                  *)

\* What a call of node n in a term, covering its log up to i, must satisfy.
Fits(n, term, i) ==
    /\ term <= currentTerm[n]
    /\ term = currentTerm[n] =>
         /\ status[n] # "CANDIDATE"
         /\ status[n] = "LEADER" => i <= Len(log[n])

CallsFit ==
    /\ \A c \in appendCalls :
          Fits(c.from, c.term, c.prevLogIndex + Len(c.entries))
    /\ \A c \in appendReplies :
          Fits(c.to, c.roundTerm, c.prevLogIndex + c.sentCount)

BooksFit ==
    \A n \in Node : status[n] = "LEADER" =>
        \A p \in Node : /\ nextIndex[n][p] <= Len(log[n]) + 1
                        /\ matchIndex[n][p] <= Len(log[n])

IInv == TypeOK /\ CallsFit /\ BooksFit

\* What a step does to the term, vote, role and log of any node n.
MovesOn(n) ==
    /\ currentTerm'[n] >= currentTerm[n]
    /\ currentTerm'[n] = currentTerm[n] =>
         /\ votedFor[n] # Nil => votedFor'[n] = votedFor[n]
         /\ status'[n] = "CANDIDATE" => status[n] = "CANDIDATE"
         /\ status'[n] = "LEADER" =>
              \/ status[n] = "CANDIDATE"
              \/ status[n] = "LEADER" /\ Len(log'[n]) >= Len(log[n])

\* A call is a leader's new one, or covers what one before the step did.
SentByLeader(c) ==
    /\ c.term = currentTerm'[c.from]
    /\ status'[c.from] = "LEADER"
    /\ c.prevLogIndex + Len(c.entries) <= Len(log'[c.from])

CoversAs(c, d) ==
    /\ c.from = d.from /\ c.term = d.term
    /\ c.prevLogIndex = d.prevLogIndex /\ c.entries = d.entries

Answers(c, d) ==
    /\ c.to = d.from /\ c.roundTerm = d.term
    /\ c.prevLogIndex = d.prevLogIndex /\ c.sentCount = Len(d.entries)

CallsComeFromCalls ==
    /\ \A c \in appendCalls' :
          SentByLeader(c) \/ \E d \in appendCalls : CoversAs(c, d)
    /\ \A c \in appendReplies' :
          c \in appendReplies \/ \E d \in appendCalls : Answers(c, d)

\* What leads and led before keeps its books.
BooksKept ==
    \A n \in Node : status'[n] = "LEADER" =>
        /\ status[n] = "LEADER"
        /\ Len(log'[n]) >= Len(log[n])
        /\ nextIndex'[n] = nextIndex[n] /\ matchIndex'[n] = matchIndex[n]

\* The part of every step that the theorems are about.
GoodStep ==
    /\ TypeOK'
    /\ \A n \in Node : MovesOn(n)
    /\ CallsComeFromCalls
    /\ BooksFit'

---------------------------------------------------------------------------
(* Lemmas about the parts that several tasks share. *)

\* What fitted a node's log before a step that moves on still fits after it.
LEMMA FitsIsKept ==
    ASSUME TypeOK, TypeOK', NEW n \in Node, MovesOn(n),
           NEW term \in Nat, NEW i \in Nat, Fits(n, term, i)
    PROVE  Fits(n, term, i)'
<1>1. currentTerm[n] \in Nat /\ currentTerm'[n] \in Nat
  BY DEF TypeOK, ElectionTypes
<1>2. Len(log[n]) \in Nat /\ Len(log'[n]) \in Nat
  BY LenProperties DEF TypeOK, LogTypes
<1> QED  BY <1>1, <1>2 DEF Fits, MovesOn

\* A good step keeps every call and answer within its leader's log.
LEMMA CallsStayFit ==
    ASSUME IInv, GoodStep
    PROVE  CallsFit'
<1>1. TypeOK /\ TypeOK' /\ CallsFit /\ CallsComeFromCalls
      /\ \A n \in Node : MovesOn(n)
  BY DEF IInv, GoodStep
<1>2. ASSUME NEW c \in appendCalls'
      PROVE  Fits(c.from, c.term, c.prevLogIndex + Len(c.entries))'
  <2>1. c \in AppendCall
    BY <1>1 DEF TypeOK, AppendTypes
  <2>2. /\ c.from \in Node /\ c.term \in Nat
        /\ c.prevLogIndex + Len(c.entries) \in Nat
    BY <2>1, LenProperties DEF AppendCall
  <2>3. CASE SentByLeader(c)
    BY <2>2, <2>3 DEF SentByLeader, Fits
  <2>4. CASE \E d \in appendCalls : CoversAs(c, d)
    <3>1. Fits(c.from, c.term, c.prevLogIndex + Len(c.entries))
      BY <1>1, <2>4 DEF CallsFit, CoversAs
    <3> QED  BY <1>1, <2>2, <3>1, FitsIsKept
  <2> QED  BY <1>1, <2>3, <2>4 DEF CallsComeFromCalls
<1>3. ASSUME NEW c \in appendReplies'
      PROVE  Fits(c.to, c.roundTerm, c.prevLogIndex + c.sentCount)'
  <2>1. c \in AppendReply
    BY <1>1 DEF TypeOK, AppendTypes
  <2>2. /\ c.to \in Node /\ c.roundTerm \in Nat
        /\ c.prevLogIndex + c.sentCount \in Nat
    BY <2>1 DEF AppendReply
  <2>3. Fits(c.to, c.roundTerm, c.prevLogIndex + c.sentCount)
    BY <1>1 DEF CallsFit, CallsComeFromCalls, Answers
  <2> QED  BY <1>1, <2>2, <2>3, FitsIsKept
<1> QED  BY <1>2, <1>3 DEF CallsFit

\* Books that a step does not touch still fit a log that did not shrink.
LEMMA BooksStayFit ==
    ASSUME TypeOK, TypeOK', BooksFit, BooksKept
    PROVE  BooksFit'
<1> SUFFICES ASSUME NEW n \in Node, status'[n] = "LEADER", NEW p \in Node
             PROVE  /\ nextIndex'[n][p] <= Len(log'[n]) + 1
                    /\ matchIndex'[n][p] <= Len(log'[n])
  BY DEF BooksFit
<1>1. Len(log[n]) \in Nat /\ Len(log'[n]) \in Nat
  BY LenProperties DEF TypeOK, LogTypes
<1>2. nextIndex[n][p] \in Nat /\ matchIndex[n][p] \in Nat
  BY DEF TypeOK, LeaderTypes
<1> QED  BY <1>1, <1>2 DEF BooksFit, BooksKept

\* A request covers exactly the rest of the sender's log.
LEMMA AppendRequestType ==
    ASSUME NEW n \in Node, NEW p \in Node, NEW t \in Nat,
           NEW l \in Seq(LogEntry), NEW next \in 1 .. Len(l) + 1,
           NEW commit \in Nat
    PROVE  LET c == AppendRequest(n, p, t, l, next, commit)
           IN  /\ c \in AppendCall
               /\ c.from = n /\ c.term = t
               /\ c.prevLogIndex + Len(c.entries) = Len(l)
<1> DEFINE c == AppendRequest(n, p, t, l, next, commit)
<1>1. Len(l) \in Nat
  BY LenProperties
<1>2. /\ EntriesFrom(l, next) \in Seq(LogEntry)
      /\ Len(EntriesFrom(l, next)) = Len(l) - next + 1
  <2>1. \A i \in next .. Len(l) : l[i] \in LogEntry
    BY <1>1, ElementOfSeq
  <2> QED  BY <1>1, <2>1, SubSeqProperties DEF EntriesFrom
<1>3. TermAt(l, next - 1) \in Nat /\ next - 1 \in Nat
  BY <1>1, TermAtType
<1>4. OutstandingAppend(n, p, t) \in BOOLEAN
  BY DEF OutstandingAppend
<1>5. c \in AppendCall
  BY <1>2, <1>3, <1>4 DEF AppendRequest, AppendCall
<1>6. c.from = n /\ c.term = t /\ c.prevLogIndex = next - 1
      /\ c.entries = EntriesFrom(l, next)
  BY DEF AppendRequest
<1> QED  BY <1>1, <1>2, <1>5, <1>6

\* replicateTo() keeps the types, and what it sends is new or was there.
LEMMA ReplicateToStep ==
    ASSUME TypeOK, NEW n \in Node, NEW to \in SUBSET Node, NEW t \in Nat,
           NEW l \in Seq(LogEntry), NEW next \in [Node -> Nat \ {0}],
           \A p \in to : next[p] <= Len(l) + 1,
           NEW commit \in Nat, NEW busy \in SUBSET Node,
           ReplicateTo(n, to, t, l, next, commit, busy, appendCalls)
    PROVE  /\ inFlight' \in [Node -> SUBSET Node]
           /\ appendCalls' \subseteq AppendCall
           /\ \A c \in appendCalls' :
                 \/ c \in appendCalls
                 \/ /\ c.from = n /\ c.term = t
                    /\ c.prevLogIndex + Len(c.entries) = Len(l)
<1>1. inFlight' \in [Node -> SUBSET Node]
  BY DEF ReplicateTo, TypeOK, LeaderTypes
<1>2. ASSUME NEW p \in to
      PROVE  next[p] \in 1 .. Len(l) + 1
  <2>1. Len(l) \in Nat /\ next[p] \in Nat \ {0}
    BY LenProperties
  <2> QED  BY <2>1
<1>3. ASSUME NEW c \in appendCalls', c \notin appendCalls
      PROVE  /\ c \in AppendCall
             /\ c.from = n /\ c.term = t
             /\ c.prevLogIndex + Len(c.entries) = Len(l)
  <2>1. PICK p \in to : c = AppendRequest(n, p, t, l, next[p], commit)
    BY <1>3 DEF ReplicateTo
  <2>2. next[p] \in 1 .. Len(l) + 1 /\ p \in Node
    BY <1>2
  <2> QED  BY <2>1, <2>2, AppendRequestType
<1> QED  BY <1>1, <1>3 DEF TypeOK, AppendTypes

\* applyCommitted() keeps the types.
LEMMA ApplyCommittedTypes ==
    ASSUME TypeOK, NEW n \in Node, NEW l, NEW commit \in Nat,
           NEW futures \in SUBSET [index : Nat, request : Request],
           NEW given, \A r \in Request : given[r].status \in AnswerStatus,
           ApplyCommitted(n, l, commit, futures, given)
    PROVE  /\ lastApplied' \in [Node -> Nat] /\ DOMAIN values' = Node
           /\ ClientTypes'
<1>1. lastApplied' \in [Node -> Nat]
  BY DEF ApplyCommitted, MaxOf, TypeOK, LogTypes
<1>2. DOMAIN values' = Node
  BY DEF ApplyCommitted, TypeOK, LogTypes
<1>3. pendingClients' \in [Node -> SUBSET [index : Nat, request : Request]]
  BY DEF ApplyCommitted, TypeOK, ClientTypes
<1>4. DOMAIN answers' = Request
  BY DEF ApplyCommitted
<1>5. ASSUME NEW r \in Request PROVE answers'[r].status \in AnswerStatus
  <2>1. \A i, x : Outcome(i, x).status \in AnswerStatus
    BY DEF Outcome, AnswerStatus
  <2>2. \/ answers'[r] = given[r]
        \/ \E i, x : answers'[r] = Outcome(i, x)
    BY Zenon DEF ApplyCommitted
  <2> QED  BY <2>1, <2>2
<1> QED  BY <1>1, <1>2, <1>3, <1>4, <1>5 DEF ClientTypes

\* Completing futures with NOT_LEADER leaves every answer well-formed.
LEMMA FailFuturesType ==
    ASSUME TypeOK, NEW futures
    PROVE  /\ DOMAIN FailFutures(futures) = Request
           /\ \A r \in Request : FailFutures(futures)[r].status \in AnswerStatus
BY DEF FailFutures, NotLeader, AnswerStatus, TypeOK, ClientTypes

\* failPendingClients() keeps the types.
LEMMA FailPendingClientsTypes ==
    ASSUME TypeOK, NEW n \in Node, FailPendingClients(n)
    PROVE  ClientTypes'
<1>1. pendingClients' \in [Node -> SUBSET [index : Nat, request : Request]]
  BY DEF FailPendingClients, TypeOK, ClientTypes
<1>2. answers' = FailFutures(pendingClients[n])
  BY DEF FailPendingClients
<1> QED  BY <1>1, <1>2, FailFuturesType DEF ClientTypes

---------------------------------------------------------------------------
(* Nodes that a step does not touch, and nodes that step down.             *)

\* A step that changes no term, vote, role or log moves every node on.
LEMMA StillMovesOn ==
    ASSUME TypeOK, UNCHANGED <<currentTerm, votedFor, status, log>>
    PROVE  \A n \in Node : MovesOn(n)
<1> TAKE n \in Node
<1>1. currentTerm[n] \in Nat /\ status[n] \in ServerStatus
  BY DEF TypeOK, ElectionTypes
<1>2. Len(log[n]) \in Nat
  BY LenProperties DEF TypeOK, LogTypes
<1> QED  BY <1>1, <1>2 DEF MovesOn, ServerStatus

\* A step that changes no role, log or index keeps the books.
LEMMA StillKeepsBooks ==
    ASSUME TypeOK, UNCHANGED <<status, log, nextIndex, matchIndex>>
    PROVE  BooksKept
<1>1. \A n \in Node : Len(log[n]) \in Nat
  BY LenProperties DEF TypeOK, LogTypes
<1> QED  BY <1>1 DEF BooksKept

\* becomeFollower() only moves on, and leaves a follower with its timer.
LEMMA BecomeFollowerStep ==
    ASSUME TypeOK, NEW n \in Node, NEW t \in Nat, t >= currentTerm[n],
           BecomeFollower(n, t)
    PROVE  /\ currentTerm' = [currentTerm EXCEPT ![n] = t]
           /\ status' = [status EXCEPT ![n] = "FOLLOWER"]
           /\ currentTerm' \in [Node -> Nat]
           /\ status' \in [Node -> ServerStatus]
           /\ heartbeat' \in [Node -> BOOLEAN]
           /\ electionTimer' \in [Node -> BOOLEAN]
<1>1. currentTerm[n] \in Nat /\ MaxOf(currentTerm[n], t) = t
  BY DEF TypeOK, ElectionTypes, MaxOf
<1>2. currentTerm' = [currentTerm EXCEPT ![n] = t]
  BY <1>1 DEF BecomeFollower
<1> QED  BY <1>2 DEF BecomeFollower, TypeOK, ElectionTypes, TimerTypes, ServerStatus

\* What becomeFollower() leaves in votedFor is a node or null.
LEMMA ForgetVoteType ==
    ASSUME TypeOK, NEW n \in Node, NEW t
    PROVE  ForgetVote(n, t) \in Node \cup {Nil}
BY DEF ForgetVote, TypeOK, ElectionTypes

\* A node that follows in term t, at least its own, with the vote it had in
\* that term: whatever becomes of its log, it and all others move on.
LEMMA FollowerMovesOn ==
    ASSUME TypeOK, NEW n \in Node, NEW t \in Nat, t >= currentTerm[n],
           currentTerm' = [currentTerm EXCEPT ![n] = t],
           status' = [status EXCEPT ![n] = "FOLLOWER"],
           votedFor' \in [Node -> Node \cup {Nil}],
           \A m \in Node \ {n} : votedFor'[m] = votedFor[m] /\ log'[m] = log[m],
           t = currentTerm[n] /\ votedFor[n] # Nil => votedFor'[n] = votedFor[n]
    PROVE  \A m \in Node : MovesOn(m)
<1> TAKE m \in Node
<1>1. currentTerm[m] \in Nat /\ status[m] \in ServerStatus /\ Len(log[m]) \in Nat
  BY LenProperties DEF TypeOK, ElectionTypes, LogTypes
<1>2. CASE m = n
  <2>1. currentTerm'[m] = t /\ status'[m] = "FOLLOWER"
    BY <1>2 DEF TypeOK, ElectionTypes
  <2> QED  BY <1>1, <1>2, <2>1 DEF MovesOn
<1>3. CASE m # n
  <2>1. /\ currentTerm'[m] = currentTerm[m] /\ status'[m] = status[m]
        /\ votedFor'[m] = votedFor[m] /\ log'[m] = log[m]
    BY <1>3 DEF TypeOK, ElectionTypes
  <2> QED  BY <1>1, <2>1 DEF MovesOn, ServerStatus
<1> QED  BY <1>2, <1>3

\* A node that becomes a follower leaves the leaders' books as they were.
LEMMA FollowerKeepsBooks ==
    ASSUME TypeOK, NEW n \in Node,
           status' = [status EXCEPT ![n] = "FOLLOWER"],
           \A m \in Node \ {n} : log'[m] = log[m],
           UNCHANGED <<nextIndex, matchIndex>>
    PROVE  BooksKept
<1> SUFFICES ASSUME NEW m \in Node, status'[m] = "LEADER"
             PROVE  /\ status[m] = "LEADER" /\ Len(log'[m]) >= Len(log[m])
                    /\ nextIndex'[m] = nextIndex[m]
                    /\ matchIndex'[m] = matchIndex[m]
  BY DEF BooksKept
<1>1. m # n /\ status[m] = "LEADER"
  BY DEF TypeOK, ElectionTypes
<1>2. Len(log[m]) \in Nat
  BY LenProperties DEF TypeOK, LogTypes
<1> QED  BY <1>1, <1>2

\* A node that steps down: all of GoodStep but the calls.
LEMMA StepDownStep ==
    ASSUME TypeOK, NEW n \in Node, NEW t \in Nat, t >= currentTerm[n],
           StepDown(n, t)
    PROVE  /\ ElectionTypes' /\ TimerTypes' /\ LogTypes' /\ ClientTypes'
           /\ \A m \in Node : MovesOn(m)
           /\ BooksKept
<1>1. BecomeFollower(n, t) /\ FailPendingClients(n)
  BY DEF StepDown
<1>2. votedFor' = [votedFor EXCEPT ![n] = ForgetVote(n, t)]
  BY DEF StepDown
<1>3. UNCHANGED <<currentLeaderId, votesReceived, leakedHeartbeat, started,
                  log, commitIndex, lastApplied, values, nextIndex, matchIndex>>
  BY DEF StepDown, logVars
<1>4. /\ currentTerm' = [currentTerm EXCEPT ![n] = t]
      /\ status' = [status EXCEPT ![n] = "FOLLOWER"]
      /\ currentTerm' \in [Node -> Nat]
      /\ status' \in [Node -> ServerStatus]
      /\ heartbeat' \in [Node -> BOOLEAN]
      /\ electionTimer' \in [Node -> BOOLEAN]
  BY <1>1, BecomeFollowerStep
<1>5. votedFor' \in [Node -> Node \cup {Nil}]
  BY <1>2, ForgetVoteType DEF TypeOK, ElectionTypes
<1>6. /\ \A m \in Node \ {n} : votedFor'[m] = votedFor[m]
      /\ t = currentTerm[n] => votedFor'[n] = votedFor[n]
  BY <1>2 DEF TypeOK, ElectionTypes, ForgetVote
<1>7. \A m \in Node : MovesOn(m)
  BY <1>3, <1>4, <1>5, <1>6, FollowerMovesOn
<1>8. BooksKept
  BY <1>3, <1>4, FollowerKeepsBooks
<1>9. ElectionTypes' /\ TimerTypes' /\ LogTypes'
  BY <1>3, <1>4, <1>5 DEF TypeOK, ElectionTypes, TimerTypes, LogTypes
<1>10. ClientTypes'
  BY <1>1, FailPendingClientsTypes
<1> QED  BY <1>7, <1>8, <1>9, <1>10

---------------------------------------------------------------------------
(* The tasks, one lemma each: timers and clients. *)

\* start(): only arms a timer.
LEMMA StartStep ==
    ASSUME IInv, NEW n \in Node, Start(n)
    PROVE  GoodStep
<1>1. TypeOK'
  BY DEF Start, IInv, TypeOK, ElectionTypes, TimerTypes, LogTypes, LeaderTypes,
         ClientTypes, VoteTypes, AppendTypes, electionVars, logVars, leaderVars,
         clientVars, voteVars, appendVars
<1>2. UNCHANGED <<currentTerm, votedFor, status, log, nextIndex, matchIndex,
                  appendCalls, appendReplies>>
  BY DEF Start, electionVars, logVars, leaderVars, appendVars
<1>3. CallsComeFromCalls
  BY <1>2 DEF CallsComeFromCalls, CoversAs
<1> QED  BY <1>1, <1>2, <1>3, StillMovesOn, StillKeepsBooks, BooksStayFit
         DEF GoodStep, IInv

\* submitCommand() at a follower or candidate: only answers.
LEMMA RefuseCommandStep ==
    ASSUME IInv, NEW n \in Node, NEW r \in Request, RefuseCommand(n, r)
    PROVE  GoodStep
<1>1. UNCHANGED <<electionVars, timerVars, logVars, leaderVars, pendingClients,
                  voteVars, appendVars>>
  BY DEF RefuseCommand
<1>2. ClientTypes'
  BY <1>1 DEF RefuseCommand, IInv, TypeOK, ClientTypes, NotLeader, AnswerStatus
<1>3. TypeOK'
  BY <1>1, <1>2 DEF IInv, TypeOK, ElectionTypes, TimerTypes, LogTypes, LeaderTypes,
         VoteTypes, AppendTypes, electionVars, timerVars, logVars, leaderVars,
         voteVars, appendVars
<1>4. UNCHANGED <<currentTerm, votedFor, status, log, nextIndex, matchIndex,
                  appendCalls, appendReplies>>
  BY <1>1 DEF electionVars, logVars, leaderVars, appendVars
<1>5. CallsComeFromCalls
  BY <1>4 DEF CallsComeFromCalls, CoversAs
<1> QED  BY <1>3, <1>4, <1>5, StillMovesOn, StillKeepsBooks, BooksStayFit
         DEF GoodStep, IInv

\* becomeLeader(): the new leader's books fit, and so do its requests.
LEMMA BecomeLeaderStep ==
    ASSUME TypeOK, NEW n \in Node, NEW t \in Nat, BecomeLeader(n, t)
    PROVE  /\ status' = [status EXCEPT ![n] = "LEADER"]
           /\ status' \in [Node -> ServerStatus]
           /\ currentLeaderId' \in [Node -> Node \cup {Nil}]
           /\ electionTimer' \in [Node -> BOOLEAN]
           /\ heartbeat' \in [Node -> BOOLEAN]
           /\ leakedHeartbeat' \in [Node -> BOOLEAN]
           /\ LeaderTypes'
           /\ \A p \in Node : /\ nextIndex'[n][p] = Len(log[n]) + 1
                              /\ matchIndex'[n][p] = 0
           /\ \A m \in Node \ {n} : /\ nextIndex'[m] = nextIndex[m]
                                    /\ matchIndex'[m] = matchIndex[m]
           /\ appendCalls' \subseteq AppendCall
           /\ \A c \in appendCalls' :
                 \/ c \in appendCalls
                 \/ /\ c.from = n /\ c.term = t
                    /\ c.prevLogIndex + Len(c.entries) = Len(log[n])
<1> DEFINE next == [p \in Node |-> LastIndex(log[n]) + 1]
<1>1. log[n] \in Seq(LogEntry) /\ Len(log[n]) \in Nat /\ commitIndex[n] \in Nat
  BY LenProperties DEF TypeOK, LogTypes
<1>2. /\ next \in [Node -> Nat \ {0}]
      /\ \A p \in Peers(n) : next[p] <= Len(log[n]) + 1
  BY <1>1 DEF LastIndex, Peers
<1>3. ReplicateTo(n, Peers(n), t, log[n], next, commitIndex[n], {}, appendCalls)
  BY DEF BecomeLeader
<1>4. /\ inFlight' \in [Node -> SUBSET Node]
      /\ appendCalls' \subseteq AppendCall
      /\ \A c \in appendCalls' :
            \/ c \in appendCalls
            \/ /\ c.from = n /\ c.term = t
               /\ c.prevLogIndex + Len(c.entries) = Len(log[n])
  <2>1. Peers(n) \in SUBSET Node /\ {} \in SUBSET Node
    BY DEF Peers
  <2> HIDE DEF next
  <2> QED  BY <1>1, <1>2, <1>3, <2>1, ReplicateToStep
<1>5. /\ nextIndex' = [nextIndex EXCEPT ![n] = next]
      /\ matchIndex' = [matchIndex EXCEPT ![n] = [p \in Node |-> 0]]
  BY DEF BecomeLeader
<1>6. nextIndex' \in [Node -> [Node -> Nat \ {0}]]
  BY <1>2, <1>5 DEF TypeOK, LeaderTypes
<1>7. matchIndex' \in [Node -> [Node -> Nat]]
  BY <1>5 DEF TypeOK, LeaderTypes
<1>8. \A p \in Node : /\ nextIndex'[n][p] = Len(log[n]) + 1
                     /\ matchIndex'[n][p] = 0
  BY <1>5 DEF TypeOK, LeaderTypes, LastIndex
<1>9. \A m \in Node \ {n} : /\ nextIndex'[m] = nextIndex[m]
                           /\ matchIndex'[m] = matchIndex[m]
  BY <1>5 DEF TypeOK, LeaderTypes
<1>10. /\ status' = [status EXCEPT ![n] = "LEADER"]
       /\ status' \in [Node -> ServerStatus]
       /\ currentLeaderId' \in [Node -> Node \cup {Nil}]
  BY DEF BecomeLeader, TypeOK, ElectionTypes, ServerStatus
<1>11. /\ electionTimer' \in [Node -> BOOLEAN]
       /\ heartbeat' \in [Node -> BOOLEAN]
       /\ leakedHeartbeat' \in [Node -> BOOLEAN]
  <2>1. (leakedHeartbeat[n] \/ heartbeat[n]) \in BOOLEAN
    OBVIOUS
  <2> QED  BY <2>1 DEF BecomeLeader, TypeOK, TimerTypes
<1> QED  BY <1>4, <1>6, <1>7, <1>8, <1>9, <1>10, <1>11 DEF LeaderTypes

\* Books that fit a new leader and, as before, the leaders there were.
LEMMA NewLeaderBooksFit ==
    ASSUME TypeOK, BooksFit, NEW n \in Node, BecomeLeader(n, currentTerm'[n]),
           currentTerm'[n] \in Nat, log' = log
    PROVE  BooksFit'
<1>1. \A m \in Node : Len(log[m]) \in Nat
  BY LenProperties DEF TypeOK, LogTypes
<1>2. /\ status' = [status EXCEPT ![n] = "LEADER"]
      /\ \A p \in Node : /\ nextIndex'[n][p] = Len(log[n]) + 1
                         /\ matchIndex'[n][p] = 0
      /\ \A m \in Node \ {n} : /\ nextIndex'[m] = nextIndex[m]
                               /\ matchIndex'[m] = matchIndex[m]
  BY BecomeLeaderStep
<1> SUFFICES ASSUME NEW m \in Node, status'[m] = "LEADER", NEW p \in Node
             PROVE  /\ nextIndex'[m][p] <= Len(log'[m]) + 1
                    /\ matchIndex'[m][p] <= Len(log'[m])
  BY DEF BooksFit
<1>3. CASE m = n
  BY <1>1, <1>2, <1>3
<1>4. CASE m # n
  <2>1. status[m] = "LEADER"
    BY <1>2, <1>4 DEF TypeOK, ElectionTypes
  <2> QED  BY <1>2, <1>4, <2>1 DEF BooksFit
<1> QED  BY <1>3, <1>4

\* startElectionRound(): a new term, so that no call of the old one binds.
LEMMA StartElectionRoundStep ==
    ASSUME IInv, NEW n \in Node, StartElectionRound(n)
    PROVE  GoodStep
<1> USE DEF IInv
<1>1. /\ currentTerm' = [currentTerm EXCEPT ![n] = @ + 1]
      /\ votedFor' = [votedFor EXCEPT ![n] = n]
      /\ votesReceived' = [votesReceived EXCEPT ![n] = 1]
      /\ UNCHANGED <<started, log, commitIndex, lastApplied, values,
                     pendingClients, answers, voteReplies, appendReplies>>
  BY DEF StartElectionRound, logVars, clientVars
<1>2. currentTerm'[n] = currentTerm[n] + 1 /\ currentTerm[n] \in Nat
  BY <1>1 DEF TypeOK, ElectionTypes
<1>3. /\ currentTerm' \in [Node -> Nat] /\ votesReceived' \in [Node -> Nat]
      /\ votedFor' \in [Node -> Node \cup {Nil}]
  BY <1>1 DEF TypeOK, ElectionTypes
<1>4. \A m \in Node \ {n} : currentTerm'[m] = currentTerm[m]
                           /\ votedFor'[m] = votedFor[m]
  BY <1>1 DEF TypeOK, ElectionTypes
<1>5. LogTypes' /\ ClientTypes'
  BY <1>1 DEF TypeOK, LogTypes, ClientTypes
<1>6. \A m \in Node : Len(log[m]) \in Nat
  BY LenProperties DEF TypeOK, LogTypes
<1>7. ASSUME \A m \in Node \ {n} : status'[m] = status[m]
      PROVE  \A m \in Node : MovesOn(m)
  <2> TAKE m \in Node
  <2>1. status[m] \in ServerStatus /\ currentTerm[m] \in Nat
    BY DEF TypeOK, ElectionTypes
  <2>2. CASE m = n
    BY <1>2, <2>2 DEF MovesOn
  <2>3. CASE m # n
    BY <1>1, <1>4, <1>6, <1>7, <2>1, <2>3 DEF MovesOn, ServerStatus
  <2> QED  BY <2>2, <2>3
<1>8. CASE 1 >= Majority
  <2>1. BecomeLeader(n, currentTerm'[n]) /\ UNCHANGED voteCalls
    BY <1>2, <1>8 DEF StartElectionRound
  <2>2. currentTerm'[n] \in Nat
    BY <1>2
  <2>3. /\ status' = [status EXCEPT ![n] = "LEADER"]
        /\ status' \in [Node -> ServerStatus]
        /\ currentLeaderId' \in [Node -> Node \cup {Nil}]
        /\ electionTimer' \in [Node -> BOOLEAN]
        /\ heartbeat' \in [Node -> BOOLEAN]
        /\ leakedHeartbeat' \in [Node -> BOOLEAN]
        /\ LeaderTypes'
        /\ appendCalls' \subseteq AppendCall
        /\ \A c \in appendCalls' :
              \/ c \in appendCalls
              \/ /\ c.from = n /\ c.term = currentTerm'[n]
                 /\ c.prevLogIndex + Len(c.entries) = Len(log[n])
    BY <2>1, <2>2, BecomeLeaderStep
  <2>4. TypeOK'
    BY <1>1, <1>3, <1>5, <2>1, <2>3
       DEF TypeOK, ElectionTypes, TimerTypes, VoteTypes, AppendTypes
  <2>5. status'[n] = "LEADER" /\ \A m \in Node \ {n} : status'[m] = status[m]
    BY <2>3 DEF TypeOK, ElectionTypes
  <2>6. CallsComeFromCalls
    BY <1>1, <1>6, <2>3, <2>5 DEF CallsComeFromCalls, CoversAs, SentByLeader
  <2>7. BooksFit'
    BY <1>1, <2>1, <2>2, NewLeaderBooksFit
  <2> QED  BY <1>7, <2>4, <2>5, <2>6, <2>7 DEF GoodStep
<1>9. CASE ~ (1 >= Majority)
  <2>1. /\ status' = [status EXCEPT ![n] = "CANDIDATE"]
        /\ currentLeaderId' = [currentLeaderId EXCEPT ![n] = Nil]
        /\ UNCHANGED <<electionTimer, heartbeat, leakedHeartbeat, nextIndex,
                       matchIndex, inFlight, appendCalls>>
    BY <1>9 DEF StartElectionRound, leaderVars
  <2>2. voteCalls' \subseteq VoteCall
    <3>1. LastIndex(log[n]) \in Nat /\ LastTerm(log[n]) \in Nat
      BY LastTermType DEF TypeOK, LogTypes
    <3>2. currentTerm[n] + 1 \in Nat
      BY <1>2
    <3>3. voteCalls' = voteCalls \cup
             {[from |-> n, to |-> p, term |-> currentTerm[n] + 1,
               lastLogIndex |-> LastIndex(log[n]),
               lastLogTerm |-> LastTerm(log[n])] : p \in Peers(n)}
      BY <1>9 DEF StartElectionRound
    <3> QED  BY <3>1, <3>2, <3>3 DEF VoteCall, Peers, TypeOK, VoteTypes
  <2>3. TypeOK'
    BY <1>1, <1>3, <1>5, <2>1, <2>2
       DEF TypeOK, ElectionTypes, TimerTypes, LeaderTypes, VoteTypes, AppendTypes,
           ServerStatus
  <2>4. status'[n] = "CANDIDATE" /\ \A m \in Node \ {n} : status'[m] = status[m]
    BY <2>1 DEF TypeOK, ElectionTypes
  <2>5. CallsComeFromCalls
    BY <1>1, <2>1 DEF CallsComeFromCalls, CoversAs
  <2>6. BooksKept
    BY <1>1, <1>6, <2>1, <2>4 DEF BooksKept
  <2> QED  BY <1>7, <2>3, <2>4, <2>5, <2>6, BooksStayFit DEF GoodStep
<1> QED  BY <1>8, <1>9

\* replicateToAllPeers(): each request covers the leader's log.
LEMMA HeartbeatTickStep ==
    ASSUME IInv, NEW n \in Node, HeartbeatTick(n)
    PROVE  GoodStep
<1>0. TypeOK /\ BooksFit
  BY DEF IInv
<1>1. /\ status[n] = "LEADER"
      /\ ReplicateTo(n, Peers(n), currentTerm[n], log[n], nextIndex[n],
                     commitIndex[n], inFlight[n], appendCalls)
      /\ UNCHANGED <<electionVars, timerVars, logVars, nextIndex, matchIndex,
                     clientVars, voteVars, appendReplies>>
  BY DEF HeartbeatTick
<1>2. /\ log[n] \in Seq(LogEntry) /\ Len(log[n]) \in Nat
      /\ commitIndex[n] \in Nat /\ currentTerm[n] \in Nat
      /\ nextIndex[n] \in [Node -> Nat \ {0}]
      /\ inFlight[n] \in SUBSET Node /\ Peers(n) \in SUBSET Node
  BY <1>0, LenProperties DEF TypeOK, LogTypes, ElectionTypes, LeaderTypes, Peers
<1>3. \A p \in Peers(n) : nextIndex[n][p] <= Len(log[n]) + 1
  BY <1>0, <1>1, <1>2 DEF BooksFit, Peers
<1>4. /\ inFlight' \in [Node -> SUBSET Node]
      /\ appendCalls' \subseteq AppendCall
      /\ \A c \in appendCalls' :
            \/ c \in appendCalls
            \/ /\ c.from = n /\ c.term = currentTerm[n]
               /\ c.prevLogIndex + Len(c.entries) = Len(log[n])
  <2> DEFINE next == nextIndex[n]
  <2>1. /\ ReplicateTo(n, Peers(n), currentTerm[n], log[n], next,
                       commitIndex[n], inFlight[n], appendCalls)
        /\ next \in [Node -> Nat \ {0}]
        /\ \A p \in Peers(n) : next[p] <= Len(log[n]) + 1
    BY <1>1, <1>2, <1>3
  <2> HIDE DEF next
  <2> QED  BY <1>0, <1>2, <2>1, ReplicateToStep
<1>5. TypeOK'
  BY <1>0, <1>1, <1>4 DEF TypeOK, ElectionTypes, TimerTypes, LogTypes, LeaderTypes,
     ClientTypes, VoteTypes, AppendTypes, electionVars, timerVars, logVars,
     clientVars, voteVars
<1>6. UNCHANGED <<currentTerm, votedFor, status, log, nextIndex, matchIndex,
                  appendReplies>>
  BY <1>1 DEF electionVars, logVars
<1>7. CallsComeFromCalls
  BY <1>1, <1>2, <1>4, <1>6 DEF CallsComeFromCalls, CoversAs, SentByLeader
<1> QED  BY <1>0, <1>5, <1>6, <1>7, StillMovesOn, StillKeepsBooks, BooksStayFit DEF GoodStep

\* submitCommand() at the leader: its log grows and its books still fit.
LEMMA SubmitCommandStep ==
    ASSUME IInv, NEW n \in Node, NEW r \in Request, SubmitCommand(n, r)
    PROVE  GoodStep
<1> DEFINE entry == [term |-> currentTerm[n], request |-> r]
           l == Append(log[n], entry)
           i == LastIndex(l)
           commit == AdvanceCommit(n, l, matchIndex[n], commitIndex[n])
           futures == {f \in pendingClients[n] : f.index # i}
                         \cup {[index |-> i, request |-> r]}
           given == [answers EXCEPT ![r] = Pending]
           next == nextIndex[n]
<1>0. TypeOK /\ BooksFit
  BY DEF IInv
<1>1. /\ status[n] = "LEADER"
      /\ log' = [log EXCEPT ![n] = l]
      /\ ReplicateTo(n, Peers(n), currentTerm[n], l, next,
                     commitIndex[n], inFlight[n], appendCalls)
      /\ commitIndex' = [commitIndex EXCEPT ![n] = commit]
      /\ ApplyCommitted(n, l, commit, futures, given)
      /\ UNCHANGED <<electionVars, timerVars, nextIndex, matchIndex,
                     voteVars, appendReplies>>
  BY DEF SubmitCommand
<1>2. /\ currentTerm[n] \in Nat /\ commitIndex[n] \in Nat
      /\ log[n] \in Seq(LogEntry) /\ Len(log[n]) \in Nat
      /\ next \in [Node -> Nat \ {0}]
      /\ inFlight[n] \in SUBSET Node /\ Peers(n) \in SUBSET Node
  BY <1>0, LenProperties
     DEF TypeOK, LogTypes, ElectionTypes, LeaderTypes, Peers
<1>3. l \in Seq(LogEntry) /\ Len(l) = Len(log[n]) + 1
  <2>1. entry \in LogEntry
    BY <1>2 DEF LogEntry
  <2> QED  BY <1>2, <2>1, AppendProperties
<1>4. \A p \in Node : next[p] <= Len(l) + 1
  <2>1. \A p \in Node : next[p] <= Len(log[n]) + 1 /\ next[p] \in Nat
    BY <1>0, <1>1, <1>2 DEF BooksFit
  <2> QED  BY <1>2, <1>3, <2>1
<1>5. /\ inFlight' \in [Node -> SUBSET Node]
      /\ appendCalls' \subseteq AppendCall
      /\ \A c \in appendCalls' :
            \/ c \in appendCalls
            \/ /\ c.from = n /\ c.term = currentTerm[n]
               /\ c.prevLogIndex + Len(c.entries) = Len(l)
  <2>1. \A p \in Peers(n) : next[p] <= Len(l) + 1
    BY <1>4 DEF Peers
  <2>2. ReplicateTo(n, Peers(n), currentTerm[n], l, next,
                    commitIndex[n], inFlight[n], appendCalls)
    BY <1>1
  <2> HIDE DEF next, l, entry, i, commit, futures, given
  <2>3. /\ l \in Seq(LogEntry) /\ next \in [Node -> Nat \ {0}]
        /\ currentTerm[n] \in Nat /\ commitIndex[n] \in Nat
        /\ inFlight[n] \in SUBSET Node /\ Peers(n) \in SUBSET Node
    BY <1>2, <1>3
  <2> QED  BY <1>0, <2>1, <2>2, <2>3, ReplicateToStep
<1>6. commit \in Nat
  <2> HIDE DEF l
  <2> QED  BY <1>2, <1>3, AdvanceCommitType
<1>7. /\ lastApplied' \in [Node -> Nat] /\ DOMAIN values' = Node
      /\ ClientTypes'
  <2>1. futures \in SUBSET [index : Nat, request : Request]
    <3>1. i \in Nat
      BY <1>2, <1>3 DEF LastIndex
    <3>2. pendingClients[n] \in SUBSET [index : Nat, request : Request]
      BY <1>0 DEF TypeOK, ClientTypes
    <3> HIDE DEF i
    <3> QED  BY <3>1, <3>2
  <2>2. \A q \in Request : given[q].status \in AnswerStatus
    BY <1>0 DEF TypeOK, ClientTypes, Pending, AnswerStatus
  <2> HIDE DEF futures, given, commit, l
  <2> QED  BY <1>0, <1>1, <1>6, <2>1, <2>2, ApplyCommittedTypes
<1>8. /\ log' \in [Node -> Seq(LogEntry)]
      /\ log'[n] = l /\ \A m \in Node \ {n} : log'[m] = log[m]
  <2> HIDE DEF l
  <2> QED  BY <1>0, <1>1, <1>3 DEF TypeOK, LogTypes
<1>9. commitIndex' \in [Node -> Nat]
  <2> HIDE DEF commit
  <2> QED  BY <1>0, <1>1, <1>6 DEF TypeOK, LogTypes
<1> HIDE DEF entry, l, i, commit, futures, given
<1>10. /\ UNCHANGED <<currentTerm, votedFor, status, currentLeaderId, votesReceived,
                     electionTimer, heartbeat, leakedHeartbeat, started,
                     nextIndex, matchIndex, voteCalls, voteReplies, appendReplies>>
  BY <1>1 DEF electionVars, timerVars, voteVars
<1>11. TypeOK'
  BY <1>0, <1>5, <1>7, <1>8, <1>9, <1>10
     DEF TypeOK, ElectionTypes, TimerTypes, LogTypes, LeaderTypes, VoteTypes,
         AppendTypes
<1>12. \A m \in Node : Len(log[m]) \in Nat /\ Len(log'[m]) >= Len(log[m])
  <2>1. \A m \in Node : Len(log[m]) \in Nat
    BY <1>0, LenProperties DEF TypeOK, LogTypes
  <2> QED  BY <1>3, <1>8, <2>1
<1>13. \A m \in Node : MovesOn(m)
  BY <1>0, <1>10, <1>12 DEF MovesOn, TypeOK, ElectionTypes, ServerStatus
<1>14. BooksKept
  BY <1>10, <1>12 DEF BooksKept
<1>15. CallsComeFromCalls
  BY <1>1, <1>2, <1>3, <1>5, <1>8, <1>10
     DEF CallsComeFromCalls, CoversAs, SentByLeader
<1> QED  BY <1>0, <1>11, <1>13, <1>14, <1>15, BooksStayFit DEF GoodStep

---------------------------------------------------------------------------
(* RequestVote: the voter's tasks, then the candidate's. *)

\* handleRequestVote() for an older term: only answers.
LEMMA RefuseOldCandidateStep ==
    ASSUME IInv, NEW n \in Node, NEW c \in voteCalls, RefuseOldCandidate(n, c)
    PROVE  GoodStep
<1>0. TypeOK /\ BooksFit
  BY DEF IInv
<1>1. UNCHANGED <<electionVars, timerVars, logVars, leaderVars, clientVars,
                  appendVars>>
  BY DEF RefuseOldCandidate
<1>2. VoteTypes'
  <2>1. c \in VoteCall /\ currentTerm[n] \in Nat
    BY <1>0 DEF TypeOK, VoteTypes, ElectionTypes
  <2>2. [from |-> n, to |-> c.from, roundTerm |-> c.term,
         term |-> currentTerm[n], granted |-> FALSE] \in VoteReply
    BY <2>1 DEF VoteCall, VoteReply
  <2> QED  BY <1>0, <2>2 DEF RefuseOldCandidate, TypeOK, VoteTypes
<1>3. TypeOK'
  BY <1>0, <1>1, <1>2 DEF TypeOK, ElectionTypes, TimerTypes, LogTypes, LeaderTypes,
     ClientTypes, AppendTypes, electionVars, timerVars, logVars, leaderVars,
     clientVars, appendVars
<1>4. UNCHANGED <<currentTerm, votedFor, status, log, nextIndex, matchIndex,
                  appendCalls, appendReplies>>
  BY <1>1 DEF electionVars, logVars, leaderVars, appendVars
<1>5. CallsComeFromCalls
  BY <1>4 DEF CallsComeFromCalls, CoversAs
<1> QED  BY <1>0, <1>3, <1>4, <1>5, StillMovesOn, StillKeepsBooks, BooksStayFit
         DEF GoodStep

\* handleRequestVote() otherwise: a vote once given in a term stays.
LEMMA VoteStep ==
    ASSUME IInv, NEW n \in Node, NEW c \in voteCalls, Vote(n, c)
    PROVE  GoodStep
<1> DEFINE vote    == ForgetVote(n, c.term)
           granted == /\ vote \in {Nil, c.from}
                      /\ IsLogUpToDate(log[n], c.lastLogTerm, c.lastLogIndex)
<1>0. TypeOK /\ BooksFit
  BY DEF IInv
<1>1. /\ c \in VoteCall /\ c.from \in Node /\ c.term \in Nat
      /\ currentTerm[n] \in Nat /\ c.term >= currentTerm[n]
      /\ granted \in BOOLEAN
  <2>1. granted \in BOOLEAN
    BY DEF IsLogUpToDate
  <2> HIDE DEF granted
  <2> QED  BY <1>0, <2>1 DEF Vote, TypeOK, VoteTypes, ElectionTypes, VoteCall
<1>2. /\ voteCalls' = voteCalls \ {c}
      /\ voteReplies' = voteReplies \cup
             {[from |-> n, to |-> c.from, roundTerm |-> c.term,
               term |-> c.term, granted |-> granted]}
      /\ votedFor' = [votedFor EXCEPT ![n] = IF granted THEN c.from ELSE vote]
      /\ UNCHANGED <<currentLeaderId, votesReceived, leakedHeartbeat, started,
                     logVars, leaderVars, appendVars>>
  BY DEF Vote
<1>3. /\ votedFor' \in [Node -> Node \cup {Nil}]
      /\ \A m \in Node \ {n} : votedFor'[m] = votedFor[m]
  <2>1. vote \in Node \cup {Nil}
    BY <1>0, ForgetVoteType
  <2> HIDE DEF vote, granted
  <2> QED  BY <1>0, <1>1, <1>2, <2>1 DEF TypeOK, ElectionTypes
<1>4. c.term = currentTerm[n] /\ votedFor[n] # Nil => votedFor'[n] = votedFor[n]
  <2> SUFFICES ASSUME c.term = currentTerm[n], votedFor[n] # Nil
               PROVE  votedFor'[n] = votedFor[n]
    OBVIOUS
  <2>1. vote = votedFor[n]
    BY <1>1 DEF ForgetVote
  <2>2. granted => c.from = vote
    BY <2>1
  <2> HIDE DEF vote, granted
  <2> QED  BY <1>0, <1>2, <2>1, <2>2 DEF TypeOK, ElectionTypes
<1>5. VoteTypes'
  <2> HIDE DEF granted
  <2>1. [from |-> n, to |-> c.from, roundTerm |-> c.term,
         term |-> c.term, granted |-> granted] \in VoteReply
    BY <1>1 DEF VoteReply
  <2> QED  BY <1>0, <1>2, <2>1 DEF TypeOK, VoteTypes
<1>6. UNCHANGED <<currentLeaderId, votesReceived, leakedHeartbeat, started, log,
                  commitIndex, lastApplied, values, nextIndex, matchIndex,
                  inFlight, appendCalls, appendReplies>>
  BY <1>2 DEF logVars, leaderVars, appendVars
<1>7. LogTypes' /\ LeaderTypes' /\ AppendTypes'
  BY <1>0, <1>6 DEF TypeOK, LogTypes, LeaderTypes, AppendTypes
<1>8. CallsComeFromCalls
  BY <1>6 DEF CallsComeFromCalls, CoversAs
<1>9. CASE c.term > currentTerm[n]
  <2>1. BecomeFollower(n, c.term) /\ FailPendingClients(n)
    BY <1>9 DEF Vote
  <2>2. /\ currentTerm' = [currentTerm EXCEPT ![n] = c.term]
        /\ status' = [status EXCEPT ![n] = "FOLLOWER"]
        /\ currentTerm' \in [Node -> Nat]
        /\ status' \in [Node -> ServerStatus]
        /\ heartbeat' \in [Node -> BOOLEAN]
        /\ electionTimer' \in [Node -> BOOLEAN]
    BY <1>0, <1>1, <2>1, BecomeFollowerStep
  <2>3. ClientTypes'
    BY <1>0, <2>1, FailPendingClientsTypes
  <2>4. ElectionTypes' /\ TimerTypes'
    BY <1>0, <1>3, <1>6, <2>2 DEF TypeOK, ElectionTypes, TimerTypes
  <2>5. \A m \in Node : MovesOn(m)
    BY <1>0, <1>1, <1>3, <1>4, <1>6, <2>2, FollowerMovesOn
  <2>6. BooksKept
    BY <1>0, <1>6, <2>2, FollowerKeepsBooks
  <2>7. TypeOK'
    BY <1>5, <1>7, <2>3, <2>4 DEF TypeOK
  <2> QED  BY <1>0, <1>8, <2>5, <2>6, <2>7, BooksStayFit DEF GoodStep
<1>10. CASE ~ (c.term > currentTerm[n])
  <2>1. /\ electionTimer' = [electionTimer EXCEPT ![n] = @ \/ granted]
        /\ UNCHANGED <<currentTerm, status, heartbeat, clientVars>>
    BY <1>10 DEF Vote
  <2>2. ElectionTypes' /\ ClientTypes'
    BY <1>0, <1>3, <1>6, <2>1 DEF TypeOK, ElectionTypes, ClientTypes, clientVars
  <2>3. TimerTypes'
    <3> HIDE DEF granted
    <3>1. (electionTimer[n] \/ granted) \in BOOLEAN
      OBVIOUS
    <3> QED  BY <1>0, <1>6, <2>1, <3>1 DEF TypeOK, TimerTypes
  <2>4. TypeOK'
    BY <1>5, <1>7, <2>2, <2>3 DEF TypeOK
  <2>5. c.term = currentTerm[n]
    BY <1>1, <1>10
  <2>6. \A m \in Node : MovesOn(m)
    <3>1. \A m \in Node : Len(log[m]) \in Nat /\ currentTerm[m] \in Nat
                          /\ status[m] \in ServerStatus
      BY <1>0, LenProperties DEF TypeOK, ElectionTypes, LogTypes
    <3> QED  BY <1>3, <1>4, <1>6, <2>1, <2>5, <3>1 DEF MovesOn, ServerStatus
  <2>7. BooksKept
    BY <1>0, <1>6, <2>1, StillKeepsBooks
  <2> QED  BY <1>0, <1>8, <2>4, <2>6, <2>7, BooksStayFit DEF GoodStep
<1> QED  BY <1>9, <1>10

\* onVoteResponse() of a newer term: the candidate or leader steps down.
LEMMA StepDownOnVoteStep ==
    ASSUME IInv, NEW n \in Node, NEW c \in voteReplies, StepDownOnVote(n, c)
    PROVE  GoodStep
<1>0. TypeOK /\ BooksFit
  BY DEF IInv
<1>1. c.term \in Nat /\ c.term >= currentTerm[n] /\ StepDown(n, c.term)
  BY <1>0 DEF StepDownOnVote, TypeOK, VoteTypes, ElectionTypes, VoteReply
<1>2. /\ voteReplies' = voteReplies \ {c}
      /\ UNCHANGED <<inFlight, voteCalls, appendCalls, appendReplies,
                     nextIndex, matchIndex>>
  BY DEF StepDownOnVote, StepDown, appendVars
<1>3. /\ ElectionTypes' /\ TimerTypes' /\ LogTypes' /\ ClientTypes'
      /\ \A m \in Node : MovesOn(m)
      /\ BooksKept
  BY <1>0, <1>1, StepDownStep
<1>4. TypeOK'
  BY <1>0, <1>2, <1>3 DEF TypeOK, LeaderTypes, VoteTypes, AppendTypes
<1>5. CallsComeFromCalls
  BY <1>2 DEF CallsComeFromCalls, CoversAs
<1> QED  BY <1>0, <1>3, <1>4, <1>5, BooksStayFit DEF GoodStep

\* onVoteResponse() that does not count changes nothing.
LEMMA IgnoreVoteStep ==
    ASSUME IInv, NEW n \in Node, NEW c \in voteReplies, IgnoreVote(n, c)
    PROVE  GoodStep
<1>0. TypeOK /\ BooksFit
  BY DEF IInv
<1>1. /\ voteReplies' = voteReplies \ {c}
      /\ UNCHANGED <<electionVars, timerVars, logVars, leaderVars, clientVars,
                     voteCalls, appendVars>>
  BY DEF IgnoreVote
<1>2. TypeOK'
  BY <1>0, <1>1 DEF TypeOK, ElectionTypes, TimerTypes, LogTypes, LeaderTypes,
     ClientTypes, VoteTypes, AppendTypes, electionVars, timerVars, logVars,
     leaderVars, clientVars, appendVars
<1>3. UNCHANGED <<currentTerm, votedFor, status, log, nextIndex, matchIndex,
                  appendCalls, appendReplies>>
  BY <1>1 DEF electionVars, logVars, leaderVars, appendVars
<1>4. CallsComeFromCalls
  BY <1>3 DEF CallsComeFromCalls, CoversAs
<1> QED  BY <1>0, <1>2, <1>3, <1>4, StillMovesOn, StillKeepsBooks, BooksStayFit
         DEF GoodStep

\* onVoteResponse() that counts: the candidate may become leader of its term.
LEMMA CountVoteStep ==
    ASSUME IInv, NEW n \in Node, NEW c \in voteReplies, CountVote(n, c)
    PROVE  GoodStep
<1>0. TypeOK /\ BooksFit
  BY DEF IInv
<1>1. /\ voteReplies' = voteReplies \ {c}
      /\ votesReceived' = [votesReceived EXCEPT ![n] = @ + 1]
      /\ UNCHANGED <<currentTerm, votedFor, started, log, commitIndex,
                     lastApplied, values, pendingClients, answers, voteCalls,
                     appendReplies>>
      /\ status[n] = "CANDIDATE"
  BY DEF CountVote, Counts, logVars, clientVars
<1>2. LogTypes' /\ ClientTypes' /\ VoteTypes'
  BY <1>0, <1>1 DEF TypeOK, LogTypes, ClientTypes, VoteTypes
<1>3. /\ votesReceived' \in [Node -> Nat] /\ currentTerm[n] \in Nat
      /\ currentTerm'[n] = currentTerm[n]
  BY <1>0, <1>1 DEF TypeOK, ElectionTypes
<1>4. \A m \in Node : /\ Len(log[m]) \in Nat /\ currentTerm[m] \in Nat
                     /\ status[m] \in ServerStatus
  BY <1>0, LenProperties DEF TypeOK, LogTypes, ElectionTypes
<1>5. CASE votesReceived[n] + 1 >= Majority
  <2>1. BecomeLeader(n, currentTerm[n])
    BY <1>5 DEF CountVote
  <2>2. /\ status' = [status EXCEPT ![n] = "LEADER"]
        /\ status' \in [Node -> ServerStatus]
        /\ currentLeaderId' \in [Node -> Node \cup {Nil}]
        /\ electionTimer' \in [Node -> BOOLEAN]
        /\ heartbeat' \in [Node -> BOOLEAN]
        /\ leakedHeartbeat' \in [Node -> BOOLEAN]
        /\ LeaderTypes'
        /\ appendCalls' \subseteq AppendCall
        /\ \A d \in appendCalls' :
              \/ d \in appendCalls
              \/ /\ d.from = n /\ d.term = currentTerm[n]
                 /\ d.prevLogIndex + Len(d.entries) = Len(log[n])
    BY <1>0, <1>3, <2>1, BecomeLeaderStep
  <2>3. TypeOK'
    BY <1>0, <1>1, <1>2, <1>3, <2>2 DEF TypeOK, ElectionTypes, TimerTypes, AppendTypes
  <2>4. status'[n] = "LEADER" /\ \A m \in Node \ {n} : status'[m] = status[m]
    BY <1>0, <2>2 DEF TypeOK, ElectionTypes
  <2>5. \A m \in Node : MovesOn(m)
    BY <1>1, <1>4, <2>4 DEF MovesOn, ServerStatus
  <2>6. CallsComeFromCalls
    BY <1>1, <1>3, <1>4, <2>2, <2>4 DEF CallsComeFromCalls, CoversAs, SentByLeader
  <2>7. BooksFit'
    <3>1. BecomeLeader(n, currentTerm'[n]) /\ currentTerm'[n] \in Nat
      BY <1>3, <2>1
    <3> QED  BY <1>0, <1>1, <3>1, NewLeaderBooksFit
  <2> QED  BY <2>3, <2>5, <2>6, <2>7 DEF GoodStep
<1>6. CASE ~ (votesReceived[n] + 1 >= Majority)
  <2>1. UNCHANGED <<status, currentLeaderId, electionTimer, heartbeat,
                    leakedHeartbeat, nextIndex, matchIndex, inFlight,
                    appendCalls>>
    BY <1>6 DEF CountVote, leaderVars
  <2>2. TypeOK'
    BY <1>0, <1>1, <1>2, <1>3, <2>1
       DEF TypeOK, ElectionTypes, TimerTypes, LeaderTypes, AppendTypes
  <2>3. CallsComeFromCalls
    BY <1>1, <2>1 DEF CallsComeFromCalls, CoversAs
  <2> QED  BY <1>0, <1>1, <2>1, <2>2, <2>3, StillMovesOn, StillKeepsBooks,
              BooksStayFit DEF GoodStep
<1> QED  BY <1>5, <1>6

---------------------------------------------------------------------------
(* AppendEntries: the follower's tasks. *)

\* An answer says of a call what the call covered.
LEMMA ReplyStep ==
    ASSUME TypeOK, NEW n \in Node, NEW c \in appendCalls, NEW t \in Nat,
           NEW ok \in BOOLEAN, appendCalls' = appendCalls \ {c}, Reply(n, c, t, ok)
    PROVE  AppendTypes' /\ CallsComeFromCalls
<1>1. /\ c \in AppendCall /\ c.from \in Node /\ c.term \in Nat
      /\ c.prevLogIndex \in Nat /\ Len(c.entries) \in Nat
      /\ c.awaited \in BOOLEAN /\ c.again \in BOOLEAN
  <2>1. c \in AppendCall
    BY DEF TypeOK, AppendTypes
  <2> QED  BY <2>1, LenProperties DEF AppendCall
<1> DEFINE reply == [from |-> n, to |-> c.from, roundTerm |-> c.term,
                     prevLogIndex |-> c.prevLogIndex, sentCount |-> Len(c.entries),
                     again |-> c.again, term |-> t, success |-> ok]
<1>2. reply \in AppendReply /\ Answers(reply, c)
  BY <1>1 DEF AppendReply, Answers
<1>3. appendReplies' \subseteq appendReplies \cup {reply}
  BY DEF Reply
<1> HIDE DEF reply
<1> QED  BY <1>2, <1>3 DEF TypeOK, AppendTypes, CallsComeFromCalls, CoversAs

\* The terms of a request and of its receiver can be compared.
LEMMA AppendCallTerm ==
    ASSUME TypeOK, NEW n \in Node, NEW c \in appendCalls
    PROVE  /\ c \in AppendCall /\ c.from \in Node /\ c.term \in Nat
           /\ currentTerm[n] \in Nat
BY DEF TypeOK, ElectionTypes, AppendTypes, AppendCall

\* handleAppendEntries() for an older term: only answers.
LEMMA RefuseOldLeaderStep ==
    ASSUME IInv, NEW n \in Node, NEW c \in appendCalls, RefuseOldLeader(n, c)
    PROVE  GoodStep
<1>0. TypeOK /\ BooksFit
  BY DEF IInv
<1>1. /\ appendCalls' = appendCalls \ {c}
      /\ Reply(n, c, currentTerm[n], FALSE)
      /\ UNCHANGED <<electionVars, timerVars, logVars, leaderVars, clientVars,
                     voteVars>>
  BY DEF RefuseOldLeader
<1>2. AppendTypes' /\ CallsComeFromCalls
  BY <1>0, <1>1, AppendCallTerm, ReplyStep
<1>3. TypeOK'
  BY <1>0, <1>1, <1>2 DEF TypeOK, ElectionTypes, TimerTypes, LogTypes, LeaderTypes,
     ClientTypes, VoteTypes, electionVars, timerVars, logVars, leaderVars,
     clientVars, voteVars
<1>4. UNCHANGED <<currentTerm, votedFor, status, log, nextIndex, matchIndex>>
  BY <1>1 DEF electionVars, logVars, leaderVars
<1> QED  BY <1>0, <1>2, <1>3, <1>4, StillMovesOn, StillKeepsBooks, BooksStayFit
         DEF GoodStep

\* A node that follows the sender of a request: all nodes move on, whatever
\* becomes of its log, and it is a follower with the types it needs.
LEMMA FollowLeaderStep ==
    ASSUME TypeOK, NEW n \in Node, NEW c \in appendCalls,
           c.term >= currentTerm[n], FollowLeader(n, c)
    PROVE  /\ ElectionTypes' /\ TimerTypes'
           /\ status' = [status EXCEPT ![n] = "FOLLOWER"]
           /\ (\A m \in Node \ {n} : log'[m] = log[m])
                  => \A m \in Node : MovesOn(m)
<1>1. c.from \in Node /\ c.term \in Nat /\ currentTerm[n] \in Nat
  BY AppendCallTerm
<1>2. /\ votedFor' = [votedFor EXCEPT ![n] = ForgetVote(n, c.term)]
      /\ currentLeaderId' = [currentLeaderId EXCEPT ![n] = c.from]
      /\ UNCHANGED <<votesReceived, leakedHeartbeat, started>>
  BY DEF FollowLeader
<1>3. /\ currentTerm' = [currentTerm EXCEPT ![n] = c.term]
      /\ status' = [status EXCEPT ![n] = "FOLLOWER"]
      /\ currentTerm' \in [Node -> Nat]
      /\ status' \in [Node -> ServerStatus]
      /\ heartbeat' \in [Node -> BOOLEAN]
      /\ electionTimer' \in [Node -> BOOLEAN]
  <2>1. CASE StepsDown(n, c)
    <3>1. BecomeFollower(n, c.term)
      BY <2>1 DEF FollowLeader
    <3> QED  BY <1>1, <3>1, BecomeFollowerStep
  <2>2. CASE ~ StepsDown(n, c)
    <3>1. c.term = currentTerm[n] /\ status[n] = "FOLLOWER"
      BY <1>1, <2>2 DEF StepsDown
    <3>2. /\ electionTimer' = [electionTimer EXCEPT ![n] = TRUE]
          /\ UNCHANGED <<currentTerm, status, heartbeat>>
      BY <2>2 DEF FollowLeader
    <3> QED  BY <3>1, <3>2 DEF TypeOK, ElectionTypes, TimerTypes
  <2> QED  BY <2>1, <2>2
<1>4. /\ votedFor' \in [Node -> Node \cup {Nil}]
      /\ \A m \in Node \ {n} : votedFor'[m] = votedFor[m]
  BY <1>2, ForgetVoteType DEF TypeOK, ElectionTypes
<1>5. c.term = currentTerm[n] => votedFor'[n] = votedFor[n]
  BY <1>2 DEF ForgetVote, TypeOK, ElectionTypes
<1>6. ElectionTypes' /\ TimerTypes'
  BY <1>1, <1>2, <1>3, <1>4 DEF TypeOK, ElectionTypes, TimerTypes
<1>7. ASSUME \A m \in Node \ {n} : log'[m] = log[m]
      PROVE  \A m \in Node : MovesOn(m)
  BY <1>1, <1>3, <1>4, <1>5, <1>7, FollowerMovesOn
<1> QED  BY <1>3, <1>6, <1>7

\* handleAppendEntries() that finds a gap: follows the sender, keeps its log.
LEMMA RefuseAppendStep ==
    ASSUME IInv, NEW n \in Node, NEW c \in appendCalls, RefuseAppend(n, c)
    PROVE  GoodStep
<1>0. TypeOK /\ BooksFit
  BY DEF IInv
<1>1. /\ c.term >= currentTerm[n]
      /\ appendCalls' = appendCalls \ {c}
      /\ Reply(n, c, c.term, FALSE)
      /\ FollowLeader(n, c)
      /\ FailPendingClients(n) \/ UNCHANGED clientVars
      /\ UNCHANGED <<logVars, leaderVars, voteVars>>
  BY DEF RefuseAppend
<1>2. AppendTypes' /\ CallsComeFromCalls
  BY <1>0, <1>1, AppendCallTerm, ReplyStep
<1>3. UNCHANGED <<log, nextIndex, matchIndex>>
  BY <1>1 DEF logVars, leaderVars
<1>4. /\ ElectionTypes' /\ TimerTypes'
      /\ status' = [status EXCEPT ![n] = "FOLLOWER"]
      /\ \A m \in Node : MovesOn(m)
  BY <1>0, <1>1, <1>3, FollowLeaderStep
<1>5. ClientTypes'
  <2>1. CASE FailPendingClients(n)
    BY <1>0, <2>1, FailPendingClientsTypes
  <2>2. CASE UNCHANGED clientVars
    BY <1>0, <2>2 DEF TypeOK, ClientTypes, clientVars
  <2> QED  BY <1>1, <2>1, <2>2
<1>6. TypeOK'
  BY <1>0, <1>1, <1>2, <1>4, <1>5 DEF TypeOK, LogTypes, LeaderTypes, VoteTypes,
     logVars, leaderVars, voteVars
<1>7. BooksKept
  BY <1>0, <1>3, <1>4, FollowerKeepsBooks
<1> QED  BY <1>0, <1>2, <1>4, <1>6, <1>7, BooksStayFit DEF GoodStep

\* handleAppendEntries() that merges: only a follower's log may shrink.
LEMMA AcceptAppendStep ==
    ASSUME IInv, NEW n \in Node, NEW c \in appendCalls, AcceptAppend(n, c)
    PROVE  GoodStep
<1> DEFINE l      == Merge(log[n], c.prevLogIndex, c.entries)
           commit == FollowerCommit(c, commitIndex[n])
<1>0. TypeOK /\ BooksFit
  BY DEF IInv
<1>1. /\ c.term >= currentTerm[n]
      /\ Consistent(log[n], c.prevLogIndex, c.prevLogTerm)
      /\ appendCalls' = appendCalls \ {c}
      /\ Reply(n, c, c.term, TRUE)
      /\ FollowLeader(n, c)
      /\ log' = [log EXCEPT ![n] = l]
      /\ commitIndex' = [commitIndex EXCEPT ![n] = commit]
      /\ UNCHANGED <<leaderVars, voteVars>>
  BY DEF AcceptAppend
<1>2. \/ ApplyCommitted(n, l, commit, {}, FailFutures(pendingClients[n]))
      \/ ApplyCommitted(n, l, commit, pendingClients[n], answers)
  BY DEF AcceptAppend
<1>3. c \in AppendCall /\ c.entries \in Seq(LogEntry)
  BY <1>0, AppendCallTerm DEF AppendCall
<1>4. l \in Seq(LogEntry)
  <2>1. log[n] \in Seq(LogEntry)
    BY <1>0 DEF TypeOK, LogTypes
  <2>2. c.prevLogIndex \in 0 .. Len(log[n])
    BY <1>1, <1>3, <2>1, LenProperties DEF Consistent, LastIndex, AppendCall
  <2> QED  BY <1>3, <2>1, <2>2, MergeType
<1>5. commit \in Nat
  BY <1>0, <1>3, FollowerCommitType DEF TypeOK, LogTypes
<1> HIDE DEF l, commit
<1>6. /\ lastApplied' \in [Node -> Nat] /\ DOMAIN values' = Node
      /\ ClientTypes'
  <2>1. CASE ApplyCommitted(n, l, commit, {}, FailFutures(pendingClients[n]))
    <3>1. {} \in SUBSET [index : Nat, request : Request]
      OBVIOUS
    <3>2. \A r \in Request :
             FailFutures(pendingClients[n])[r].status \in AnswerStatus
      BY <1>0, FailFuturesType
    <3> QED  BY <1>0, <1>5, <2>1, <3>1, <3>2, ApplyCommittedTypes
  <2>2. CASE ApplyCommitted(n, l, commit, pendingClients[n], answers)
    <3>1. /\ pendingClients[n] \in SUBSET [index : Nat, request : Request]
          /\ \A r \in Request : answers[r].status \in AnswerStatus
      BY <1>0 DEF TypeOK, ClientTypes
    <3> QED  BY <1>0, <1>5, <2>2, <3>1, ApplyCommittedTypes
  <2> QED  BY <1>2, <2>1, <2>2
<1>7. LogTypes' /\ \A m \in Node \ {n} : log'[m] = log[m]
  BY <1>0, <1>1, <1>4, <1>5, <1>6 DEF TypeOK, LogTypes
<1>8. AppendTypes' /\ CallsComeFromCalls
  BY <1>0, <1>1, AppendCallTerm, ReplyStep
<1>9. /\ ElectionTypes' /\ TimerTypes'
      /\ status' = [status EXCEPT ![n] = "FOLLOWER"]
      /\ \A m \in Node : MovesOn(m)
  BY <1>0, <1>1, <1>7, FollowLeaderStep
<1>10. TypeOK'
  BY <1>0, <1>1, <1>6, <1>7, <1>8, <1>9 DEF TypeOK, LeaderTypes, VoteTypes,
     leaderVars, voteVars
<1>11. BooksKept
  <2>1. UNCHANGED <<nextIndex, matchIndex>>
    BY <1>1 DEF leaderVars
  <2> QED  BY <1>0, <1>7, <1>9, <2>1, FollowerKeepsBooks
<1> QED  BY <1>0, <1>8, <1>9, <1>10, <1>11, BooksStayFit DEF GoodStep

---------------------------------------------------------------------------
(* AppendEntries: the caller's tasks, and calls that fail. *)

\* The fields of an answer are nodes and naturals.
LEMMA AppendReplyTypes ==
    ASSUME TypeOK, NEW n \in Node, NEW c \in appendReplies
    PROVE  /\ c.from \in Node /\ c.term \in Nat /\ c.roundTerm \in Nat
           /\ c.prevLogIndex \in Nat /\ c.sentCount \in Nat
           /\ currentTerm[n] \in Nat
BY DEF TypeOK, ElectionTypes, AppendTypes, AppendReply

\* onAppendEntriesResponse() of a newer term: the leader steps down.
LEMMA StepDownOnAppendStep ==
    ASSUME IInv, NEW n \in Node, NEW c \in appendReplies, StepDownOnAppend(n, c)
    PROVE  GoodStep
<1>0. TypeOK /\ BooksFit
  BY DEF IInv
<1>1. c.term \in Nat /\ c.term >= currentTerm[n] /\ StepDown(n, c.term)
  BY <1>0, AppendReplyTypes DEF StepDownOnAppend
<1>2. /\ appendReplies' = appendReplies \ {c}
      /\ inFlight' = [inFlight EXCEPT ![n] = @ \ {c.from}]
      /\ UNCHANGED <<voteCalls, voteReplies, appendCalls, nextIndex, matchIndex>>
  BY DEF StepDownOnAppend, StepDown, voteVars
<1>3. /\ ElectionTypes' /\ TimerTypes' /\ LogTypes' /\ ClientTypes'
      /\ \A m \in Node : MovesOn(m)
      /\ BooksKept
  BY <1>0, <1>1, StepDownStep
<1>4. TypeOK'
  BY <1>0, <1>2, <1>3 DEF TypeOK, LeaderTypes, VoteTypes, AppendTypes
<1>5. CallsComeFromCalls
  BY <1>2 DEF CallsComeFromCalls, CoversAs
<1> QED  BY <1>0, <1>3, <1>4, <1>5, BooksStayFit DEF GoodStep

\* A step that changes neither nodes nor books, and adds no call but one
\* that covers what another did.
LEMMA CallOnlyStep ==
    ASSUME IInv,
           UNCHANGED <<electionVars, timerVars, logVars, nextIndex, matchIndex,
                       clientVars, voteVars>>,
           inFlight' \in [Node -> SUBSET Node],
           appendReplies' \subseteq appendReplies,
           appendCalls' \subseteq AppendCall,
           \A c \in appendCalls' : \E d \in appendCalls : CoversAs(c, d)
    PROVE  GoodStep
<1>0. TypeOK /\ BooksFit
  BY DEF IInv
<1>1. UNCHANGED <<currentTerm, votedFor, status, log, nextIndex, matchIndex>>
  BY DEF electionVars, logVars
<1>2. TypeOK'
  BY <1>0 DEF TypeOK, ElectionTypes, TimerTypes, LogTypes, LeaderTypes,
     ClientTypes, VoteTypes, AppendTypes, electionVars, timerVars, logVars,
     clientVars, voteVars
<1>3. CallsComeFromCalls
  BY DEF CallsComeFromCalls
<1> QED  BY <1>0, <1>1, <1>2, <1>3, StillMovesOn, StillKeepsBooks, BooksStayFit
         DEF GoodStep

\* onAppendEntriesResponse() of another round only clears inFlight.
LEMMA IgnoreAppendReplyStep ==
    ASSUME IInv, NEW n \in Node, NEW c \in appendReplies, IgnoreAppendReply(n, c)
    PROVE  GoodStep
<1>0. TypeOK
  BY DEF IInv
<1>1. /\ appendReplies' \subseteq appendReplies
      /\ inFlight' \in [Node -> SUBSET Node]
      /\ UNCHANGED <<electionVars, timerVars, logVars, nextIndex, matchIndex,
                     clientVars, voteVars, appendCalls>>
  BY <1>0 DEF IgnoreAppendReply, TypeOK, LeaderTypes
<1>2. /\ appendCalls' \subseteq AppendCall
      /\ \A d \in appendCalls' : \E e \in appendCalls : CoversAs(d, e)
  BY <1>0, <1>1 DEF TypeOK, AppendTypes, CoversAs
<1> QED  BY <1>1, <1>2, CallOnlyStep

\* onAppendEntriesResponse() with success: no answer of the leader's term
\* claims more than its log, so nextIndex stays within it.
LEMMA AppendSucceededStep ==
    ASSUME IInv, NEW n \in Node, NEW c \in appendReplies, AppendSucceeded(n, c)
    PROVE  GoodStep
<1> DEFINE match  == [matchIndex[n] EXCEPT ![c.from] =
                          MaxOf(@, Replicated(n, c))]
           next   == [nextIndex[n] EXCEPT ![c.from] = match[c.from] + 1]
           commit == AdvanceCommit(n, log[n], match, commitIndex[n])
           more   == IF next[c.from] <= LastIndex(log[n]) THEN {c.from} ELSE {}
           busy   == inFlight[n] \ {c.from}
<1>0. TypeOK /\ BooksFit /\ CallsFit
  BY DEF IInv
<1>1. /\ status[n] = "LEADER" /\ c.roundTerm = currentTerm[n] /\ c.to = n
      /\ appendReplies' = appendReplies \ {c}
      /\ matchIndex' = [matchIndex EXCEPT ![n] = match]
      /\ nextIndex' = [nextIndex EXCEPT ![n] = next]
      /\ commitIndex' = [commitIndex EXCEPT ![n] = commit]
      /\ UNCHANGED <<electionVars, timerVars, log, voteVars>>
  BY DEF AppendSucceeded, OfThisRound
<1>2. ApplyCommitted(n, log[n], commit, pendingClients[n], answers)
  BY DEF AppendSucceeded
<1>3. ReplicateTo(n, more, currentTerm[n], log[n], next, commit, busy, appendCalls)
  BY DEF AppendSucceeded
<1>4. /\ currentTerm[n] \in Nat /\ commitIndex[n] \in Nat
      /\ log[n] \in Seq(LogEntry) /\ Len(log[n]) \in Nat
      /\ nextIndex[n] \in [Node -> Nat \ {0}]
      /\ matchIndex[n] \in [Node -> Nat]
      /\ c.from \in Node /\ c.prevLogIndex \in Nat /\ c.sentCount \in Nat
  BY <1>0, LenProperties, AppendReplyTypes
     DEF TypeOK, LogTypes, ElectionTypes, LeaderTypes
<1>5. \A p \in Node : /\ nextIndex[n][p] <= Len(log[n]) + 1
                     /\ matchIndex[n][p] <= Len(log[n])
  BY <1>0, <1>1 DEF BooksFit
<1>6. Replicated(n, c) \in 0 .. Len(log[n])
  <2>1. Fits(c.to, c.roundTerm, c.prevLogIndex + c.sentCount)
    BY <1>0 DEF CallsFit
  <2> QED  BY <1>1, <1>4, <2>1 DEF Fits, Replicated
<1>7. /\ match \in [Node -> Nat]
      /\ \A p \in Node : match[p] <= Len(log[n])
  BY <1>4, <1>5, <1>6 DEF MaxOf
<1>8. /\ next \in [Node -> Nat \ {0}]
      /\ \A p \in Node : next[p] <= Len(log[n]) + 1
  <2> HIDE DEF match, commit, more, busy
  <2>1. /\ match[c.from] + 1 \in Nat \ {0}
        /\ match[c.from] + 1 <= Len(log[n]) + 1
    BY <1>4, <1>7
  <2>2. next \in [Node -> Nat \ {0}]
    BY <1>4, <2>1
  <2>3. ASSUME NEW p \in Node PROVE next[p] <= Len(log[n]) + 1
    <3>1. CASE p = c.from
      BY <3>1, <1>4, <2>1
    <3>2. CASE p # c.from
      BY <3>2, <1>4, <1>5
    <3> QED  BY <3>1, <3>2
  <2> HIDE DEF next
  <2> QED  BY <2>2, <2>3
<1>9. commit \in Nat
  <2> HIDE DEF match
  <2> QED  BY <1>4, AdvanceCommitType
<1>10. /\ more \in SUBSET Node /\ busy \in SUBSET Node
       /\ \A p \in more : next[p] <= Len(log[n]) + 1
  <2> HIDE DEF next
  <2> QED  BY <1>0, <1>4, <1>8 DEF TypeOK, LeaderTypes
<1> HIDE DEF match, next, commit, more, busy
<1>11. /\ inFlight' \in [Node -> SUBSET Node]
       /\ appendCalls' \subseteq AppendCall
       /\ \A d \in appendCalls' :
             \/ d \in appendCalls
             \/ /\ d.from = n /\ d.term = currentTerm[n]
                /\ d.prevLogIndex + Len(d.entries) = Len(log[n])
  BY <1>0, <1>3, <1>4, <1>8, <1>9, <1>10, ReplicateToStep
<1>12. /\ lastApplied' \in [Node -> Nat] /\ DOMAIN values' = Node
       /\ ClientTypes'
  <2>1. /\ pendingClients[n] \in SUBSET [index : Nat, request : Request]
        /\ \A r \in Request : answers[r].status \in AnswerStatus
    BY <1>0 DEF TypeOK, ClientTypes
  <2> QED  BY <1>0, <1>2, <1>9, <2>1, ApplyCommittedTypes
<1>13. UNCHANGED <<currentTerm, votedFor, status, currentLeaderId, votesReceived,
                   electionTimer, heartbeat, leakedHeartbeat, started, log,
                   voteCalls, voteReplies>>
  BY <1>1 DEF electionVars, timerVars, voteVars
<1>14. TypeOK'
  BY <1>0, <1>1, <1>7, <1>8, <1>9, <1>11, <1>12, <1>13
     DEF TypeOK, ElectionTypes, TimerTypes, LogTypes, LeaderTypes, VoteTypes,
         AppendTypes
<1>15. BooksFit'
  BY <1>0, <1>1, <1>7, <1>8, <1>13 DEF BooksFit, TypeOK, LeaderTypes
<1>16. CallsComeFromCalls
  BY <1>1, <1>4, <1>11, <1>13 DEF CallsComeFromCalls, CoversAs, SentByLeader
<1> QED  BY <1>0, <1>13, <1>14, <1>15, <1>16, StillMovesOn DEF GoodStep

\* onAppendEntriesResponse() with failure: nextIndex goes one step back.
LEMMA AppendRefusedStep ==
    ASSUME IInv, NEW n \in Node, NEW c \in appendReplies, AppendRefused(n, c)
    PROVE  GoodStep
<1> DEFINE next == [nextIndex[n] EXCEPT ![c.from] = MaxOf(1, @ - 1)]
           busy == inFlight[n] \ {c.from}
           to   == {c.from}
<1>0. TypeOK /\ BooksFit
  BY DEF IInv
<1>1. /\ status[n] = "LEADER"
      /\ appendReplies' = appendReplies \ {c}
      /\ nextIndex' = [nextIndex EXCEPT ![n] = next]
      /\ UNCHANGED <<electionVars, timerVars, logVars, matchIndex,
                     clientVars, voteVars>>
  BY DEF AppendRefused, StepBack, OfThisRound
<1>2. ReplicateTo(n, to, currentTerm[n], log[n], next, commitIndex[n], busy,
                  appendCalls)
  BY DEF AppendRefused, StepBack
<1>3. /\ currentTerm[n] \in Nat /\ commitIndex[n] \in Nat
      /\ log[n] \in Seq(LogEntry) /\ Len(log[n]) \in Nat
      /\ nextIndex[n] \in [Node -> Nat \ {0}]
      /\ c.from \in Node
      /\ to \in SUBSET Node /\ busy \in SUBSET Node
  BY <1>0, LenProperties, AppendReplyTypes
     DEF TypeOK, LogTypes, ElectionTypes, LeaderTypes
<1>4. /\ next \in [Node -> Nat \ {0}]
      /\ \A p \in Node : next[p] <= Len(log[n]) + 1
  <2>1. \A p \in Node : nextIndex[n][p] <= Len(log[n]) + 1
    BY <1>0, <1>1 DEF BooksFit
  <2> QED  BY <1>3, <2>1 DEF MaxOf
<1>5. \A p \in to : next[p] <= Len(log[n]) + 1
  <2> HIDE DEF next
  <2> QED  BY <1>3, <1>4
<1> HIDE DEF next, busy, to
<1>6. /\ inFlight' \in [Node -> SUBSET Node]
      /\ appendCalls' \subseteq AppendCall
      /\ \A d \in appendCalls' :
            \/ d \in appendCalls
            \/ /\ d.from = n /\ d.term = currentTerm[n]
               /\ d.prevLogIndex + Len(d.entries) = Len(log[n])
  BY <1>0, <1>2, <1>3, <1>4, <1>5, ReplicateToStep
<1>7. UNCHANGED <<currentTerm, votedFor, status, log, matchIndex>>
  BY <1>1 DEF electionVars, logVars
<1>8. TypeOK'
  BY <1>0, <1>1, <1>4, <1>6
     DEF TypeOK, ElectionTypes, TimerTypes, LogTypes, LeaderTypes, ClientTypes,
         VoteTypes, AppendTypes, electionVars, timerVars, logVars, clientVars,
         voteVars
<1>9. BooksFit'
  BY <1>0, <1>1, <1>4, <1>7 DEF BooksFit, TypeOK, LeaderTypes
<1>10. CallsComeFromCalls
  BY <1>1, <1>3, <1>6, <1>7 DEF CallsComeFromCalls, CoversAs, SentByLeader
<1> QED  BY <1>0, <1>7, <1>8, <1>9, <1>10, StillMovesOn DEF GoodStep

\* An abandoned request covers, if it arrives late, what it always did.
LEMMA CallFailsStep ==
    ASSUME IInv, CallFails
    PROVE  GoodStep
<1>0. TypeOK /\ BooksFit
  BY DEF IInv
<1>1. CASE /\ VoteCallFails
           /\ UNCHANGED <<electionVars, timerVars, logVars, leaderVars,
                          clientVars, appendVars>>
  <2>1. VoteTypes'
    BY <1>0, <1>1 DEF VoteCallFails, TypeOK, VoteTypes
  <2>2. TypeOK'
    BY <1>0, <1>1, <2>1 DEF TypeOK, ElectionTypes, TimerTypes, LogTypes,
       LeaderTypes, ClientTypes, AppendTypes, electionVars, timerVars, logVars,
       leaderVars, clientVars, appendVars
  <2>3. UNCHANGED <<currentTerm, votedFor, status, log, nextIndex, matchIndex,
                    appendCalls, appendReplies>>
    BY <1>1 DEF electionVars, logVars, leaderVars, appendVars
  <2>4. CallsComeFromCalls
    BY <2>3 DEF CallsComeFromCalls, CoversAs
  <2> QED  BY <1>0, <2>2, <2>3, <2>4, StillMovesOn, StillKeepsBooks, BooksStayFit
           DEF GoodStep
<1>2. CASE /\ \/ \E n \in Node : \/ \E c \in appendCalls : AbandonAppend(n, c)
                                 \/ \E c \in appendReplies : LoseAppendReply(n, c)
              \/ \E c \in appendCalls : LoseLateAppend(c)
           /\ UNCHANGED <<electionVars, timerVars, logVars, nextIndex, matchIndex,
                          clientVars, voteVars>>
  <2>1. \A c \in appendCalls : c \in AppendCall /\ CoversAs(c, c)
    BY <1>0 DEF TypeOK, AppendTypes, CoversAs
  <2>2. ASSUME NEW n \in Node, NEW c \in appendCalls, AbandonAppend(n, c)
        PROVE  GoodStep
    <3> DEFINE late == [c EXCEPT !.awaited = FALSE]
    <3>1. late \in AppendCall /\ CoversAs(late, c)
      BY <2>1 DEF AppendCall, CoversAs
    <3>2. /\ appendCalls' \subseteq appendCalls \cup {late}
          /\ appendReplies' = appendReplies
          /\ inFlight' \in [Node -> SUBSET Node]
      BY <1>0, <2>2 DEF AbandonAppend, TypeOK, LeaderTypes
    <3> HIDE DEF late
    <3>3. /\ appendCalls' \subseteq AppendCall
          /\ \A d \in appendCalls' : \E e \in appendCalls : CoversAs(d, e)
      BY <2>1, <3>1, <3>2
    <3> QED  BY <1>2, <3>2, <3>3, CallOnlyStep
  <2>3. ASSUME NEW n \in Node, NEW c \in appendReplies, LoseAppendReply(n, c)
        PROVE  GoodStep
    <3>1. /\ appendCalls' = appendCalls
          /\ appendReplies' \subseteq appendReplies
          /\ inFlight' \in [Node -> SUBSET Node]
      BY <1>0, <2>3 DEF LoseAppendReply, TypeOK, LeaderTypes
    <3> QED  BY <1>2, <2>1, <3>1, CallOnlyStep
  <2>4. ASSUME NEW c \in appendCalls, LoseLateAppend(c)
        PROVE  GoodStep
    <3>1. /\ appendCalls' \subseteq appendCalls
          /\ appendReplies' = appendReplies
          /\ inFlight' \in [Node -> SUBSET Node]
      BY <1>0, <2>4 DEF LoseLateAppend, TypeOK, LeaderTypes
    <3> QED  BY <1>2, <2>1, <3>1, CallOnlyStep
  <2> QED  BY <1>2, <2>2, <2>3, <2>4
<1> QED  BY <1>1, <1>2 DEF CallFails

---------------------------------------------------------------------------
(* The theorems. *)

\* A fresh node has an empty log, books on nobody and no call on its way.
LEMMA InitGivesIInv ==
    ASSUME Init
    PROVE  IInv
<1>1. Len(<<>>) = 0 /\ <<>> \in Seq(LogEntry)
  OBVIOUS
<1>2. ElectionTypes /\ TimerTypes
  BY DEF Init, ElectionTypes, TimerTypes, ServerStatus
<1>3. LogTypes
  BY <1>1 DEF Init, LogTypes
<1>4. LeaderTypes
  BY DEF Init, LeaderTypes
<1>5. ClientTypes
  BY DEF Init, ClientTypes, Unsent, AnswerStatus
<1>6. VoteTypes /\ AppendTypes
  BY DEF Init, VoteTypes, AppendTypes
<1>7. CallsFit /\ BooksFit
  BY DEF Init, CallsFit, BooksFit
<1> QED  BY <1>2, <1>3, <1>4, <1>5, <1>6, <1>7 DEF IInv, TypeOK

\* Every task of the event loop, and every failure of a call, is good.
LEMMA EveryStepIsGood ==
    ASSUME IInv, Next
    PROVE  GoodStep
<1>1. ASSUME NEW n \in Node, Timers(n)
      PROVE  GoodStep
  BY <1>1, StartStep, StartElectionRoundStep, HeartbeatTickStep DEF Timers
<1>2. ASSUME NEW n \in Node, Client(n)
      PROVE  GoodStep
  BY <1>2, RefuseCommandStep, SubmitCommandStep DEF Client
<1>3. ASSUME NEW n \in Node, NEW p \in Node, HandleRequestVote(n, p)
      PROVE  GoodStep
  BY <1>3, RefuseOldCandidateStep, VoteStep DEF HandleRequestVote
<1>4. ASSUME NEW n \in Node, NEW p \in Node, OnVoteResponse(n, p)
      PROVE  GoodStep
  BY <1>4, StepDownOnVoteStep, IgnoreVoteStep, CountVoteStep DEF OnVoteResponse
<1>5. ASSUME NEW n \in Node, NEW p \in Node, HandleAppendEntries(n, p)
      PROVE  GoodStep
  BY <1>5, RefuseOldLeaderStep, RefuseAppendStep, AcceptAppendStep
     DEF HandleAppendEntries
<1>6. ASSUME NEW n \in Node, NEW p \in Node, OnAppendEntriesResponse(n, p)
      PROVE  GoodStep
  BY <1>6, StepDownOnAppendStep, IgnoreAppendReplyStep, AppendSucceededStep,
     AppendRefusedStep DEF OnAppendEntriesResponse
<1> QED  BY <1>1, <1>2, <1>3, <1>4, <1>5, <1>6, CallFailsStep DEF Next, Tasks

\* The invariant is inductive.
LEMMA IInvIsKept ==
    ASSUME IInv, [Next]_vars
    PROVE  IInv'
<1>1. CASE Next
  <2>1. GoodStep
    BY <1>1, EveryStepIsGood
  <2> QED  BY <2>1, CallsStayFit DEF GoodStep, IInv
<1>2. CASE UNCHANGED vars
  <2>1. TypeOK'
    BY <1>2 DEF IInv, TypeOK, ElectionTypes, TimerTypes, LogTypes, LeaderTypes,
       ClientTypes, VoteTypes, AppendTypes, vars, electionVars, timerVars,
       logVars, leaderVars, clientVars, voteVars, appendVars
  <2>2. CallsFit' /\ BooksFit'
    BY <1>2 DEF IInv, CallsFit, BooksFit, Fits, vars, electionVars, logVars,
       leaderVars, appendVars
  <2> QED  BY <2>1, <2>2 DEF IInv
<1> QED  BY <1>1, <1>2

\* The inductive invariant holds of every cluster.
THEOREM IInvHolds == Spec => []IInv
<1>1. Init => IInv
  BY InitGivesIInv
<1>2. IInv /\ [Next]_vars => IInv'
  BY IInvIsKept
<1> QED  BY <1>1, <1>2, PTL DEF Spec

\* In every cluster, whatever calls are lost, late or reordered, each field
\* of RaftNode keeps its type, and so TermAt and EntriesFrom, which stand
\* for LogStore.get() and entriesFrom(), are asked only about positions the
\* log has: none of the tasks ends in an IndexOutOfBoundsException.
THEOREM TypeCorrect == Spec => []TypeOK
<1>1. IInv => TypeOK
  BY DEF IInv
<1> QED  BY <1>1, IInvHolds, PTL

\* replicateTo() reads the entry at nextIndex - 1: for every cluster a
\* leader's nextIndex points into its log or just after it, although a late
\* answer of its own term may move it at any time.
THEOREM BooksCorrect == Spec => []NextIndexInLog
<1>1. IInv => NextIndexInLog
  <2> SUFFICES ASSUME IInv, NEW n \in Node, NEW p \in Peers(n),
                      status[n] = "LEADER"
               PROVE  nextIndex[n][p] \in 1 .. Len(log[n]) + 1
    BY DEF NextIndexInLog
  <2>1. p \in Node
    BY DEF Peers
  <2>2. nextIndex[n][p] \in Nat \ {0} /\ Len(log[n]) \in Nat
    BY <2>1, LenProperties DEF IInv, TypeOK, LeaderTypes, LogTypes
  <2>3. nextIndex[n][p] <= Len(log[n]) + 1
    BY <2>1 DEF IInv, BooksFit
  <2> QED  BY <2>2, <2>3
<1> QED  BY <1>1, IInvHolds, PTL

\* handleRequestVote() and startElectionRound() together: in every cluster
\* a node votes at most once per term, and its term never falls.
THEOREM VotesOnce == Spec => VoteOnce
<1> DEFINE Once ==
      \A n \in Node :
        /\ currentTerm'[n] >= currentTerm[n]
        /\ currentTerm'[n] = currentTerm[n] /\ votedFor[n] # Nil
               => votedFor'[n] = votedFor[n]
<1>1. IInv /\ [Next]_vars => [Once]_vars
  <2>1. ASSUME IInv, Next
        PROVE  Once
    BY <2>1, EveryStepIsGood DEF GoodStep, MovesOn
  <2> QED  BY <2>1
<1>2. Spec => [][Once]_vars
  BY <1>1, IInvHolds, PTL DEF Spec
<1> QED  BY <1>2 DEF VoteOnce

---------------------------------------------------------------------------
(***************************************************************************)
(* At most one node leads in a term: ElectionSafety.                       *)
(*                                                                         *)
(* onVoteResponse() counts granted answers and does not look at who sent   *)
(* them.  That the count is of different voters follows from the calls: a  *)
(* round asks each peer once, and an answer is consumed as it is counted.  *)
(* That two counts do not share a voter follows from the votes: a node     *)
(* votes once in a term, also in terms it has left and forgotten.          *)
(***************************************************************************)
(* The inductive invariant.                                                *)

\* No peer is asked twice in a round, or asked again while its answer is on
\* its way, and no call is of a round its candidate has not started yet.
CallsApart ==
    /\ \A c, d \in voteCalls :
          c.from = d.from /\ c.to = d.to /\ c.term = d.term => c = d
    /\ \A c, d \in voteReplies :
          c.from = d.from /\ c.to = d.to /\ c.roundTerm = d.roundTerm => c = d
    /\ \A c \in voteCalls : \A d \in voteReplies :
          ~ (c.from = d.to /\ c.to = d.from /\ c.term = d.roundTerm)
    /\ \A c \in voteCalls : c.term <= currentTerm[c.from]
    /\ \A d \in voteReplies : d.roundTerm <= currentTerm[d.to]

\* A record of the vote of every node in every term, of which votedFor is
\* the part that the nodes still know.
Recorded(ballot, terms, votes) ==
    /\ ballot \in [Node -> [Nat -> Node \cup {Nil}]]
    /\ \A p \in Node :
          /\ ballot[p][terms[p]] = votes[p]
          /\ \A t \in Nat : t > terms[p] => ballot[p][t] = Nil

\* A record kept on: a vote is added in the term each node is in, and none
\* is changed.
Continues(new, ballot, terms) ==
    \A p \in Node : \A t \in Nat :
        ballot[p][t] # Nil \/ t # terms[p] => new[p][t] = ballot[p][t]

\* A granted answer is a vote.
VotesGiven(ballot) ==
    \A c \in voteReplies : c.granted => ballot[c.from][c.roundTerm] = c.to

\* Is a call of n's round t to p on its way, or answered and not counted?
Asked(n, p, t) ==
    \/ \E c \in voteCalls : c.from = n /\ c.to = p /\ c.term = t
    \/ \E c \in voteReplies : c.to = n /\ c.from = p /\ c.roundTerm = t

\* voters are those whose votes node n has counted in its term.
CountedBy(n, ballot, voters) ==
    status[n] # "FOLLOWER" =>
        /\ \A p \in voters : ballot[p][currentTerm[n]] = n
        /\ status[n] = "LEADER" => Cardinality(voters) >= Majority
        /\ status[n] = "CANDIDATE" =>
             /\ votesReceived[n] = Cardinality(voters)
             /\ \A p \in voters : ~ Asked(n, p, currentTerm[n])

VotesAdd(ballot) ==
    /\ VotesGiven(ballot)
    /\ \A n \in Node : \E voters \in SUBSET Node : CountedBy(n, ballot, voters)

EInvOf(ballot) ==
    /\ CallsApart
    /\ Recorded(ballot, currentTerm, votedFor)
    /\ VotesAdd(ballot)

EInv == \E ballot : EInvOf(ballot)

\* What a step must do to the record: go on from it.
VotesGoOn(ballot) ==
    \E new : EInvOf(new)' /\ Continues(new, ballot, currentTerm')

---------------------------------------------------------------------------
(* Lemmas about the record of votes and the counts. *)

\* A record goes on to later terms and votes, if no vote changes in a term.
LEMMA RecordExtended ==
    ASSUME NEW terms \in [Node -> Nat], NEW later \in [Node -> Nat],
           NEW votes \in [Node -> Node \cup {Nil}],
           NEW given \in [Node -> Node \cup {Nil}],
           \A p \in Node : later[p] >= terms[p],
           \A p \in Node : later[p] = terms[p] /\ votes[p] # Nil
                               => given[p] = votes[p],
           NEW ballot, Recorded(ballot, terms, votes)
    PROVE  \E new : Recorded(new, later, given) /\ Continues(new, ballot, later)
<1>1. ballot \in [Node -> [Nat -> Node \cup {Nil}]]
  BY DEF Recorded
<1> DEFINE new == [p \in Node |->
                      [t \in Nat |-> IF t = later[p] THEN given[p]
                                    ELSE ballot[p][t]]]
<1>2. /\ new \in [Node -> [Nat -> Node \cup {Nil}]]
      /\ \A p \in Node :
            /\ new[p][later[p]] = given[p]
            /\ \A t \in Nat : t # later[p] => new[p][t] = ballot[p][t]
  <2>1. ASSUME NEW p \in Node, NEW t \in Nat
        PROVE  /\ given[p] \in Node \cup {Nil}
               /\ ballot[p][t] \in Node \cup {Nil}
               /\ later[p] \in Nat
    BY <1>1
  <2> QED  BY <2>1
<1> HIDE DEF new
<1>3. Recorded(new, later, given)
  <2>1. ASSUME NEW p \in Node, NEW t \in Nat, t > later[p]
        PROVE  new[p][t] = Nil
    <3>1. later[p] \in Nat /\ terms[p] \in Nat
      OBVIOUS
    <3>2. t # later[p] /\ t > terms[p]
      BY <2>1, <3>1
    <3> QED  BY <1>2, <3>2 DEF Recorded
  <2> QED  BY <1>2, <2>1 DEF Recorded
<1>4. Continues(new, ballot, later)
  <2> SUFFICES ASSUME NEW p \in Node, NEW t \in Nat, ballot[p][t] # Nil \/ t # later[p]
               PROVE  new[p][t] = ballot[p][t]
    BY DEF Continues
  <2>1. CASE t # later[p]
    BY <1>2, <2>1
  <2>2. CASE t = later[p]
    <3>1. later[p] \in Nat /\ terms[p] \in Nat /\ later[p] >= terms[p]
      OBVIOUS
    <3>2. ~ (later[p] > terms[p])
      BY <2>2 DEF Recorded
    <3>3. t = terms[p]
      <4>1. \A i, j \in Nat : i >= j /\ ~ (i > j) => i = j
        OBVIOUS
      <4> QED  BY <2>2, <3>1, <3>2, <4>1
    <3>4. ballot[p][t] = votes[p]
      BY <3>3 DEF Recorded
    <3> QED  BY <1>2, <2>2, <3>3, <3>4
  <2> QED  BY <2>1, <2>2
<1> QED  BY <1>3, <1>4

\* So it does over every step in which all nodes move on.
LEMMA RecordGoesOn ==
    ASSUME TypeOK, TypeOK', \A n \in Node : MovesOn(n),
           NEW ballot, Recorded(ballot, currentTerm, votedFor)
    PROVE  \E new : /\ Recorded(new, currentTerm', votedFor')
                    /\ Continues(new, ballot, currentTerm')
<1>1. /\ currentTerm \in [Node -> Nat] /\ currentTerm' \in [Node -> Nat]
      /\ votedFor \in [Node -> Node \cup {Nil}]
      /\ votedFor' \in [Node -> Node \cup {Nil}]
  BY DEF TypeOK, ElectionTypes
<1>2. \A p \in Node : currentTerm'[p] >= currentTerm[p]
  BY DEF MovesOn
<1>3. \A p \in Node : currentTerm'[p] = currentTerm[p] /\ votedFor[p] # Nil
                           => votedFor'[p] = votedFor[p]
  BY DEF MovesOn
<1> QED  BY <1>1, <1>2, <1>3, RecordExtended

\* Calls only end, terms only grow: what was apart stays apart.
LEMMA CallsStayApart ==
    ASSUME TypeOK, TypeOK', \A n \in Node : MovesOn(n), CallsApart,
           voteCalls' \subseteq voteCalls, voteReplies' \subseteq voteReplies
    PROVE  CallsApart'
<1>1. \A n \in Node : /\ currentTerm[n] \in Nat /\ currentTerm'[n] \in Nat
                     /\ currentTerm'[n] >= currentTerm[n]
  BY DEF TypeOK, ElectionTypes, MovesOn
<1>2. /\ \A c \in voteCalls : c.from \in Node /\ c.term \in Nat
      /\ \A d \in voteReplies : d.to \in Node /\ d.roundTerm \in Nat
  BY DEF TypeOK, VoteTypes, VoteCall, VoteReply
<1>3. /\ \A c \in voteCalls : c.term <= currentTerm'[c.from]
      /\ \A d \in voteReplies : d.roundTerm <= currentTerm'[d.to]
  BY <1>1, <1>2 DEF CallsApart
<1> QED  BY <1>3 DEF CallsApart

\* A node that follows, or goes on as it did, with no peer asked anew.
GoesOn(n) ==
    \/ status'[n] = "FOLLOWER"
    \/ /\ status'[n] = status[n]
       /\ currentTerm'[n] = currentTerm[n]
       /\ votesReceived'[n] = votesReceived[n]
       /\ \A p \in Node : Asked(n, p, currentTerm[n])'
                              => Asked(n, p, currentTerm[n])

\* What such a node has counted remains counted.
LEMMA CountGoesOn ==
    ASSUME TypeOK, NEW n \in Node, GoesOn(n), NEW ballot, NEW new,
           Continues(new, ballot, currentTerm'),
           \E voters \in SUBSET Node : CountedBy(n, ballot, voters)
    PROVE  \E voters \in SUBSET Node : CountedBy(n, new, voters)'
<1>1. PICK voters \in SUBSET Node : CountedBy(n, ballot, voters)
  OBVIOUS
<1>2. CASE status'[n] = "FOLLOWER"
  BY <1>2 DEF CountedBy
<1>3. CASE status'[n] # "FOLLOWER"
  <2>1. /\ status'[n] = status[n] /\ currentTerm'[n] = currentTerm[n]
        /\ votesReceived'[n] = votesReceived[n]
        /\ \A p \in Node : Asked(n, p, currentTerm[n])'
                              => Asked(n, p, currentTerm[n])
    BY <1>3 DEF GoesOn
  <2>2. currentTerm[n] \in Nat /\ n # Nil
    BY NodeAssumption DEF TypeOK, ElectionTypes
  <2>3. \A p \in voters : new[p][currentTerm[n]] = n
    BY <1>1, <1>3, <2>1, <2>2 DEF CountedBy, Continues
  <2>4. status[n] = "CANDIDATE" =>
           \A p \in voters : ~ Asked(n, p, currentTerm[n])'
    BY <1>1, <1>3, <2>1 DEF CountedBy
  <2>5. CountedBy(n, new, voters)'
    BY <1>1, <1>3, <2>1, <2>3, <2>4 DEF CountedBy
  <2> QED  BY <2>5
<1> QED  BY <1>2, <1>3

\* A granted answer that is new gives the vote its sender now has.
NewAnswersAreVotes ==
    \A c \in voteReplies' : c.granted =>
        \/ c \in voteReplies
        \/ c.roundTerm = currentTerm'[c.from] /\ c.to = votedFor'[c.from]

\* The record goes on to hold every vote an answer gives.
LEMMA VotesStayGiven ==
    ASSUME TypeOK, TypeOK', NewAnswersAreVotes, NEW ballot, NEW new,
           VotesGiven(ballot), Recorded(new, currentTerm', votedFor'),
           Continues(new, ballot, currentTerm')
    PROVE  VotesGiven(new)'
<1> SUFFICES ASSUME NEW c \in voteReplies', c.granted
             PROVE  new[c.from][c.roundTerm] = c.to
  BY DEF VotesGiven
<1>1. c.from \in Node /\ c.to \in Node /\ c.roundTerm \in Nat /\ c.to # Nil
  BY NodeAssumption DEF TypeOK, VoteTypes, VoteReply
<1>2. CASE c \in voteReplies
  <2>1. ballot[c.from][c.roundTerm] = c.to
    BY <1>2 DEF VotesGiven
  <2> QED  BY <1>1, <2>1 DEF Continues
<1>3. CASE c.roundTerm = currentTerm'[c.from] /\ c.to = votedFor'[c.from]
  BY <1>1, <1>3 DEF Recorded
<1> QED  BY <1>2, <1>3 DEF NewAnswersAreVotes

\* The steps that start no round and count no vote.
LEMMA RoutineStep ==
    ASSUME NEW ballot, EInvOf(ballot), TypeOK, TypeOK', \A n \in Node : MovesOn(n), CallsApart',
           \A n \in Node : GoesOn(n), NewAnswersAreVotes
    PROVE  VotesGoOn(ballot)
<1>1. Recorded(ballot, currentTerm, votedFor) /\ VotesAdd(ballot)
  BY DEF EInvOf
<1>2. PICK new : Recorded(new, currentTerm', votedFor') /\ Continues(new, ballot, currentTerm')
  BY <1>1, RecordGoesOn
<1>3. VotesGiven(new)'
  BY <1>1, <1>2, VotesStayGiven DEF VotesAdd
<1>4. \A n \in Node : \E voters \in SUBSET Node : CountedBy(n, new, voters)'
  BY <1>1, <1>2, CountGoesOn DEF VotesAdd
<1>5. VotesAdd(new)'
  BY <1>3, <1>4 DEF VotesAdd
<1> QED  BY <1>2, <1>5 DEF EInvOf, VotesGoOn

\* What any node does with its role and round in a routine step.
SameRound(n) ==
    \/ status'[n] = "FOLLOWER"
    \/ /\ status'[n] = status[n]
       /\ currentTerm'[n] = currentTerm[n]
       /\ votesReceived'[n] = votesReceived[n]

\* Most tasks have nothing to do with votes, or drop a call.
LEMMA QuietStep ==
    ASSUME NEW ballot, EInvOf(ballot), TypeOK, GoodStep, \A n \in Node : SameRound(n),
           voteCalls' \subseteq voteCalls, voteReplies' \subseteq voteReplies
    PROVE  VotesGoOn(ballot)
<1>1. TypeOK' /\ \A n \in Node : MovesOn(n)
  BY DEF GoodStep
<1>2. CallsApart'
  BY <1>1, CallsStayApart DEF EInvOf
<1>3. ASSUME NEW n \in Node
      PROVE  GoesOn(n)
  <2>1. CASE status'[n] = "FOLLOWER"
    BY <2>1 DEF GoesOn
  <2>2. CASE status'[n] # "FOLLOWER"
    <3>1. /\ status'[n] = status[n] /\ currentTerm'[n] = currentTerm[n]
          /\ votesReceived'[n] = votesReceived[n]
      BY <2>2 DEF SameRound
    <3>2. \A p \in Node : Asked(n, p, currentTerm[n])'
                              => Asked(n, p, currentTerm[n])
      BY <3>1 DEF Asked
    <3> QED  BY <3>1, <3>2 DEF GoesOn
  <2> QED  BY <2>1, <2>2
<1>4. NewAnswersAreVotes
  BY DEF NewAnswersAreVotes
<1> QED  BY <1>1, <1>2, <1>3, <1>4, RoutineStep

\* So do all tasks that leave terms, roles, votes and vote calls alone.
LEMMA UnrelatedStep ==
    ASSUME NEW ballot, EInvOf(ballot), TypeOK, GoodStep,
           UNCHANGED <<currentTerm, status, votesReceived, voteCalls, voteReplies>>
    PROVE  VotesGoOn(ballot)
<1>1. \A n \in Node : SameRound(n)
  BY DEF SameRound
<1> QED  BY <1>1, QuietStep

\* A node that becomes a follower, whatever term it follows in.
LEMMA StepDownSameRound ==
    ASSUME TypeOK, NEW n \in Node, NEW t, BecomeFollower(n, t),
           UNCHANGED votesReceived
    PROVE  \A m \in Node : SameRound(m)
<1> TAKE m \in Node
<1>1. CASE m = n
  BY <1>1 DEF BecomeFollower, SameRound, TypeOK, ElectionTypes
<1>2. CASE m # n
  BY <1>2 DEF BecomeFollower, SameRound, TypeOK, ElectionTypes
<1> QED  BY <1>1, <1>2

---------------------------------------------------------------------------
(* Votes given and counted.                                                *)

\* Answering a call puts an answer in its place.
LEMMA AnswerKeepsApart ==
    ASSUME TypeOK, TypeOK', \A m \in Node : MovesOn(m), CallsApart,
           NEW n \in Node, NEW c \in voteCalls, c.to = n,
           NEW r, r.from = n, r.to = c.from, r.roundTerm = c.term,
           voteCalls' = voteCalls \ {c}, voteReplies' = voteReplies \cup {r}
    PROVE  /\ CallsApart'
           /\ \A m, p, t : Asked(m, p, t)' => Asked(m, p, t)
<1>1. \A m \in Node : /\ currentTerm[m] \in Nat /\ currentTerm'[m] \in Nat
                     /\ currentTerm'[m] >= currentTerm[m]
  BY DEF TypeOK, ElectionTypes, MovesOn
<1>2. /\ \A d \in voteCalls : d.from \in Node /\ d.term \in Nat
      /\ \A d \in voteReplies : d.to \in Node /\ d.roundTerm \in Nat
  BY DEF TypeOK, VoteTypes, VoteCall, VoteReply
<1>3. \A d \in voteCalls' : d.term <= currentTerm'[d.from]
  BY <1>1, <1>2 DEF CallsApart
<1>4. \A d \in voteReplies' : d.roundTerm <= currentTerm'[d.to]
  <2>1. \A d \in voteReplies : d.roundTerm <= currentTerm'[d.to]
    BY <1>1, <1>2 DEF CallsApart
  <2>2. r.roundTerm <= currentTerm'[r.to]
    BY <1>1, <1>2 DEF CallsApart
  <2> QED  BY <2>1, <2>2
<1>5. \A d, e \in voteReplies' :
          d.from = e.from /\ d.to = e.to /\ d.roundTerm = e.roundTerm => d = e
  BY DEF CallsApart
<1>6. \A d \in voteCalls' : \A e \in voteReplies' :
          ~ (d.from = e.to /\ d.to = e.from /\ d.term = e.roundTerm)
  BY DEF CallsApart
<1>7. \A d, e \in voteCalls' :
          d.from = e.from /\ d.to = e.to /\ d.term = e.term => d = e
  BY DEF CallsApart
<1>8. CallsApart'
  BY <1>3, <1>4, <1>5, <1>6, <1>7 DEF CallsApart
<1>9. \A m, p, t : Asked(m, p, t)' => Asked(m, p, t)
  BY DEF Asked
<1> QED  BY <1>8, <1>9

\* A step that answers a call, with a vote of the answering node or without.
LEMMA AnswerStep ==
    ASSUME NEW ballot, EInvOf(ballot), TypeOK, GoodStep, \A m \in Node : SameRound(m),
           NEW n \in Node, NEW c \in voteCalls, c.to = n,
           NEW r, r.from = n, r.to = c.from, r.roundTerm = c.term,
           r.granted => r.roundTerm = currentTerm'[n] /\ r.to = votedFor'[n],
           voteCalls' = voteCalls \ {c}, voteReplies' = voteReplies \cup {r}
    PROVE  VotesGoOn(ballot)
<1>1. TypeOK' /\ \A m \in Node : MovesOn(m)
  BY DEF GoodStep
<1>2. CallsApart' /\ \A m, p, t : Asked(m, p, t)' => Asked(m, p, t)
  BY <1>1, AnswerKeepsApart DEF EInvOf
<1>3. ASSUME NEW m \in Node
      PROVE  GoesOn(m)
  <2>1. CASE status'[m] = "FOLLOWER"
    BY <2>1 DEF GoesOn
  <2>2. CASE status'[m] # "FOLLOWER"
    <3>1. /\ status'[m] = status[m] /\ currentTerm'[m] = currentTerm[m]
          /\ votesReceived'[m] = votesReceived[m]
      BY <2>2 DEF SameRound
    <3>2. \A p \in Node : Asked(m, p, currentTerm[m])'
                              => Asked(m, p, currentTerm[m])
      BY <1>2, <3>1 DEF Asked
    <3> QED  BY <3>1, <3>2 DEF GoesOn
  <2> QED  BY <2>1, <2>2
<1>4. NewAnswersAreVotes
  BY DEF NewAnswersAreVotes
<1> QED  BY <1>1, <1>2, <1>3, <1>4, RoutineStep

\* handleRequestVote() for an older term.
LEMMA RefuseOldCandidateKeeps ==
    ASSUME IInv, NEW ballot, EInvOf(ballot), GoodStep, NEW n \in Node, NEW c \in voteCalls,
           RefuseOldCandidate(n, c)
    PROVE  VotesGoOn(ballot)
<1> DEFINE r == [from |-> n, to |-> c.from, roundTerm |-> c.term,
                 term |-> currentTerm[n], granted |-> FALSE]
<1>1. /\ c.to = n
      /\ voteCalls' = voteCalls \ {c} /\ voteReplies' = voteReplies \cup {r}
      /\ UNCHANGED electionVars
  BY DEF RefuseOldCandidate
<1>2. \A m \in Node : SameRound(m)
  BY <1>1 DEF electionVars, SameRound
<1>3. r.from = n /\ r.to = c.from /\ r.roundTerm = c.term /\ ~ r.granted
  OBVIOUS
<1> HIDE DEF r
<1> QED  BY <1>1, <1>2, <1>3, AnswerStep DEF IInv

\* handleRequestVote() otherwise.
LEMMA VoteKeeps ==
    ASSUME IInv, NEW ballot, EInvOf(ballot), GoodStep, NEW n \in Node, NEW c \in voteCalls, Vote(n, c)
    PROVE  VotesGoOn(ballot)
<1> DEFINE granted == /\ ForgetVote(n, c.term) \in {Nil, c.from}
                      /\ IsLogUpToDate(log[n], c.lastLogTerm, c.lastLogIndex)
           r == [from |-> n, to |-> c.from, roundTerm |-> c.term,
                 term |-> c.term, granted |-> granted]
<1>0. TypeOK
  BY DEF IInv
<1>1. /\ c.to = n /\ c.term >= currentTerm[n]
      /\ voteCalls' = voteCalls \ {c} /\ voteReplies' = voteReplies \cup {r}
      /\ votedFor' = [votedFor EXCEPT ![n] =
                         IF granted THEN c.from ELSE ForgetVote(n, c.term)]
      /\ UNCHANGED votesReceived
  BY DEF Vote
<1>2. /\ r.from = n /\ r.to = c.from /\ r.roundTerm = c.term
      /\ r.granted = granted
  OBVIOUS
<1> HIDE DEF r, granted
<1>3. c.term \in Nat /\ currentTerm[n] \in Nat
  BY <1>0 DEF TypeOK, VoteTypes, VoteCall, ElectionTypes
<1>4. r.granted => r.to = votedFor'[n]
  BY <1>0, <1>1, <1>2 DEF TypeOK, ElectionTypes
<1>5. CASE c.term > currentTerm[n]
  <2>1. BecomeFollower(n, c.term)
    BY <1>5 DEF Vote
  <2>2. currentTerm' = [currentTerm EXCEPT ![n] = c.term]
    BY <1>0, <1>1, <1>3, <2>1, BecomeFollowerStep
  <2>3. currentTerm'[n] = c.term
    BY <1>0, <2>2 DEF TypeOK, ElectionTypes
  <2>4. \A m \in Node : SameRound(m)
    BY <1>0, <1>1, <2>1, StepDownSameRound
  <2> QED  BY <1>0, <1>1, <1>2, <1>4, <2>3, <2>4, AnswerStep
<1>6. CASE ~ (c.term > currentTerm[n])
  <2>1. UNCHANGED <<currentTerm, status>>
    BY <1>6 DEF Vote
  <2>2. currentTerm'[n] = c.term
    BY <1>1, <1>3, <1>6, <2>1
  <2>3. \A m \in Node : SameRound(m)
    BY <1>1, <2>1 DEF SameRound
  <2> QED  BY <1>0, <1>1, <1>2, <1>4, <2>2, <2>3, AnswerStep
<1> QED  BY <1>5, <1>6

\* A new round's calls are apart from all others: its term is new.
LEMMA NewRoundApart ==
    ASSUME TypeOK, TypeOK', CallsApart, NEW n \in Node, NEW K,
           currentTerm' = [currentTerm EXCEPT ![n] = @ + 1],
           \A c \in K : c.from = n /\ c.to # n /\ c.term = currentTerm[n] + 1,
           \A c, d \in K : c.to = d.to => c = d,
           voteCalls' = voteCalls \cup K, UNCHANGED voteReplies
    PROVE  /\ CallsApart'
           /\ \A m \in Node \ {n} : \A p, t : Asked(m, p, t)' => Asked(m, p, t)
           /\ ~ Asked(n, n, currentTerm[n])'
<1>1. /\ currentTerm[n] \in Nat /\ currentTerm'[n] = currentTerm[n] + 1
      /\ \A m \in Node : currentTerm[m] \in Nat /\ currentTerm'[m] \in Nat
                           /\ currentTerm'[m] >= currentTerm[m]
  BY DEF TypeOK, ElectionTypes
<1>2. /\ \A d \in voteCalls : d.from \in Node /\ d.term \in Nat
      /\ \A d \in voteReplies : d.to \in Node /\ d.roundTerm \in Nat
  BY DEF TypeOK, VoteTypes, VoteCall, VoteReply
<1>3. /\ \A d \in voteCalls : d.from = n => d.term # currentTerm[n] + 1
      /\ \A d \in voteReplies : d.to = n => d.roundTerm # currentTerm[n] + 1
  BY <1>1, <1>2 DEF CallsApart
<1>4. /\ \A d \in voteCalls' : d.term <= currentTerm'[d.from]
      /\ \A d \in voteReplies' : d.roundTerm <= currentTerm'[d.to]
  BY <1>1, <1>2 DEF CallsApart
<1>5. \A d, e \in voteCalls' :
          d.from = e.from /\ d.to = e.to /\ d.term = e.term => d = e
  BY <1>3 DEF CallsApart
<1>6. \A d \in voteCalls' : \A e \in voteReplies' :
          ~ (d.from = e.to /\ d.to = e.from /\ d.term = e.roundTerm)
  BY <1>3 DEF CallsApart
<1>7. CallsApart'
  BY <1>4, <1>5, <1>6 DEF CallsApart
<1>8. \A m \in Node \ {n} : \A p, t : Asked(m, p, t)' => Asked(m, p, t)
  BY DEF Asked
<1>9. ~ Asked(n, n, currentTerm[n])'
  BY <1>1, <1>3 DEF Asked
<1> QED  BY <1>7, <1>8, <1>9

\* startElectionRound(): the node votes for itself and counts that vote.
LEMMA StartElectionRoundKeeps ==
    ASSUME IInv, NEW ballot, EInvOf(ballot), GoodStep, NEW n \in Node, StartElectionRound(n)
    PROVE  VotesGoOn(ballot)
<1> DEFINE K == IF 1 >= Majority THEN {}
                ELSE {[from |-> n, to |-> p, term |-> currentTerm[n] + 1,
                       lastLogIndex |-> LastIndex(log[n]),
                       lastLogTerm |-> LastTerm(log[n])] : p \in Peers(n)}
<1>0. TypeOK /\ TypeOK' /\ \A m \in Node : MovesOn(m)
  BY DEF IInv, GoodStep
<1>1. /\ currentTerm' = [currentTerm EXCEPT ![n] = @ + 1]
      /\ votedFor' = [votedFor EXCEPT ![n] = n]
      /\ votesReceived' = [votesReceived EXCEPT ![n] = 1]
      /\ status' = [status EXCEPT ![n] =
                       IF 1 >= Majority THEN "LEADER" ELSE "CANDIDATE"]
      /\ voteCalls' = voteCalls \cup K /\ UNCHANGED voteReplies
  BY DEF StartElectionRound, BecomeLeader
<1>2. /\ \A c \in K : c.from = n /\ c.to # n /\ c.term = currentTerm[n] + 1
      /\ \A c, d \in K : c.to = d.to => c = d
  BY DEF Peers
<1> HIDE DEF K
<1>3. /\ CallsApart'
      /\ \A m \in Node \ {n} : \A p, t : Asked(m, p, t)' => Asked(m, p, t)
      /\ ~ Asked(n, n, currentTerm[n])'
  BY <1>0, <1>1, <1>2, NewRoundApart DEF EInvOf
<1>4. Recorded(ballot, currentTerm, votedFor) /\ VotesAdd(ballot)
  BY DEF EInvOf
<1>5. PICK new : Recorded(new, currentTerm', votedFor') /\ Continues(new, ballot, currentTerm')
  BY <1>0, <1>4, RecordGoesOn
<1>6. VotesGiven(new)'
  <2>1. NewAnswersAreVotes
    BY <1>1 DEF NewAnswersAreVotes
  <2> QED  BY <1>0, <1>4, <1>5, <2>1, VotesStayGiven DEF VotesAdd
<1>7. ASSUME NEW m \in Node, m # n
      PROVE  \E voters \in SUBSET Node : CountedBy(m, new, voters)'
  <2>1. /\ status'[m] = status[m] /\ currentTerm'[m] = currentTerm[m]
        /\ votesReceived'[m] = votesReceived[m]
    BY <1>0, <1>1, <1>7 DEF TypeOK, ElectionTypes
  <2>2. \A p \in Node : Asked(m, p, currentTerm[m])'
                            => Asked(m, p, currentTerm[m])
    BY <1>3, <1>7, <2>1 DEF Asked
  <2>3. GoesOn(m)
    BY <2>1, <2>2 DEF GoesOn
  <2> QED  BY <1>0, <1>4, <1>5, <2>3, CountGoesOn DEF VotesAdd
<1>8. CountedBy(n, new, {n})'
  <2>1. /\ currentTerm'[n] = currentTerm[n] + 1 /\ votedFor'[n] = n
        /\ votesReceived'[n] = 1
        /\ status'[n] = IF 1 >= Majority THEN "LEADER" ELSE "CANDIDATE"
    BY <1>0, <1>1 DEF TypeOK, ElectionTypes
  <2>2. new[n][currentTerm'[n]] = n
    BY <1>5, <2>1 DEF Recorded
  <2>3. Cardinality({n}) = 1
    BY FS_Singleton
  <2>4. ~ Asked(n, n, currentTerm[n])'
    BY <1>3
  <2>5. status'[n] = "LEADER" => 1 >= Majority
    BY <2>1
  <2> QED  BY <2>1, <2>2, <2>3, <2>4, <2>5 DEF CountedBy
<1>9. VotesAdd(new)'
  BY <1>6, <1>7, <1>8 DEF VotesAdd
<1> QED  BY <1>3, <1>5, <1>9 DEF EInvOf, VotesGoOn

\* onVoteResponse() that counts: the voter was not counted before, and with
\* its call gone it will not be counted again.
LEMMA CountVoteKeeps ==
    ASSUME IInv, NEW ballot, EInvOf(ballot), GoodStep, NEW n \in Node, NEW c \in voteReplies,
           CountVote(n, c)
    PROVE  VotesGoOn(ballot)
<1>0. TypeOK /\ TypeOK' /\ \A m \in Node : MovesOn(m)
  BY DEF IInv, GoodStep
<1>1. /\ c.to = n /\ c.roundTerm = currentTerm[n] /\ c.granted
      /\ status[n] = "CANDIDATE"
      /\ voteReplies' = voteReplies \ {c}
      /\ votesReceived' = [votesReceived EXCEPT ![n] = @ + 1]
      /\ UNCHANGED <<currentTerm, votedFor, voteCalls>>
  BY DEF CountVote, Counts
<1>2. status' = IF votesReceived[n] + 1 >= Majority
                THEN [status EXCEPT ![n] = "LEADER"] ELSE status
  BY DEF CountVote, BecomeLeader
<1>3. CallsApart'
  BY <1>0, <1>1, CallsStayApart DEF EInvOf
<1>4. Recorded(ballot, currentTerm, votedFor) /\ VotesAdd(ballot)
  BY DEF EInvOf
<1>5. VotesGiven(ballot)'
  BY <1>1, <1>4 DEF VotesAdd, VotesGiven
<1>6. ASSUME NEW m \in Node, m # n
      PROVE  \E voters \in SUBSET Node : CountedBy(m, ballot, voters)'
  <2>1. /\ status'[m] = status[m] /\ currentTerm'[m] = currentTerm[m]
        /\ votesReceived'[m] = votesReceived[m]
    BY <1>0, <1>1, <1>2, <1>6 DEF TypeOK, ElectionTypes
  <2>2. \A p \in Node : Asked(m, p, currentTerm[m])'
                            => Asked(m, p, currentTerm[m])
    BY <1>1 DEF Asked
  <2>3. GoesOn(m)
    BY <2>1, <2>2 DEF GoesOn
  <2>4. Continues(ballot, ballot, currentTerm')
    BY DEF Continues
  <2> QED  BY <1>0, <1>4, <2>3, <2>4, CountGoesOn DEF VotesAdd
<1>7. \E voters \in SUBSET Node : CountedBy(n, ballot, voters)'
  <2>1. PICK old \in SUBSET Node : CountedBy(n, ballot, old)
    BY <1>4 DEF VotesAdd
  <2>2. /\ \A p \in old : ballot[p][currentTerm[n]] = n
        /\ votesReceived[n] = Cardinality(old)
        /\ \A p \in old : ~ Asked(n, p, currentTerm[n])
    BY <1>1, <2>1 DEF CountedBy
  <2>3. c.from \in Node
    BY <1>0 DEF TypeOK, VoteTypes, VoteReply
  <2>4. c.from \notin old
    BY <1>1, <2>2 DEF Asked
  <2>5. IsFiniteSet(old)
    BY <2>1, NodeAssumption, FS_Subset
  <2>6. Cardinality(old \cup {c.from}) = votesReceived[n] + 1
    BY <2>2, <2>4, <2>5, FS_AddElement
  <2>7. votesReceived'[n] = votesReceived[n] + 1 /\ currentTerm'[n] = currentTerm[n]
    BY <1>0, <1>1 DEF TypeOK, ElectionTypes
  <2>8. ballot[c.from][currentTerm[n]] = n
    BY <1>1, <1>4 DEF VotesAdd, VotesGiven
  <2>9. ~ Asked(n, c.from, currentTerm[n])'
    <3>1. \A d \in voteCalls :
             ~ (d.from = n /\ d.to = c.from /\ d.term = currentTerm[n])
      BY <1>1 DEF EInvOf, CallsApart
    <3>2. \A d \in voteReplies' :
             ~ (d.to = n /\ d.from = c.from /\ d.roundTerm = currentTerm[n])
      BY <1>1 DEF EInvOf, CallsApart
    <3> QED  BY <1>1, <2>7, <3>1, <3>2 DEF Asked
  <2>10. \A p \in old : ~ Asked(n, p, currentTerm[n])'
    BY <1>1, <2>2, <2>7 DEF Asked
  <2>11. status'[n] = "LEADER" => votesReceived[n] + 1 >= Majority
    BY <1>1, <1>2
  <2>12. CountedBy(n, ballot, old \cup {c.from})'
    BY <2>2, <2>6, <2>7, <2>8, <2>9, <2>10, <2>11 DEF CountedBy
  <2> QED  BY <2>3, <2>12
<1>8. VotesAdd(ballot)'
  BY <1>5, <1>6, <1>7 DEF VotesAdd
<1>9. Recorded(ballot, currentTerm', votedFor')
  BY <1>1, <1>4
<1>10. Continues(ballot, ballot, currentTerm')
  BY DEF Continues
<1> QED  BY <1>3, <1>8, <1>9, <1>10 DEF EInvOf, VotesGoOn

---------------------------------------------------------------------------
(* The other tasks: they keep the records of votes and counts. *)

\* What most tasks do to votes: nothing.
ElectionsAside == UNCHANGED <<electionVars, voteVars>>

\* A task that leaves votes and their calls alone keeps the invariant.
LEMMA AsideKeeps ==
    ASSUME IInv, NEW ballot, EInvOf(ballot), GoodStep, ElectionsAside
    PROVE  VotesGoOn(ballot)
<1>1. UNCHANGED <<currentTerm, status, votesReceived, voteCalls, voteReplies>>
  BY DEF ElectionsAside, electionVars, voteVars
<1> QED  BY <1>1, UnrelatedStep DEF IInv

\* start() and the heartbeat.
LEMMA TimersKeep ==
    ASSUME IInv, NEW ballot, EInvOf(ballot), GoodStep, NEW n \in Node, Timers(n)
    PROVE  VotesGoOn(ballot)
<1>1. CASE Start(n)
  BY <1>1, AsideKeeps DEF Start, ElectionsAside
<1>2. CASE HeartbeatTick(n)
  BY <1>2, AsideKeeps DEF HeartbeatTick, ElectionsAside
<1> QED  BY <1>1, <1>2, StartElectionRoundKeeps DEF Timers

\* submitCommand().
LEMMA ClientKeeps ==
    ASSUME IInv, NEW ballot, EInvOf(ballot), GoodStep, NEW n \in Node, Client(n)
    PROVE  VotesGoOn(ballot)
<1>1. ASSUME NEW r \in Request, RefuseCommand(n, r)
      PROVE  VotesGoOn(ballot)
  BY <1>1, AsideKeeps DEF RefuseCommand, ElectionsAside
<1>2. ASSUME NEW r \in Request, SubmitCommand(n, r)
      PROVE  VotesGoOn(ballot)
  BY <1>2, AsideKeeps DEF SubmitCommand, ElectionsAside
<1> QED  BY <1>1, <1>2 DEF Client

\* onVoteResponse(), whatever the answer says.
LEMMA OnVoteResponseKeeps ==
    ASSUME IInv, NEW ballot, EInvOf(ballot), GoodStep, NEW n \in Node, NEW p \in Node,
           OnVoteResponse(n, p)
    PROVE  VotesGoOn(ballot)
<1>1. ASSUME NEW c \in voteReplies, StepDownOnVote(n, c)
      PROVE  VotesGoOn(ballot)
  <2>1. /\ BecomeFollower(n, c.term)
        /\ UNCHANGED <<votesReceived, voteCalls>>
        /\ voteReplies' \subseteq voteReplies
    BY <1>1 DEF StepDownOnVote, StepDown
  <2> QED  BY <2>1, StepDownSameRound, QuietStep DEF IInv
<1>2. ASSUME NEW c \in voteReplies, IgnoreVote(n, c)
      PROVE  VotesGoOn(ballot)
  <2>1. UNCHANGED <<electionVars, voteCalls>> /\ voteReplies' \subseteq voteReplies
    BY <1>2 DEF IgnoreVote
  <2>2. \A m \in Node : SameRound(m)
    BY <2>1 DEF electionVars, SameRound
  <2> QED  BY <2>1, <2>2, QuietStep DEF IInv
<1> QED  BY <1>1, <1>2, CountVoteKeeps DEF OnVoteResponse

\* A follower of a leader is in its term, or steps down into it.
LEMMA FollowLeaderKeeps ==
    ASSUME IInv, NEW ballot, EInvOf(ballot), GoodStep, NEW n \in Node, NEW c,
           FollowLeader(n, c), UNCHANGED voteVars
    PROVE  VotesGoOn(ballot)
<1>1. /\ UNCHANGED votesReceived
      /\ voteCalls' \subseteq voteCalls /\ voteReplies' \subseteq voteReplies
  BY DEF FollowLeader, voteVars
<1>2. CASE StepsDown(n, c)
  <2>1. BecomeFollower(n, c.term)
    BY <1>2 DEF FollowLeader
  <2> QED  BY <1>1, <2>1, StepDownSameRound, QuietStep DEF IInv
<1>3. CASE ~ StepsDown(n, c)
  <2>1. UNCHANGED <<currentTerm, status>>
    BY <1>3 DEF FollowLeader
  <2>2. \A m \in Node : SameRound(m)
    BY <1>1, <2>1 DEF SameRound
  <2> QED  BY <1>1, <2>2, QuietStep DEF IInv
<1> QED  BY <1>2, <1>3

\* handleAppendEntries().
LEMMA HandleAppendEntriesKeeps ==
    ASSUME IInv, NEW ballot, EInvOf(ballot), GoodStep, NEW n \in Node, NEW p \in Node,
           HandleAppendEntries(n, p)
    PROVE  VotesGoOn(ballot)
<1>1. ASSUME NEW c \in appendCalls, RefuseOldLeader(n, c)
      PROVE  VotesGoOn(ballot)
  BY <1>1, AsideKeeps DEF RefuseOldLeader, ElectionsAside
<1>2. ASSUME NEW c \in appendCalls, RefuseAppend(n, c)
      PROVE  VotesGoOn(ballot)
  <2>1. FollowLeader(n, c) /\ UNCHANGED voteVars
    BY <1>2 DEF RefuseAppend
  <2> QED  BY <2>1, FollowLeaderKeeps
<1>3. ASSUME NEW c \in appendCalls, AcceptAppend(n, c)
      PROVE  VotesGoOn(ballot)
  <2>1. FollowLeader(n, c) /\ UNCHANGED voteVars
    BY <1>3 DEF AcceptAppend
  <2> QED  BY <2>1, FollowLeaderKeeps
<1> QED  BY <1>1, <1>2, <1>3 DEF HandleAppendEntries

\* onAppendEntriesResponse().
LEMMA OnAppendEntriesResponseKeeps ==
    ASSUME IInv, NEW ballot, EInvOf(ballot), GoodStep, NEW n \in Node, NEW p \in Node,
           OnAppendEntriesResponse(n, p)
    PROVE  VotesGoOn(ballot)
<1>1. ASSUME NEW c \in appendReplies, StepDownOnAppend(n, c)
      PROVE  VotesGoOn(ballot)
  <2>1. /\ BecomeFollower(n, c.term)
        /\ UNCHANGED <<votesReceived, voteVars>>
    BY <1>1 DEF StepDownOnAppend, StepDown
  <2>2. voteCalls' \subseteq voteCalls /\ voteReplies' \subseteq voteReplies
    BY <2>1 DEF voteVars
  <2> QED  BY <2>1, <2>2, StepDownSameRound, QuietStep DEF IInv
<1>2. ASSUME NEW c \in appendReplies, IgnoreAppendReply(n, c)
      PROVE  VotesGoOn(ballot)
  BY <1>2, AsideKeeps DEF IgnoreAppendReply, ElectionsAside
<1>3. ASSUME NEW c \in appendReplies, AppendSucceeded(n, c)
      PROVE  VotesGoOn(ballot)
  BY <1>3, AsideKeeps DEF AppendSucceeded, ElectionsAside
<1>4. ASSUME NEW c \in appendReplies, AppendRefused(n, c)
      PROVE  VotesGoOn(ballot)
  BY <1>4, AsideKeeps DEF AppendRefused, ElectionsAside
<1> QED  BY <1>1, <1>2, <1>3, <1>4 DEF OnAppendEntriesResponse

\* A vote call that fails takes nothing but itself away.
LEMMA CallFailsKeeps ==
    ASSUME IInv, NEW ballot, EInvOf(ballot), GoodStep, CallFails
    PROVE  VotesGoOn(ballot)
<1>1. CASE UNCHANGED <<electionVars, voteVars>>
  BY <1>1, AsideKeeps DEF ElectionsAside
<1>2. CASE VoteCallFails /\ UNCHANGED electionVars
  <2>1. voteCalls' \subseteq voteCalls /\ voteReplies' \subseteq voteReplies
    BY <1>2 DEF VoteCallFails
  <2>2. \A m \in Node : SameRound(m)
    BY <1>2 DEF electionVars, SameRound
  <2> QED  BY <2>1, <2>2, QuietStep DEF IInv
<1> QED  BY <1>1, <1>2 DEF CallFails

---------------------------------------------------------------------------
(* The theorems. *)

\* Before the first election nobody has voted and nobody is asked to.
LEMMA InitGivesEInv ==
    ASSUME Init
    PROVE  EInv
<1>1. CallsApart
  BY DEF Init, CallsApart
<1> DEFINE none == [p \in Node |-> [t \in Nat |-> Nil]]
<1>2. Recorded(none, currentTerm, votedFor)
  BY DEF Init, Recorded
<1>3. VotesAdd(none)
  <2>1. \A n \in Node : CountedBy(n, none, {})
    BY DEF Init, CountedBy
  <2>2. VotesGiven(none)
    BY DEF Init, VotesGiven
  <2> QED  BY <2>1, <2>2 DEF VotesAdd
<1> QED  BY <1>1, <1>2, <1>3 DEF EInv, EInvOf

\* Every task, and every failure of a call, keeps the invariant.
LEMMA EveryStepKeeps ==
    ASSUME IInv, NEW ballot, EInvOf(ballot), Next
    PROVE  VotesGoOn(ballot)
<1>0. GoodStep
  BY EveryStepIsGood
<1>1. ASSUME NEW n \in Node, Timers(n) \/ Client(n)
      PROVE  VotesGoOn(ballot)
  BY <1>0, <1>1, TimersKeep, ClientKeeps
<1>2. ASSUME NEW n \in Node, NEW p \in Node, HandleRequestVote(n, p)
      PROVE  VotesGoOn(ballot)
  BY <1>0, <1>2, RefuseOldCandidateKeeps, VoteKeeps DEF HandleRequestVote
<1>3. ASSUME NEW n \in Node, NEW p \in Node, OnVoteResponse(n, p)
      PROVE  VotesGoOn(ballot)
  BY <1>0, <1>3, OnVoteResponseKeeps
<1>4. ASSUME NEW n \in Node, NEW p \in Node, HandleAppendEntries(n, p)
      PROVE  VotesGoOn(ballot)
  BY <1>0, <1>4, HandleAppendEntriesKeeps
<1>5. ASSUME NEW n \in Node, NEW p \in Node, OnAppendEntriesResponse(n, p)
      PROVE  VotesGoOn(ballot)
  BY <1>0, <1>5, OnAppendEntriesResponseKeeps
<1> QED  BY <1>0, <1>1, <1>2, <1>3, <1>4, <1>5, CallFailsKeeps DEF Next, Tasks

\* A step that changes nothing goes on from the same record.
LEMMA StutterKeeps ==
    ASSUME NEW ballot, EInvOf(ballot), UNCHANGED vars
    PROVE  VotesGoOn(ballot)
<1>1. UNCHANGED <<currentTerm, votedFor, status, votesReceived, voteCalls,
                  voteReplies>>
  BY DEF vars, electionVars, voteVars
<1>2. CallsApart'
  BY <1>1 DEF EInvOf, CallsApart
<1>3. Recorded(ballot, currentTerm, votedFor) /\ VotesAdd(ballot)
  BY DEF EInvOf
<1>4. Recorded(ballot, currentTerm', votedFor')
  BY <1>1, <1>3
<1>5. VotesAdd(ballot)'
  BY <1>1, <1>3 DEF VotesAdd, VotesGiven, CountedBy, Asked
<1>6. Continues(ballot, ballot, currentTerm')
  BY DEF Continues
<1> QED  BY <1>2, <1>4, <1>5, <1>6 DEF EInvOf, VotesGoOn

\* In every cluster all granted answers, counted or on their way, are votes
\* of different nodes, each given once.
THEOREM VotesCounted == Spec => []EInv
<1>1. Init => EInv
  BY InitGivesEInv
<1>2. IInv /\ EInv /\ [Next]_vars => EInv'
  <2> SUFFICES ASSUME IInv, NEW ballot, EInvOf(ballot), [Next]_vars
               PROVE  EInv'
    BY DEF EInv
  <2>1. VotesGoOn(ballot)
    BY EveryStepKeeps, StutterKeeps
  <2> QED  BY <2>1 DEF VotesGoOn, EInv
<1> QED  BY <1>1, <1>2, IInvHolds, PTL DEF Spec

\* Two majorities share a node.
LEMMA MajoritiesMeet ==
    ASSUME NEW S \in SUBSET Node, NEW T \in SUBSET Node,
           Cardinality(S) >= Majority, Cardinality(T) >= Majority
    PROVE  \E p \in S : p \in T
<1>1. IsFiniteSet(Node) /\ IsFiniteSet(S) /\ IsFiniteSet(T)
  BY NodeAssumption, FS_Subset
<1>2. /\ Cardinality(Node) \in Nat /\ Cardinality(S) \in Nat
      /\ Cardinality(T) \in Nat
  BY <1>1, FS_CardinalityType
<1>3. Cardinality(S) + Cardinality(T) > Cardinality(Node)
  BY <1>2 DEF Majority
<1>4. S \cap T # {}
  BY <1>1, <1>3, FS_MajoritiesIntersect
<1> QED  BY <1>4

\* The node that two leaders of a term share has voted once.
LEMMA OneLeader ==
    ASSUME NEW ballot, EInvOf(ballot), NEW m \in Node, NEW n \in Node,
           status[m] = "LEADER", status[n] = "LEADER",
           currentTerm[m] = currentTerm[n]
    PROVE  m = n
<1>1. VotesAdd(ballot)
  BY DEF EInvOf
<1>2. PICK S \in SUBSET Node : CountedBy(m, ballot, S)
  BY <1>1 DEF VotesAdd
<1>3. PICK T \in SUBSET Node : CountedBy(n, ballot, T)
  BY <1>1 DEF VotesAdd
<1>4. Cardinality(S) >= Majority /\ Cardinality(T) >= Majority
  BY <1>2, <1>3 DEF CountedBy
<1>5. PICK p \in S : p \in T
  BY <1>4, MajoritiesMeet
<1>6. ballot[p][currentTerm[m]] = m
  BY <1>2, <1>5 DEF CountedBy
<1>7. ballot[p][currentTerm[n]] = n
  BY <1>3, <1>5 DEF CountedBy
<1> QED  BY <1>6, <1>7

\* startElectionRound(), handleRequestVote() and onVoteResponse() together:
\* in every cluster, whatever vote calls are lost, late or reordered, two
\* nodes never lead in one term, although the candidate counts answers and
\* does not note who gave them.
THEOREM LeadersUnique == Spec => []ElectionSafety
<1>1. EInv => ElectionSafety
  BY OneLeader DEF ElectionSafety, EInv
<1> QED  BY <1>1, VotesCounted, PTL
=============================================================================
