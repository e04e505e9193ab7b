------------------------------- MODULE Raft -------------------------------
(***************************************************************************)
(* The Raft node of 02-raft (RaftNode.java) and a cluster of them joined   *)
(* by unary gRPC calls.                                                    *)
(*                                                                         *)
(* Every change of a node's state is a task on its single-threaded event   *)
(* loop, so every action below is one task, whole: the method the loop     *)
(* runs and everything that method calls.  What interleaves is the tasks   *)
(* of different nodes, the deliveries of calls and answers, timers and     *)
(* client submissions.  A call is a request on its way, or an answer on    *)
(* its way back; it may also fail at its deadline, in which case an        *)
(* AppendEntries request may still reach the peer later.                   *)
(*                                                                         *)
(* An operator named D_Something, in front of D, is D with a plausible     *)
(* bug.  The module does not use it: it is there for checking that the     *)
(* properties would notice.                                                *)
(***************************************************************************)
EXTENDS StateMachine, Sequences, FiniteSets

CONSTANTS
    Node,       \* node ids; every node's PEERS lists all the others
    Nil,        \* null
    Request,    \* submissions: one POST /command each
    CommandOf,  \* the command each submission carries
    SlowStart   \* nodes whose start() comes after their gRPC server is up

CONSTANTS       \* bounds of the model, each a guard of one action
    MaxRounds,  \* how many election rounds start, in the whole cluster
    MaxLog,     \* no leader appends beyond this index
    MaxLate     \* how many abandoned AppendEntries requests linger at a time

ASSUME NodeAssumption == IsFiniteSet(Node) /\ Node # {} /\ Nil \notin Node
ASSUME CommandAssumption == CommandOf \in [Request -> Command]
ASSUME SlowStartAssumption == SlowStart \subseteq Node
ASSUME BoundAssumption ==
    MaxRounds \in Nat /\ MaxLog \in Nat /\ MaxLate \in Nat

VARIABLES
    \* The fields of RaftNode.
    currentTerm, votedFor, status, currentLeaderId, votesReceived,
    commitIndex, lastApplied,
    nextIndex, matchIndex, inFlight,
    pendingClients,     \* [index, request] for each registered future
    snapshot,           \* what currentState() answers readers
    \* The timers: is the election timeout armed, is heartbeatFuture set,
    \* and is there a heartbeat no field refers to any more?
    electionTimer, heartbeat, leakedHeartbeat,
    started,            \* has start()'s task run?
    \* The LogStore and the StateMachine.
    log, values,
    \* The futures returned by submitCommand, one per submission.
    answers,
    \* Calls on their way.
    voteCalls, voteReplies, appendCalls, appendReplies,
    \* How many election rounds there have been, for the bound.
    rounds

electionVars == <<currentTerm, votedFor, status, currentLeaderId,
                  votesReceived>>
timerVars    == <<electionTimer, heartbeat, leakedHeartbeat, started>>
logVars      == <<log, commitIndex, lastApplied, values>>
leaderVars   == <<nextIndex, matchIndex, inFlight>>
clientVars   == <<pendingClients, answers>>
voteVars     == <<voteCalls, voteReplies>>
appendVars   == <<appendCalls, appendReplies>>

vars == <<electionVars, timerVars, logVars, leaderVars, clientVars,
          voteVars, appendVars, snapshot, rounds>>

---------------------------------------------------------------------------
(* Values. *)

ServerStatus == {"FOLLOWER", "CANDIDATE", "LEADER"}

\* A log entry.  The submission stands for the command it carries.
LogEntry == [term : Nat, request : Request]

AnswerStatus == {"UNSENT", "PENDING", "COMMITTED", "FAILED", "NOT_LEADER"}

Unsent    == [status |-> "UNSENT", index |-> 0, value |-> 0]
Pending   == [status |-> "PENDING", index |-> 0, value |-> 0]
NotLeader == [status |-> "NOT_LEADER", index |-> 0, value |-> 0]

VoteCall  == [from : Node, to : Node, term : Nat,
              lastLogIndex : Nat, lastLogTerm : Nat]
VoteReply == [from : Node, to : Node, roundTerm : Nat,
              term : Nat, granted : BOOLEAN]

\* awaited: the caller still waits for the answer.  again: when the call was
\* made, another of the same term to the same peer was outstanding.
AppendCall  == [from : Node, to : Node, term : Nat,
                prevLogIndex : Nat, prevLogTerm : Nat,
                entries : Seq(LogEntry), leaderCommit : Nat,
                awaited : BOOLEAN, again : BOOLEAN]
AppendReply == [from : Node, to : Node, roundTerm : Nat,
                prevLogIndex : Nat, sentCount : Nat, again : BOOLEAN,
                term : Nat, success : BOOLEAN]

Peers(n) == Node \ {n}

Majority_Half == Cardinality(Node) \div 2

\* NodeConfig.majority()
Majority == (Cardinality(Node) \div 2) + 1

MinOf(a, b) == IF a <= b THEN a ELSE b
MaxOf(a, b) == IF a >= b THEN a ELSE b

---------------------------------------------------------------------------
(* The log: LogStore, and the two places that compare or merge logs. *)

LastIndex(l) == Len(l)

TermAt_Sentinel(l, i) == IF i = 0 THEN -1 ELSE l[i].term

TermAt(l, i) == IF i = 0 THEN 0 ELSE l[i].term

LastTerm(l) == TermAt(l, Len(l))

EntriesFrom(l, i) == SubSeq(l, i, Len(l))

TruncateFrom(l, i) == SubSeq(l, 1, i - 1)

IsLogUpToDate_ByIndex(l, lastLogTerm, lastLogIndex) ==
    lastLogIndex >= LastIndex(l)

IsLogUpToDate(l, lastLogTerm, lastLogIndex) ==
    \/ lastLogTerm > LastTerm(l)
    \/ lastLogTerm = LastTerm(l) /\ lastLogIndex >= LastIndex(l)

Consistent(l, prevLogIndex, prevLogTerm) ==
    /\ prevLogIndex <= LastIndex(l)
    /\ TermAt(l, prevLogIndex) = prevLogTerm \/ prevLogIndex = 0

\* The positions of entries that the follower lacks, or holds with another
\* term: the loop truncates at the first and appends from there on.
Differing(l, prev, entries) ==
    {k \in 1 .. Len(entries) : \/ prev + k > LastIndex(l)
                               \/ l[prev + k].term # entries[k].term}

Merge_KeepsConflicts(l, prev, entries) ==
    IF LastIndex(l) >= prev + Len(entries) THEN l
    ELSE l \o EntriesFrom(entries, LastIndex(l) - prev + 1)

Merge(l, prev, entries) ==
    IF Differing(l, prev, entries) = {} THEN l
    ELSE LET first == CHOOSE k \in Differing(l, prev, entries) :
                          \A j \in Differing(l, prev, entries) : k <= j
         IN  TruncateFrom(l, prev + first) \o EntriesFrom(entries, first)

---------------------------------------------------------------------------
(* Committing and applying. *)

Greatest(S, otherwise) ==
    IF S = {} THEN otherwise ELSE CHOOSE i \in S : \A j \in S : j <= i

AdvanceCommit_AnyTerm(n, l, match, commit) ==
    Greatest({i \in commit + 1 .. LastIndex(l) :
                Cardinality({p \in Peers(n) : match[p] >= i}) + 1 >= Majority},
             commit)

\* advanceCommitIndex(): walk down from the end of the log while entries
\* are of the leader's term, and stop at the first one a majority holds.
AdvanceCommit(n, l, match, commit) ==
    Greatest({i \in commit + 1 .. LastIndex(l) :
                /\ \A j \in i .. LastIndex(l) : l[j].term = currentTerm[n]
                /\ Cardinality({p \in Peers(n) : match[p] >= i}) + 1 >= Majority},
             commit)

FollowerCommit_MayLower(c, own) ==
    MinOf(c.leaderCommit, c.prevLogIndex + Len(c.entries))

\* A follower takes over the leader's commit index, but not beyond the
\* entries the request vouches for.
FollowerCommit(c, own) ==
    IF c.leaderCommit > own
    THEN MinOf(c.leaderCommit, c.prevLogIndex + Len(c.entries)) ELSE own

\* The map after applying entries from + 1 .. i of a log to vals.
ReplayFrom(vals, l, from) ==
    LET after[i \in Nat] ==
            IF i <= from THEN vals
            ELSE Apply(after[i - 1], CommandOf[l[i].request]).values
    IN  after

Outcome_AlwaysCommitted(i, result) ==
    [status |-> "COMMITTED", index |-> i, value |-> result.value]

Outcome(i, result) ==
    [status |-> IF result.ok THEN "COMMITTED" ELSE "FAILED",
     index  |-> i, value |-> result.value]

FailFutures_Silently(futures) == answers

\* Completing registered futures with NOT_LEADER.
FailFutures(futures) ==
    [r \in Request |->
        IF answers[r] = Pending /\ \E f \in futures : f.request = r
        THEN NotLeader ELSE answers[r]]

FailPendingClients_Skipped(n) == UNCHANGED clientVars

\* failPendingClients()
FailPendingClients(n) ==
    /\ pendingClients' = [pendingClients EXCEPT ![n] = {}]
    /\ answers' = FailFutures(pendingClients[n])

\* applyCommitted() on log l up to commit, with the given futures registered
\* and the answers given so far: each applied entry completes its future.
ApplyCommitted(n, l, commit, futures, given) ==
    LET done   == {f \in futures : f.index \in lastApplied[n] + 1 .. commit}
        before == ReplayFrom(values[n], l, lastApplied[n])
    IN  /\ lastApplied' = [lastApplied EXCEPT ![n] = MaxOf(@, commit)]
        /\ values' = [values EXCEPT ![n] = before[MaxOf(lastApplied[n], commit)]]
        /\ pendingClients' = [pendingClients EXCEPT ![n] = futures \ done]
        /\ answers' =
             [r \in Request |->
                IF given[r] = Pending /\ \E f \in done : f.request = r
                THEN LET f == CHOOSE f \in done : f.request = r
                     IN  Outcome(f.index, Apply(before[f.index - 1],
                                     CommandOf[l[f.index].request]))
                ELSE given[r]]

---------------------------------------------------------------------------
(* Sending. *)

\* replicateTo() for every peer in `to' that has no call in flight: the
\* whole suffix of log l from the peer's next index.
OutstandingAppend(n, p, t) ==
    \/ \E c \in appendCalls : c.from = n /\ c.to = p /\ c.term = t /\ c.awaited
    \/ \E c \in appendReplies : c.to = n /\ c.from = p /\ c.roundTerm = t

AppendRequest(n, p, t, l, next, commit) ==
    [from |-> n, to |-> p, term |-> t,
     prevLogIndex |-> next - 1, prevLogTerm |-> TermAt(l, next - 1),
     entries |-> EntriesFrom(l, next), leaderCommit |-> commit,
     awaited |-> TRUE, again |-> OutstandingAppend(n, p, t)]

\* calls is what is left of appendCalls once the task's own input is taken,
\* busy the node's inFlight set when replicateTo() runs.
ReplicateTo(n, to, t, l, next, commit, busy, calls) ==
    /\ inFlight' = [inFlight EXCEPT ![n] = busy \cup to]
    /\ appendCalls' = calls \cup
         {AppendRequest(n, p, t, l, next[p], commit) : p \in to \ busy}

PublishSnapshot_TooEarly(n) ==
    snapshot' = [snapshot EXCEPT ![n] =
        [currentTerm |-> currentTerm'[n], status |-> status'[n],
         currentLeaderId |-> currentLeaderId'[n],
         commitIndex |-> commitIndex[n], lastApplied |-> lastApplied[n],
         lastIndex |-> LastIndex(log'[n])]]

PublishSnapshot(n) ==
    snapshot' = [snapshot EXCEPT ![n] =
        [currentTerm |-> currentTerm'[n], status |-> status'[n],
         currentLeaderId |-> currentLeaderId'[n],
         commitIndex |-> commitIndex'[n], lastApplied |-> lastApplied'[n],
         lastIndex |-> LastIndex(log'[n])]]

---------------------------------------------------------------------------
(* Changes of role, the parts several tasks share. *)

BecomeFollower_KeepsTicking(n, t) ==
    /\ currentTerm' = [currentTerm EXCEPT ![n] = MaxOf(@, t)]
    /\ status' = [status EXCEPT ![n] = "FOLLOWER"]
    /\ electionTimer' = [electionTimer EXCEPT ![n] = TRUE]
    /\ UNCHANGED heartbeat

\* becomeFollower(t) with a term above the node's own, or its own.
BecomeFollower(n, t) ==
    /\ currentTerm' = [currentTerm EXCEPT ![n] = MaxOf(@, t)]
    /\ status' = [status EXCEPT ![n] = "FOLLOWER"]
    /\ heartbeat' = [heartbeat EXCEPT ![n] = FALSE]
    /\ electionTimer' = [electionTimer EXCEPT ![n] = TRUE]

ForgetVote_Always(n, t) == Nil

\* becomeFollower() forgets the vote only when the term is new.
ForgetVote(n, t) ==
    IF t > currentTerm[n] THEN Nil ELSE votedFor[n]

\* becomeLeader() in term t.  A heartbeat that is still scheduled when the
\* field is overwritten can never be cancelled.
BecomeLeader(n, t) ==
    LET next == [p \in Node |-> LastIndex(log[n]) + 1]
    IN  /\ status' = [status EXCEPT ![n] = "LEADER"]
        /\ currentLeaderId' = [currentLeaderId EXCEPT ![n] = n]
        /\ electionTimer' = [electionTimer EXCEPT ![n] = FALSE]
        /\ nextIndex' = [nextIndex EXCEPT ![n] = next]
        /\ matchIndex' = [matchIndex EXCEPT ![n] = [p \in Node |-> 0]]
        /\ ReplicateTo(n, Peers(n), t, log[n], next, commitIndex[n], {},
                       appendCalls)
        /\ leakedHeartbeat' =
             [leakedHeartbeat EXCEPT ![n] = @ \/ heartbeat[n]]
        /\ heartbeat' = [heartbeat EXCEPT ![n] = TRUE]

\* The rest of a task in which a node steps down on seeing term t.
StepDown(n, t) ==
    /\ BecomeFollower(n, t)
    /\ votedFor' = [votedFor EXCEPT ![n] = ForgetVote(n, t)]
    /\ FailPendingClients(n)
    /\ UNCHANGED <<currentLeaderId, votesReceived, leakedHeartbeat, started,
                   logVars, nextIndex, matchIndex>>
    /\ PublishSnapshot(n)

---------------------------------------------------------------------------
(* Tasks: start() and the timers. *)

\* start()'s task arms the first election timeout, whatever happened before.
Start(n) ==
    /\ ~started[n]
    /\ started' = [started EXCEPT ![n] = TRUE]
    /\ electionTimer' = [electionTimer EXCEPT ![n] = TRUE]
    /\ UNCHANGED <<electionVars, heartbeat, leakedHeartbeat, logVars,
                   leaderVars, clientVars, voteVars, appendVars, snapshot,
                   rounds>>

\* onElectionTimeout(): a new round, asking every peer for its vote; a node
\* that is a majority by itself is leader at once.
StartElectionRound(n) ==
    /\ electionTimer[n]
    /\ rounds < MaxRounds /\ rounds' = rounds + 1
    /\ currentTerm' = [currentTerm EXCEPT ![n] = @ + 1]
    /\ votedFor' = [votedFor EXCEPT ![n] = n]
    /\ votesReceived' = [votesReceived EXCEPT ![n] = 1]
    /\ IF 1 >= Majority
       THEN /\ BecomeLeader(n, currentTerm[n] + 1)
            /\ UNCHANGED voteCalls
       ELSE /\ status' = [status EXCEPT ![n] = "CANDIDATE"]
            /\ currentLeaderId' = [currentLeaderId EXCEPT ![n] = Nil]
            /\ voteCalls' = voteCalls \cup
                 {[from |-> n, to |-> p, term |-> currentTerm[n] + 1,
                   lastLogIndex |-> LastIndex(log[n]),
                   lastLogTerm |-> LastTerm(log[n])] : p \in Peers(n)}
            /\ UNCHANGED <<electionTimer, heartbeat, leakedHeartbeat,
                           leaderVars, appendCalls>>
    /\ UNCHANGED <<started, logVars, clientVars, voteReplies, appendReplies>>
    /\ PublishSnapshot(n)

\* The periodic replicateToAllPeers(), which does nothing unless leader.
HeartbeatTick(n) ==
    /\ heartbeat[n] \/ leakedHeartbeat[n]
    /\ status[n] = "LEADER"
    /\ ReplicateTo(n, Peers(n), currentTerm[n], log[n], nextIndex[n],
                   commitIndex[n], inFlight[n], appendCalls)
    /\ UNCHANGED <<electionVars, timerVars, logVars, nextIndex, matchIndex,
                   clientVars, voteVars, appendReplies, snapshot, rounds>>

---------------------------------------------------------------------------
(* Tasks: clients. *)

\* submitCommand() at a node that is not the leader.
RefuseCommand(n, r) ==
    /\ answers[r] = Unsent
    /\ status[n] # "LEADER"
    /\ answers' = [answers EXCEPT ![r] = NotLeader]
    /\ UNCHANGED <<electionVars, timerVars, logVars, leaderVars,
                   pendingClients, voteVars, appendVars, snapshot, rounds>>

\* submitCommand() at the leader.  The requests it sends still carry the
\* old commitIndex: the index is advanced after them.
SubmitCommand(n, r) ==
    LET l == Append(log[n], [term |-> currentTerm[n], request |-> r])
        i == LastIndex(l)
        commit == AdvanceCommit(n, l, matchIndex[n], commitIndex[n])
        futures == {f \in pendingClients[n] : f.index # i}
                     \cup {[index |-> i, request |-> r]}
    IN  /\ answers[r] = Unsent
        /\ status[n] = "LEADER"
        /\ i <= MaxLog
        /\ log' = [log EXCEPT ![n] = l]
        /\ ReplicateTo(n, Peers(n), currentTerm[n], l, nextIndex[n],
                       commitIndex[n], inFlight[n], appendCalls)
        /\ commitIndex' = [commitIndex EXCEPT ![n] = commit]
        /\ ApplyCommitted(n, l, commit, futures,
                          [answers EXCEPT ![r] = Pending])
        /\ UNCHANGED <<electionVars, timerVars, nextIndex, matchIndex,
                       voteVars, appendReplies, rounds>>
        /\ PublishSnapshot(n)

---------------------------------------------------------------------------
(* Tasks: RequestVote. *)

\* handleRequestVote() for a candidate of an older term.
RefuseOldCandidate(n, c) ==
    /\ c.to = n /\ c.term < currentTerm[n]
    /\ voteCalls' = voteCalls \ {c}
    /\ voteReplies' = voteReplies \cup
         {[from |-> n, to |-> c.from, roundTerm |-> c.term,
           term |-> currentTerm[n], granted |-> FALSE]}
    /\ UNCHANGED <<electionVars, timerVars, logVars, leaderVars, clientVars,
                   appendVars, snapshot>>

\* handleRequestVote() otherwise: step down for a newer term, then vote once
\* per term, and only for a log at least as up to date.
Vote(n, c) ==
    LET newTerm == c.term > currentTerm[n]
        vote    == ForgetVote(n, c.term)
        granted == /\ vote \in {Nil, c.from}
                   /\ IsLogUpToDate(log[n], c.lastLogTerm, c.lastLogIndex)
    IN  /\ c.to = n /\ c.term >= currentTerm[n]
        /\ voteCalls' = voteCalls \ {c}
        /\ voteReplies' = voteReplies \cup
             {[from |-> n, to |-> c.from, roundTerm |-> c.term,
               term |-> c.term, granted |-> granted]}
        /\ votedFor' = [votedFor EXCEPT ![n] = IF granted THEN c.from ELSE vote]
        /\ IF newTerm
           THEN BecomeFollower(n, c.term) /\ FailPendingClients(n)
           ELSE /\ electionTimer' = [electionTimer EXCEPT ![n] = @ \/ granted]
                /\ UNCHANGED <<currentTerm, status, heartbeat, clientVars>>
        /\ UNCHANGED <<currentLeaderId, votesReceived, leakedHeartbeat, started,
                       logVars, leaderVars, appendVars>>
        /\ PublishSnapshot(n)

\* onVoteResponse() of a peer in a newer term.
StepDownOnVote(n, c) ==
    /\ c.to = n /\ c.term > currentTerm[n]
    /\ voteReplies' = voteReplies \ {c}
    /\ StepDown(n, c.term)
    /\ UNCHANGED <<inFlight, voteCalls, appendVars>>

Counts_AnyRound(n, c) ==
    /\ c.to = n /\ c.term <= currentTerm[n]
    /\ status[n] = "CANDIDATE" /\ c.granted

Counts(n, c) ==
    /\ c.to = n /\ c.term <= currentTerm[n]
    /\ status[n] = "CANDIDATE" /\ c.roundTerm = currentTerm[n]
    /\ c.granted

\* onVoteResponse() that changes nothing: refused, or of another round.
IgnoreVote(n, c) ==
    /\ c.to = n /\ c.term <= currentTerm[n] /\ ~Counts(n, c)
    /\ voteReplies' = voteReplies \ {c}
    /\ UNCHANGED <<electionVars, timerVars, logVars, leaderVars, clientVars,
                   voteCalls, appendVars, snapshot>>

\* onVoteResponse() with a vote of this round.
CountVote(n, c) ==
    /\ Counts(n, c)
    /\ voteReplies' = voteReplies \ {c}
    /\ votesReceived' = [votesReceived EXCEPT ![n] = @ + 1]
    /\ UNCHANGED <<currentTerm, votedFor, started, logVars, clientVars,
                   voteCalls, appendReplies>>
    /\ IF votesReceived[n] + 1 >= Majority
       THEN BecomeLeader(n, currentTerm[n]) /\ PublishSnapshot(n)
       ELSE UNCHANGED <<status, currentLeaderId, electionTimer, heartbeat,
                        leakedHeartbeat, leaderVars, appendCalls, snapshot>>

---------------------------------------------------------------------------
(* Tasks: AppendEntries at the follower. *)

\* The answer travels back only to a caller that still waits.
Reply(n, c, t, ok) ==
    appendReplies' = appendReplies \cup
        IF ~c.awaited THEN {}
        ELSE {[from |-> n, to |-> c.from, roundTerm |-> c.term,
               prevLogIndex |-> c.prevLogIndex, sentCount |-> Len(c.entries),
               again |-> c.again, term |-> t, success |-> ok]}

\* handleAppendEntries() from a leader of an older term.
RefuseOldLeader(n, c) ==
    /\ c.to = n /\ c.term < currentTerm[n]
    /\ appendCalls' = appendCalls \ {c}
    /\ Reply(n, c, currentTerm[n], FALSE)
    /\ UNCHANGED <<electionVars, timerVars, logVars, leaderVars, clientVars,
                   voteVars, snapshot>>

\* Anyone not yet a follower of the leader's term becomes one.
StepsDown(n, c) == c.term > currentTerm[n] \/ status[n] # "FOLLOWER"

FollowLeader(n, c) ==
    /\ IF StepsDown(n, c) THEN BecomeFollower(n, c.term)
       ELSE /\ electionTimer' = [electionTimer EXCEPT ![n] = TRUE]
            /\ UNCHANGED <<currentTerm, status, heartbeat>>
    /\ votedFor' = [votedFor EXCEPT ![n] = ForgetVote(n, c.term)]
    /\ currentLeaderId' = [currentLeaderId EXCEPT ![n] = c.from]
    /\ UNCHANGED <<votesReceived, leakedHeartbeat, started>>

\* handleAppendEntries() whose previous entry the follower does not hold.
RefuseAppend(n, c) ==
    /\ c.to = n /\ c.term >= currentTerm[n]
    /\ ~Consistent(log[n], c.prevLogIndex, c.prevLogTerm)
    /\ appendCalls' = appendCalls \ {c}
    /\ Reply(n, c, c.term, FALSE)
    /\ FollowLeader(n, c)
    /\ IF StepsDown(n, c) THEN FailPendingClients(n) ELSE UNCHANGED clientVars
    /\ UNCHANGED <<logVars, leaderVars, voteVars>>
    /\ PublishSnapshot(n)

\* handleAppendEntries() that merges the entries, takes over the leader's
\* commit index as far as the request vouches for the log, and applies.
AcceptAppend(n, c) ==
    LET l      == Merge(log[n], c.prevLogIndex, c.entries)
        commit == FollowerCommit(c, commitIndex[n])
    IN  /\ c.to = n /\ c.term >= currentTerm[n]
        /\ Consistent(log[n], c.prevLogIndex, c.prevLogTerm)
        /\ appendCalls' = appendCalls \ {c}
        /\ Reply(n, c, c.term, TRUE)
        /\ FollowLeader(n, c)
        /\ log' = [log EXCEPT ![n] = l]
        /\ commitIndex' = [commitIndex EXCEPT ![n] = commit]
        /\ IF StepsDown(n, c)
           THEN ApplyCommitted(n, l, commit, {}, FailFutures(pendingClients[n]))
           ELSE ApplyCommitted(n, l, commit, pendingClients[n], answers)
        /\ UNCHANGED <<leaderVars, voteVars>>
        /\ PublishSnapshot(n)

---------------------------------------------------------------------------
(* Tasks: AppendEntries answers at the caller.  Each first removes the     *)
(* peer from inFlight, whichever call put it there.                        *)

\* onAppendEntriesResponse() of a peer in a newer term.
StepDownOnAppend(n, c) ==
    /\ c.to = n /\ c.term > currentTerm[n]
    /\ appendReplies' = appendReplies \ {c}
    /\ inFlight' = [inFlight EXCEPT ![n] = @ \ {c.from}]
    /\ StepDown(n, c.term)
    /\ UNCHANGED <<voteVars, appendCalls>>

Replicated_OffByOne(n, c) == c.prevLogIndex + c.sentCount + 1

Replicated_WholeLog(n, c) == LastIndex(log[n])

\* How far a successful answer shows the peer's log to match.
Replicated(n, c) == c.prevLogIndex + c.sentCount

OfThisRound(n, c) == status[n] = "LEADER" /\ c.roundTerm = currentTerm[n]

\* onAppendEntriesResponse() of a round the node has moved past.
IgnoreAppendReply(n, c) ==
    /\ c.to = n /\ c.term <= currentTerm[n] /\ ~OfThisRound(n, c)
    /\ appendReplies' = appendReplies \ {c}
    /\ inFlight' = [inFlight EXCEPT ![n] = @ \ {c.from}]
    /\ UNCHANGED <<electionVars, timerVars, logVars, nextIndex, matchIndex,
                   clientVars, voteVars, appendCalls, snapshot>>

\* onAppendEntriesResponse() with success: the peer holds what was sent.
AppendSucceeded(n, c) ==
    LET match  == [matchIndex[n] EXCEPT ![c.from] =
                       MaxOf(@, Replicated(n, c))]
        next   == [nextIndex[n] EXCEPT ![c.from] = match[c.from] + 1]
        commit == AdvanceCommit(n, log[n], match, commitIndex[n])
        more   == IF next[c.from] <= LastIndex(log[n]) THEN {c.from} ELSE {}
    IN  /\ c.to = n /\ c.term <= currentTerm[n] /\ OfThisRound(n, c)
        /\ c.success
        /\ appendReplies' = appendReplies \ {c}
        /\ matchIndex' = [matchIndex EXCEPT ![n] = match]
        /\ nextIndex' = [nextIndex EXCEPT ![n] = next]
        /\ commitIndex' = [commitIndex EXCEPT ![n] = commit]
        /\ ApplyCommitted(n, log[n], commit, pendingClients[n], answers)
        /\ ReplicateTo(n, more, currentTerm[n], log[n], next, commit,
                       inFlight[n] \ {c.from}, appendCalls)
        /\ UNCHANGED <<electionVars, timerVars, log, voteVars>>
        /\ PublishSnapshot(n)

StepBack_NotToFirst(i) == MaxOf(2, i - 1)

\* Where to try again after a refusal.
StepBack(i) == MaxOf(1, i - 1)

\* onAppendEntriesResponse() with failure: one step back and again at once.
AppendRefused(n, c) ==
    LET next == [nextIndex[n] EXCEPT ![c.from] = StepBack(@)]
    IN  /\ c.to = n /\ c.term <= currentTerm[n] /\ OfThisRound(n, c)
        /\ ~c.success
        /\ appendReplies' = appendReplies \ {c}
        /\ nextIndex' = [nextIndex EXCEPT ![n] = next]
        /\ ReplicateTo(n, {c.from}, currentTerm[n], log[n], next,
                       commitIndex[n], inFlight[n] \ {c.from}, appendCalls)
        /\ UNCHANGED <<electionVars, timerVars, logVars, matchIndex,
                       clientVars, voteVars, snapshot>>

---------------------------------------------------------------------------
(* Calls that fail: the peer is unreachable or the deadline passes.        *)

\* A vote call's failure changes nothing at the candidate: a request that is
\* handled late is one whose answer is dropped here.
VoteCallFails ==
    \/ \E c \in voteCalls : voteCalls' = voteCalls \ {c} /\ UNCHANGED voteReplies
    \/ \E c \in voteReplies : voteReplies' = voteReplies \ {c} /\ UNCHANGED voteCalls

Late == {c \in appendCalls : ~c.awaited}

AbandonAppend_StaysInFlight(n, c) ==
    /\ c.from = n /\ c.awaited
    /\ appendCalls' = appendCalls \ {c}
    /\ UNCHANGED <<appendReplies, inFlight>>

\* An AppendEntries request is abandoned: it is lost, or may still arrive.
AbandonAppend(n, c) ==
    /\ c.from = n /\ c.awaited
    /\ inFlight' = [inFlight EXCEPT ![n] = @ \ {c.to}]
    /\ \/ appendCalls' = appendCalls \ {c}
       \/ /\ Cardinality(Late) < MaxLate
          /\ appendCalls' = (appendCalls \ {c}) \cup {[c EXCEPT !.awaited = FALSE]}
    /\ UNCHANGED appendReplies

LoseAppendReply_StaysInFlight(n, c) ==
    /\ c.to = n
    /\ appendReplies' = appendReplies \ {c}
    /\ UNCHANGED <<appendCalls, inFlight>>

\* The request was handled, but its answer comes after the deadline.
LoseAppendReply(n, c) ==
    /\ c.to = n
    /\ inFlight' = [inFlight EXCEPT ![n] = @ \ {c.from}]
    /\ appendReplies' = appendReplies \ {c}
    /\ UNCHANGED appendCalls

\* An abandoned request is lost after all.
LoseLateAppend(c) ==
    /\ ~c.awaited
    /\ appendCalls' = appendCalls \ {c}
    /\ UNCHANGED <<appendReplies, inFlight>>

---------------------------------------------------------------------------

Init ==
    /\ currentTerm = [n \in Node |-> 0]
    /\ votedFor = [n \in Node |-> Nil]
    /\ status = [n \in Node |-> "FOLLOWER"]
    /\ currentLeaderId = [n \in Node |-> Nil]
    /\ votesReceived = [n \in Node |-> 0]
    /\ started = [n \in Node |-> n \notin SlowStart]
    /\ electionTimer = started
    /\ heartbeat = [n \in Node |-> FALSE]
    /\ leakedHeartbeat = [n \in Node |-> FALSE]
    /\ log = [n \in Node |-> <<>>]
    /\ commitIndex = [n \in Node |-> 0]
    /\ lastApplied = [n \in Node |-> 0]
    /\ values = [n \in Node |-> NoValues]
    /\ nextIndex = [n \in Node |-> [p \in Node |-> 1]]
    /\ matchIndex = [n \in Node |-> [p \in Node |-> 0]]
    /\ inFlight = [n \in Node |-> {}]
    /\ pendingClients = [n \in Node |-> {}]
    /\ answers = [r \in Request |-> Unsent]
    /\ snapshot = [n \in Node |->
           [currentTerm |-> 0, status |-> "FOLLOWER", currentLeaderId |-> Nil,
            commitIndex |-> 0, lastApplied |-> 0, lastIndex |-> 0]]
    /\ voteCalls = {} /\ voteReplies = {}
    /\ appendCalls = {} /\ appendReplies = {}
    /\ rounds = 0

Timers(n) == Start(n) \/ StartElectionRound(n) \/ HeartbeatTick(n)

Client(n) == \E r \in Request : RefuseCommand(n, r) \/ SubmitCommand(n, r)

\* The gRPC tasks of node n, by the node p at the other end of the call.
HandleRequestVote(n, p) ==
    /\ \E c \in voteCalls :
          c.from = p /\ (RefuseOldCandidate(n, c) \/ Vote(n, c))
    /\ UNCHANGED rounds

OnVoteResponse(n, p) ==
    /\ \E c \in voteReplies :
          /\ c.from = p
          /\ StepDownOnVote(n, c) \/ IgnoreVote(n, c) \/ CountVote(n, c)
    /\ UNCHANGED rounds

HandleAppendEntries(n, p) ==
    /\ \E c \in appendCalls :
          /\ c.from = p
          /\ RefuseOldLeader(n, c) \/ RefuseAppend(n, c) \/ AcceptAppend(n, c)
    /\ UNCHANGED rounds

OnAppendEntriesResponse(n, p) ==
    /\ \E c \in appendReplies :
          /\ c.from = p
          /\ \/ StepDownOnAppend(n, c) \/ IgnoreAppendReply(n, c)
             \/ AppendSucceeded(n, c) \/ AppendRefused(n, c)
    /\ UNCHANGED rounds

CallFails ==
    /\ UNCHANGED rounds
    /\ \/ /\ VoteCallFails
          /\ UNCHANGED <<electionVars, timerVars, logVars, leaderVars, clientVars,
                         appendVars, snapshot>>
       \/ /\ \/ \E n \in Node : \/ \E c \in appendCalls : AbandonAppend(n, c)
                                \/ \E c \in appendReplies : LoseAppendReply(n, c)
             \/ \E c \in appendCalls : LoseLateAppend(c)
          /\ UNCHANGED <<electionVars, timerVars, logVars, nextIndex, matchIndex,
                         clientVars, voteVars, snapshot>>

Tasks ==
    \/ \E n \in Node : Timers(n) \/ Client(n)
    \/ \E n, p \in Node :
          \/ HandleRequestVote(n, p) \/ OnVoteResponse(n, p)
          \/ HandleAppendEntries(n, p) \/ OnAppendEntriesResponse(n, p)

Next == Tasks \/ CallFails

Spec == Init /\ [][Next]_vars

\* The event loop serves its queue in order, so no task waits for ever, and
\* the heartbeat is periodic.  Elections and clients are left free.
Fairness ==
    \A n \in Node :
        /\ WF_vars(HeartbeatTick(n))
        /\ \A p \in Node : /\ WF_vars(HandleAppendEntries(n, p))
                           /\ WF_vars(OnAppendEntriesResponse(n, p))
===========================================================================
