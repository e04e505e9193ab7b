-------------------------- MODULE RaftProperties --------------------------
(***************************************************************************)
(* What must be true of every cluster of Raft.tla: the invariants, action  *)
(* properties and the refinement of ReplicatedLog that the runs check.     *)
(***************************************************************************)
EXTENDS Raft

---------------------------------------------------------------------------
(* Types. *)

ElectionTypes ==
    /\ currentTerm \in [Node -> Nat]
    /\ votedFor \in [Node -> Node \cup {Nil}]
    /\ status \in [Node -> ServerStatus]
    /\ currentLeaderId \in [Node -> Node \cup {Nil}]
    /\ votesReceived \in [Node -> Nat]

TimerTypes ==
    /\ electionTimer \in [Node -> BOOLEAN]
    /\ heartbeat \in [Node -> BOOLEAN]
    /\ leakedHeartbeat \in [Node -> BOOLEAN]
    /\ started \in [Node -> BOOLEAN]

LogTypes ==
    /\ log \in [Node -> Seq(LogEntry)]
    /\ commitIndex \in [Node -> Nat]
    /\ lastApplied \in [Node -> Nat]
    /\ DOMAIN values = Node

LeaderTypes ==
    /\ nextIndex \in [Node -> [Node -> Nat \ {0}]]
    /\ matchIndex \in [Node -> [Node -> Nat]]
    /\ inFlight \in [Node -> SUBSET Node]

ClientTypes ==
    /\ pendingClients \in [Node -> SUBSET [index : Nat, request : Request]]
    /\ DOMAIN answers = Request
    /\ \A r \in Request : answers[r].status \in AnswerStatus

VoteTypes == voteCalls \subseteq VoteCall /\ voteReplies \subseteq VoteReply

AppendTypes ==
    /\ appendCalls \subseteq AppendCall
    /\ appendReplies \subseteq AppendReply

\* Every field, timer, log and call has the type the program declares, and
\* so no entry is read from where a log has none.
TypeOK ==
    /\ ElectionTypes /\ TimerTypes /\ LogTypes /\ LeaderTypes
    /\ ClientTypes /\ VoteTypes /\ AppendTypes

---------------------------------------------------------------------------
(* Elections. *)

\* At most one leader per term: startElectionRound() and handleRequestVote()
\* share votedFor, and onVoteResponse() counts answers without remembering
\* who gave them.
ElectionSafety ==
    \A m, n \in Node :
        status[m] = "LEADER" /\ status[n] = "LEADER"
            /\ currentTerm[m] = currentTerm[n] => m = n

\* Within a term a node votes once, and a term is never left for a lower
\* one, whatever mix of calls, late calls and timers it serves.
VoteOnce ==
    [][\A n \in Node :
        /\ currentTerm'[n] >= currentTerm[n]
        /\ currentTerm'[n] = currentTerm[n] /\ votedFor[n] # Nil
               => votedFor'[n] = votedFor[n]]_vars

---------------------------------------------------------------------------
(* Logs. *)

\* Two logs that agree on the term of an entry agree up to that entry.
LogMatching ==
    \A m, n \in Node : \A i \in 1 .. MinOf(Len(log[m]), Len(log[n])) :
        log[m][i].term = log[n][i].term
            => SubSeq(log[m], 1, i) = SubSeq(log[n], 1, i)

Committed(n) == SubSeq(log[n], 1, commitIndex[n])

\* A leader holds every entry committed in an earlier term, or in its own.
LeaderCompleteness ==
    \A m, n \in Node :
        status[m] = "LEADER" /\ currentTerm[m] >= currentTerm[n]
            => /\ Len(log[m]) >= commitIndex[n]
               /\ SubSeq(log[m], 1, commitIndex[n]) = Committed(n)

\* Nodes apply the same entries in the same order and so hold the same map
\* after the same number of them.
StateMachineSafety ==
    \A m, n \in Node :
        /\ lastApplied[n] = commitIndex[n]
        /\ commitIndex[m] <= commitIndex[n]
               => SubSeq(log[n], 1, commitIndex[m]) = Committed(m)
        /\ commitIndex[m] = commitIndex[n] => values[m] = values[n]

\* handleAppendEntries() lowers no commit index with its min() and
\* truncates no committed entry, not even for a late request.
CommittedIsStable ==
    [][\A n \in Node :
        /\ commitIndex'[n] >= commitIndex[n]
        /\ Len(log'[n]) >= commitIndex[n]
        /\ SubSeq(log'[n], 1, commitIndex[n]) = Committed(n)]_vars

---------------------------------------------------------------------------
(* Leaders' books about their peers. *)

\* What a leader counts as replicated is: while the peer is in the leader's
\* term, it holds the leader's log up to matchIndex.
MatchIndexIsTrue ==
    \A n \in Node : \A p \in Peers(n) :
        status[n] = "LEADER" /\ currentTerm[p] = currentTerm[n]
            => /\ Len(log[p]) >= matchIndex[n][p]
               /\ SubSeq(log[p], 1, matchIndex[n][p])
                    = SubSeq(log[n], 1, matchIndex[n][p])

\* replicateTo() reads the entry before nextIndex, and an exception there
\* would end the heartbeat: a leader's nextIndex is within its log.
NextIndexInLog ==
    \A n \in Node : \A p \in Peers(n) :
        status[n] = "LEADER" => nextIndex[n][p] \in 1 .. Len(log[n]) + 1

\* A call in flight is one the caller keeps in inFlight: a leader never has
\* two AppendEntries calls to a peer outstanding.
OneAppendInFlight ==
    \A c, d \in appendCalls :
        c.awaited /\ d.awaited /\ c.from = d.from /\ c.to = d.to => c = d

---------------------------------------------------------------------------
(* Clients and readers. *)

\* Only a leader has clients waiting, each for the entry its submission
\* became, of the leader's own term and not yet applied.
PendingAtLeader ==
    \A n \in Node : \A f \in pendingClients[n] :
        /\ status[n] = "LEADER"
        /\ f.index \in lastApplied[n] + 1 .. Len(log[n])
        /\ log[n][f.index] = [term |-> currentTerm[n], request |-> f.request]
        /\ answers[f.request] = Pending

\* Nobody waits in vain: an unanswered client's future is registered.
NobodyForgotten ==
    \A r \in Request : answers[r] = Pending
        => \E n \in Node : \E f \in pendingClients[n] : f.request = r

\* A client told COMMITTED (or FAILED, for an unknown key) keeps its entry:
\* it is on a majority, at the index it was told.
AnsweredIsDurable ==
    \A r \in Request : answers[r].status \in {"COMMITTED", "FAILED"} =>
        LET holders == {n \in Node : /\ answers[r].index <= Len(log[n])
                                     /\ log[n][answers[r].index].request = r}
        IN  Cardinality(holders) >= Majority

\* A reader of currentState() sees the node as its last task left it.
SnapshotIsCurrent ==
    \A n \in Node :
        snapshot[n] =
            [currentTerm |-> currentTerm[n], status |-> status[n],
             currentLeaderId |-> currentLeaderId[n],
             commitIndex |-> commitIndex[n], lastApplied |-> lastApplied[n],
             lastIndex |-> Len(log[n])]

\* The leader ticks and has no election timer; everyone else can time out.
\* (A node that was elected before its start() ran is the subject of the
\* finding on PendingAtLeader.)
TimersFitStatus ==
    \A n \in Node \ SlowStart :
        /\ heartbeat[n] <=> status[n] = "LEADER"
        /\ ~leakedHeartbeat[n]
        /\ electionTimer[n] <=> status[n] # "LEADER"

\* The javadoc of submitCommand() and the acceptance test read NOT_LEADER
\* as "nothing happened".
NotLeaderMeansNotApplied ==
    \A r \in Request : answers[r] = NotLeader =>
        \A n \in Node : \A i \in 1 .. lastApplied[n] : log[n][i].request # r

\* While a leader lasts, the periodic tick's "retry indefinitely" answers
\* every client, whatever calls fail meanwhile and however far the leader has
\* to step back before a follower takes its entries.
ClientsAreAnswered ==
    \A r \in Request : answers[r] = Pending ~> answers[r] # Pending

\* ... and, once clients stop, it brings every node's log to be the leader's,
\* over missing entries and over those of another leader, and every map up to
\* date: to all of the log, if an entry of the leader's own term is its last.
\* (What older terms left there is committed by such an entry only.)
FollowersCatchUp ==
    <>[](\A m, n \in Node :
            /\ log[m] = log[n] /\ lastApplied[m] = lastApplied[n]
            /\ LastTerm(log[n]) = currentTerm[n] => lastApplied[n] = Len(log[n]))

---------------------------------------------------------------------------
(* Refinement. *)

Longest == CHOOSE n \in Node : \A m \in Node : commitIndex[m] <= commitIndex[n]

Abstract == INSTANCE ReplicatedLog WITH
    chosen  <- [i \in 1 .. commitIndex[Longest] |-> log[Longest][i].request],
    applied <- lastApplied

\* The cluster is one replicated log to its clients.
ImplementsReplicatedLog == Abstract!Spec
===========================================================================
