------------------------------ MODULE MCRaft ------------------------------
(***************************************************************************)
(* Instances of Raft.tla for TLC.                                          *)
(***************************************************************************)
EXTENDS RaftProperties, TLC

CONSTANTS n1, n2, n3, r1, r2, r3, r4, k1

CONSTANTS
    MaxCalls,   \* states with more calls on their way are not extended
    MaxFailures \* how many calls fail, where that is bounded

VARIABLE failures   \* how many have, where that is; or whether they ceased to

FewCalls ==
    Cardinality(voteCalls) + Cardinality(voteReplies)
        + Cardinality(appendCalls) + Cardinality(appendReplies) <= MaxCalls

\* The commands do not commute: all but r2 fail before it, and after it r1 and
\* r3 overflow, so the order of application shows in the map and in the
\* answers.
MCCommandOf ==
    [r \in Request |->
        CASE r = r1 -> [key |-> k1, action |-> "ADD", value |-> 3]
          [] r = r2 -> [key |-> k1, action |-> "SET", value |-> 1]
          [] r = r3 -> [key |-> k1, action |-> "SUBTRACT", value |-> -4]
          [] r = r4 -> [key |-> k1, action |-> "ADD", value |-> 1]]

\* Nodes that start alike may be exchanged.
NodeSymmetry == Permutations(Node \ SlowStart)

\* The cluster after its first election: some node l was elected in term 1,
\* both peers have answered its first AppendEntries, nothing is on its way.
Elected(l) ==
    /\ currentTerm = [n \in Node |-> 1]
    /\ votedFor = [n \in Node |-> l]
    /\ status = [n \in Node |-> IF n = l THEN "LEADER" ELSE "FOLLOWER"]
    /\ currentLeaderId = [n \in Node |-> l]
    /\ votesReceived = [n \in Node |-> IF n = l THEN Majority ELSE 0]
    /\ started = [n \in Node |-> TRUE]
    /\ electionTimer = [n \in Node |-> n # l]
    /\ heartbeat = [n \in Node |-> n = l]
    /\ leakedHeartbeat = [n \in Node |-> FALSE]
    /\ log = [n \in Node |-> <<>>]
    /\ commitIndex = [n \in Node |-> 0]
    /\ lastApplied = [n \in Node |-> 0]
    /\ values = [n \in Node |-> NoValues]
    /\ nextIndex = [n \in Node |-> [p \in Node |-> 1]]
    /\ matchIndex = [n \in Node |-> [p \in Node |-> 0]]
    /\ inFlight = [n \in Node |-> {}]
    /\ pendingClients = [n \in Node |-> {}]
    /\ answers = [r \in Request |-> Unsent]
    /\ snapshot = [n \in Node |->
           [currentTerm |-> 1, status |-> status[n], currentLeaderId |-> l,
            commitIndex |-> 0, lastApplied |-> 0, lastIndex |-> 0]]
    /\ voteCalls = {} /\ voteReplies = {}
    /\ appendCalls = {} /\ appendReplies = {}
    /\ rounds = 1

SomeElected == \E l \in Node : Elected(l)

\* The cluster after three elections, between nodes whose logs differ.  n1
\* led term 1 with n2's vote: n2 took r1, nobody r2.  n2 led term 2 with n3's
\* vote, and took r3, which it could send to nobody.  n1 was refused by n2 but
\* elected by n3, and has just sent its first AppendEntries of term 3, for
\* the index after its log.  All other calls have failed; the clients were
\* told NOT_LEADER as n1 and then n2 stepped down.
LogAfterThree(n) ==
    CASE n = n1 -> <<[term |-> 1, request |-> r1], [term |-> 1, request |-> r2]>>
      [] n = n2 -> <<[term |-> 1, request |-> r1], [term |-> 2, request |-> r3]>>
      [] n = n3 -> <<>>

Reelected ==
    /\ currentTerm = [n \in Node |-> 3]
    /\ votedFor = [n \in Node |-> IF n = n2 THEN Nil ELSE n1]
    /\ status = [n \in Node |-> IF n = n1 THEN "LEADER" ELSE "FOLLOWER"]
    /\ currentLeaderId = [n \in Node |-> IF n = n3 THEN Nil ELSE n]
    /\ votesReceived = [n \in Node |-> IF n = n3 THEN 0 ELSE Majority]
    /\ started = [n \in Node |-> TRUE]
    /\ electionTimer = [n \in Node |-> n # n1]
    /\ heartbeat = [n \in Node |-> n = n1]
    /\ leakedHeartbeat = [n \in Node |-> FALSE]
    /\ log = [n \in Node |-> LogAfterThree(n)]
    /\ commitIndex = [n \in Node |-> 0]
    /\ lastApplied = [n \in Node |-> 0]
    /\ values = [n \in Node |-> NoValues]
    /\ nextIndex = [n \in Node |-> [p \in Node |->
                       CASE n = n1 -> 3 [] n = n2 -> 2 [] n = n3 -> 1]]
    /\ matchIndex = [n \in Node |-> [p \in Node |-> 0]]
    /\ inFlight = [n \in Node |-> IF n = n1 THEN Peers(n1) ELSE {}]
    /\ pendingClients = [n \in Node |-> {}]
    /\ answers = [r \in Request |-> IF r \in {r1, r2, r3} THEN NotLeader ELSE Unsent]
    /\ snapshot = [n \in Node |->
           [currentTerm |-> 3, status |-> status[n],
            currentLeaderId |-> currentLeaderId[n],
            commitIndex |-> 0, lastApplied |-> 0, lastIndex |-> Len(log[n])]]
    /\ voteCalls = {} /\ voteReplies = {}
    /\ appendCalls = {[from |-> n1, to |-> p, term |-> 3,
                       prevLogIndex |-> 2, prevLogTerm |-> 1, entries |-> <<>>,
                       leaderCommit |-> 0, awaited |-> TRUE, again |-> FALSE] :
                         p \in Peers(n1)}
    /\ appendReplies = {}
    /\ rounds = 3

\* Calls fail as often as they like, or MaxFailures times.
FreeNext == Next /\ UNCHANGED failures

BoundedNext ==
    \/ Tasks /\ UNCHANGED failures
    \/ CallFails /\ failures < MaxFailures /\ failures' = failures + 1

allVars == <<vars, failures>>

StartInit   == failures = 0 /\ Init
ElectedInit == failures = 0 /\ SomeElected

FromStart   == StartInit /\ [][BoundedNext]_allVars
FromLeader  == ElectedInit /\ [][FreeNext]_allVars
FewFailures == ElectedInit /\ [][BoundedNext]_allVars

\* Calls fail as often as they like until, some day, they cease to.  (That no
\* step is a CallFails from some point on would not do: the answer to an empty
\* AppendEntries changes nothing but inFlight, and neither does its loss.)
Cease == failures = 0 /\ failures' = 1 /\ UNCHANGED vars

CeasingNext ==
    \/ Tasks /\ UNCHANGED failures
    \/ CallFails /\ failures = 0 /\ UNCHANGED failures
    \/ Cease

\* One leader for good, with the scheduling the event loop guarantees.
CeasingInit == failures = 0 /\ Reelected

FairLeader ==
    CeasingInit /\ [][CeasingNext]_allVars /\ Fairness /\ WF_allVars(Cease)
===========================================================================
