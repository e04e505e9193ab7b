--------------------------- MODULE ReplicatedLog ---------------------------
(***************************************************************************)
(* What a cluster of 02-raft nodes promises its clients, with no leaders,  *)
(* terms or messages: one log of submissions grows at its end, every node  *)
(* applies a prefix of it, and a client is told COMMITTED or FAILED only   *)
(* with the place its command has in that log and the result that          *)
(* replaying the log up to that place gives.  One task of a node's event   *)
(* loop may choose several entries, apply several and answer several       *)
(* clients, so a step does all three.                                      *)
(***************************************************************************)
EXTENDS StateMachine, Sequences, FiniteSets

CONSTANTS
    Node,       \* the nodes of the cluster
    Request,    \* submissions: one POST /command each
    CommandOf   \* the command each submission carries

VARIABLES
    chosen,     \* the committed submissions, in order
    applied,    \* how many of them each node has applied
    answers     \* what each submission's client has been told

vars == <<chosen, applied, answers>>

\* The state after applying the first i entries of a log of submissions.
\* (A function, so that it is defined for the logs of the model only.)
StateAfter(reqs) ==
    LET after[i \in 0 .. Len(reqs)] ==
            IF i = 0 THEN NoValues
            ELSE Apply(after[i - 1], CommandOf[reqs[i]]).values
    IN  after

Unsent    == [status |-> "UNSENT", index |-> 0, value |-> 0]
Pending   == [status |-> "PENDING", index |-> 0, value |-> 0]
NotLeader == [status |-> "NOT_LEADER", index |-> 0, value |-> 0]

Final == {"COMMITTED", "FAILED", "NOT_LEADER"}

\* The answer a client gets for an applied entry.
Outcome(i, result) ==
    [status |-> IF result.ok THEN "COMMITTED" ELSE "FAILED",
     index  |-> i,
     value  |-> result.value]

Init ==
    /\ chosen = <<>>
    /\ applied = [n \in Node |-> 0]
    /\ answers = [r \in Request |-> Unsent]

\* The log only grows, by submissions that were made, each at most once.
Choose ==
    /\ Len(chosen') >= Len(chosen)
    /\ SubSeq(chosen', 1, Len(chosen)) = chosen
    /\ \A i \in 1 .. Len(chosen') : answers'[chosen'[i]].status # "UNSENT"
    /\ \A i, j \in 1 .. Len(chosen') : chosen'[i] = chosen'[j] => i = j

ApplyAt(n) ==
    /\ \A m \in Node \ {n} : applied'[m] = applied[m]
    /\ applied'[n] \in applied[n] .. Len(chosen')

\* A submission is answered once.  COMMITTED and FAILED come with an entry
\* the answering node has just applied and with the result of replaying the
\* log up to it; NOT_LEADER promises nothing.
Answer(n) ==
    \A r \in Request :
        \/ answers'[r] = answers[r]
        \/ answers[r] = Unsent /\ answers'[r] = Pending
        \/ /\ answers[r].status \notin Final
           /\ \/ answers'[r] = NotLeader
              \/ \E i \in applied[n] + 1 .. applied'[n] :
                    /\ chosen'[i] = r
                    /\ answers'[r] = Outcome(i, Apply(StateAfter(chosen')[i - 1],
                                                      CommandOf[r]))

Step(n) == Choose /\ ApplyAt(n) /\ Answer(n)

Next == \E n \in Node : Step(n)

Spec == Init /\ [][Next]_vars
===========================================================================
