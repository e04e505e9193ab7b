# A verification project for the B+tree store and the Raft node

The repository holds two programs: `src/02-raft`, a Raft node in Java with an
HTTP API for clients and gRPC between nodes, and `src/01-btree`, a
copy-on-write B+tree in Rust over a memory-mapped file. This directory holds
TLA+ models of both, the TLC configurations that check them on small
instances, and proofs that hold for every size.

`PROJECT.json` lists the components, runs, hazards, findings and theorems, and
maps every definition to the source lines it models.

## 1. Inventory

### 02-raft

| component | state | operations |
| --- | --- | --- |
| `RaftNode`: elections | `currentTerm`, `votedFor`, `status`, `currentLeaderId`, `votesReceived`, the election timeout, `heartbeatFuture` | `start`, `startElectionRound`, `onVoteResponse`, `becomeLeader`, `becomeFollower`, `handleRequestVote` |
| `RaftNode`: replication | `LogStore`, `commitIndex`, `lastApplied`, `nextIndex`, `matchIndex`, `inFlight` | `replicateTo`, `handleAppendEntries`, `onAppendEntriesResponse`, `advanceCommitIndex`, `applyCommitted` |
| `RaftNode`: submissions | `pendingClients`: a future per log index | `submitCommand`, completion in `applyCommitted`, `failPendingClients` |
| published snapshot | a volatile `ServerState` | `publishSnapshot`, `currentState` |
| `StateMachine` | a map from keys to ints | `apply` of SET, ADD, SUBTRACT |
| `ReplicationClient`, `ReplicationServer`, `ProtoMapper` | one channel per peer | unary calls with a deadline of 250 ms; handlers that wait up to 500 ms for the event loop |
| `HttpApi` | none | `POST /command` (waits up to 5 s), `GET /log`, `/state`, `/state-machine`, `/health` |
| `NodeConfig`, `Main` | configuration | parse the environment; start the servers, then the node |

A node changes its state on one single-threaded event loop only. Handlers of
incoming calls, answers to outgoing calls, timers and submissions are tasks on
that loop, each atomic. What interleaves is the tasks of different nodes, the
order in which calls and answers arrive, calls that time out while their
request or answer is still on its way, elections, and clients. Nothing is
persisted. HTTP readers look at the snapshot from other threads, and at the
live log and map without a lock.

Correct means: one leader per term, one vote per node and term; logs that
match; nothing committed is lost or changed; nodes apply the same commands in
the same order; a leader's books about its peers are true; a client gets the
one right answer, and gets it eventually while a leader lasts.

### 01-btree

| component | state | operations |
| --- | --- | --- |
| `Store`, `ReadGuard` | the atomic root, the reader count | `open_or_create`, `enter_read`, `ReadGuard::root`, drop |
| `WriteTxn` | `WriterState` behind a mutex: `next_page_id`, `free_list`, `pending_free`, `free_list_page_ids`; buffered writes and frees | `begin_write`, `alloc`, `write`, `free`, `commit`, `persist_free_list` |
| `tree` | none | `get`, `put`, insertion into leaf and internal nodes, splits |
| `page::{leaf, internal, header, free_list}` | bytes of one page | encode, decode, search, insert, split by size |
| `io::{MmapPageIo, MemoryPageIo}` | the file and its mapping | `read_page`, `write_page`, growth, `sync` |
| `StorageEngine`, `main`, `debug` | none | `put`, `get`, printing |

Writers are serialized by the mutex. Readers take no lock: they register in a
count, load the root and walk. A commit makes its page writes, the rewritten
chain of the free list, the header and the root visible one after another, so
readers and a crash see every state in between.

Correct means: a reader's snapshot stays as it is until the guard is dropped;
the published tree is always readable, also after a crash; no page has two
uses and none is lost; every node fits into its page after every split and is
in order; and to its callers the whole is a map: a `get` is answered from one
moment of the call, a `put` takes effect at once or not at all, and what a
returned `put` did is still there when the file is opened again.

## 2. Modules

| module | what it is |
| --- | --- |
| `StateMachine` | the replicated map: `Apply`, wrap-around included |
| `Raft` | one cluster of `RaftNode`s and the calls between them; one action per task of the event loop |
| `RaftProperties` | what must be true of `Raft`: invariants, action and liveness properties, the refinement |
| `ReplicatedLog` | the abstract specification: what a cluster promises its clients |
| `MCRaft` | instances of `Raft` for TLC: initial states, bounds, symmetry |
| `Extremes` | lemmas: a non-empty set of naturals has a least element, a bounded one a greatest; so has a function from a finite set to the naturals |
| `RaftProofs` | theorems about `Raft` and their proofs: types, calls, votes, one leader per term |
| `RaftLogProofs` | logs, commits and leaders' books, on top of that |
| `RaftClientProofs` | what is applied, snapshots, timers, futures, answers, and the refinement of `ReplicatedLog` |
| `CowStore` | `Store`, `WriteTxn`, `ReadGuard`, `MmapPageIo` and `open_or_create`, with the ends of processes, and their properties |
| `MCCowStore` | its instances for TLC |
| `CowStoreProofs` | theorems about the store, and their proofs |
| `Pages` | leaf and internal nodes as values: sizes, insertion, splitting, searching; no variables |
| `PageLife` | the life of one node over all puts, and what must be true of every node |
| `MCPageLife` | its instance for TLC |
| `NodeProofs` | what each operator of `Pages` makes of a sound node, for every page size |
| `PagesProofs` | theorems about `PageLife`, from those lemmas, and about the binary searches |
| `BTree` | `tree::put` and `tree::get` on keys: composes `CowStore` and `Pages` |
| `MapStore` | the abstract specification: what the store promises its callers |
| `BTreeProofs` | theorems about whole trees, the refinement of `MapStore` among them, from `CowStoreProofs` and `NodeProofs` |
| `MCBTree` | an instance of `BTree` for TLC |

Operators named `D_Something` stand in front of an operator `D` and are `D`
with a plausible bug (`Merge_KeepsConflicts`, `Quiescent_Always`). No
specification uses them. Put in `D`'s place they make one property fail, which
is how we know that the property depends on the code it is about.

### Raft

Fields are functions from nodes. `electionTimer[n]` says that an election
timeout is scheduled, `heartbeat[n]` that `heartbeatFuture` is set;
`leakedHeartbeat[n]` that a heartbeat runs that no field refers to, as happens
if `becomeLeader()` overwrites `heartbeatFuture` without cancelling it.
`pendingClients[n]` is the map of futures, `answers` what each has been
completed with. `started[n]` says whether `start()`'s task has run:
`Main.java` starts the servers first, and the nodes in `SlowStart` may serve
calls before it.

A call is in `voteCalls` or `appendCalls` while its request is on its way, in
`voteReplies` or `appendReplies` while its answer is. Messages are sets, so they
arrive in any order. gRPC does not duplicate calls, but the code itself sends
the same request again, and two equal calls in flight at once are told apart
by `again`. When a call fails at its deadline (`CallFails`) the request is
lost, or it was delivered and only the answer is dropped, or it becomes a late
request: `awaited` is cleared, the caller no longer waits, and the handler may
still run afterwards. A late vote request is the same as one whose answer is
dropped, since the failure of a vote call changes nothing at the candidate.

| code | actions |
| --- | --- |
| `start` | `Start` |
| `onElectionTimeout`, `startElectionRound` | `StartElectionRound` |
| `replicateToAllPeers` as a periodic task | `HeartbeatTick` |
| `submitCommand` | `RefuseCommand`, `SubmitCommand` |
| `handleRequestVote` | `RefuseOldCandidate`, `Vote` |
| `onVoteResponse` | `StepDownOnVote`, `IgnoreVote`, `CountVote` |
| `handleAppendEntries` | `RefuseOldLeader`, `RefuseAppend`, `AcceptAppend` |
| `onAppendEntriesResponse` | `StepDownOnAppend`, `IgnoreAppendReply`, `AppendSucceeded`, `AppendRefused` |
| a call's `StatusRuntimeException` | `CallFails` (`VoteCallFails`, `AbandonAppend`, `LoseAppendReply`, `LoseLateAppend`) |

Each action is the whole task: the loop that truncates and appends, the commit
that follows, the application of the entries, the answers to clients, the
requests that go out and the published snapshot.

Randomised timeouts are a free choice: an armed timer may fire at any time. A
log entry holds the submission, which stands for its command; submissions are
distinct, as futures are. Ints have `Modulus` values instead of 2^32.

### ReplicatedLog

One log of submissions grows at its end, each node applies a prefix of it, and
a client is told COMMITTED or FAILED with the index and the value that
replaying the log to that index gives, or NOT_LEADER at any time.
`RaftProperties!Abstract` maps a cluster to it: the log is the prefix that the
node with the highest `commitIndex` has committed.

### CowStore

A tree is a function from its page ids to the put that wrote the page and the
level it is on. Keys are left out: a put orphans one path from a leaf to the
root and adds that path's copies, one more page for each node that splits
(from the leaf up), and a new root if the old one splits. `Paths` takes any one page
of each level, which includes every real path. Page contents are compared by
the put that wrote them, so a page that is reused under a reader shows.

The commit is one action for each thing others can see: `BeginPut` (all before
`commit()`, under the mutex and invisible), `WritePage` for each page,
`FoldAndGate` (the frees, the load of the reader count, the layout of the
chain), `WriteChainPage` for each page of the chain, `WriteHeader`, `Publish`.
Readers are `EnterRead`, `LoadRoot`, `DropRead`. A reader's walk changes
nothing, so it is no action: the properties say that every page of its tree is
still there while it reads, which is what any walk needs.

The file is as long as its last page (`committed`) and can be reached as far as
it is mapped (`mapped`): `MmapPageIo::open` reserves `MaxPages` pages, 1 GiB in
the code. A page beyond them makes `commit()` panic in the middle
(`HitCeiling`); the mutex is then poisoned, readers go on, and no put begins
until the process is started again. A debug build panics before the file
grows, a release build after it, which is why the length is a choice there.

`write_at` copies a page byte by byte, while `read_at` may copy it out and while
the process may die. There is no step within a copy. Instead `Copying` names the
page that comes next, which may be half copied already at any moment before its
step: what must be readable must not be in `Copying` (`Readable`), whoever reads
such a page gets anything (`BTree!Misread`), and a process that dies there leaves
`Scrap` on it (`DieInPage`), which is no link of the chain and no node of any tree.
The header is copied the same way, but only `open_or_create` reads it: a process
that dies within it leaves each of its numbers old or new (`HalfHeaders`,
`DieInHeader`); the root's number goes with its tree.

A process ends between puts (`Reopen`) or in the middle of one (`Crash`): what
it had written to the shared mapping stays, what it had not is not there.
Opening follows the header and the chain on disk, and makes a store if there is
no header (`BootRoot`, `BootHeader`, which may themselves be interrupted).
Reading back a chain that was torn may fail (`pc = "dead"`): the chain comes back
to itself and `load_free_list_chain` follows it for ever; it comes to a page
beyond the mapping; or it comes to one that is no link of it, where
`free_list_decode` panics in a debug build (`free_list.rs:33`). A release build has
no such check. It reads a page that was never written, zeros, as an empty last
link, which is in the model. What it decodes from a node, or from scrap, is
not: it ends with lists that nobody wrote.

`tree`, `snap`, `exposed`, `torn` and the counters are history: they remember
what the properties compare with and guard nothing but the bounds. `torn` says
that a process ended after it had begun to overwrite the chain that the header
points to and before it had written the header whole.

### Pages and PageLife

A node is a record of its entries, or keys and children, and of the offsets
(`entry_start`, `key_start`) that the code keeps while it builds the node.
Offsets are kept and not recomputed, because `LeafUpdate`, `Slice` and the split
points depend on them being right; `OffsetsTrue` says that they are. Keys are
numbers with the order of the byte strings, and each key and value has a
length. The u16 arithmetic of splits is `U16`. Searches are defined twice: by
what they find (`LeafSearch`, `ChildIndex`), which the rest uses, and as the
loops of the code (`LeafSearchLoop`, `ChildIndexLoop`), recursive functions of the
range that is left, which `SearchesAgree` compares with them.

`PageLife` follows one node: a leaf takes an entry, an internal node takes a
separator from a child that split, and a node that splits lives on as either
half or as the new root above them. It allows more than a tree does (any
separator may arrive at any time) and so covers every node of every tree.

### BTree and MapStore

`BTree` puts nodes of `Pages` on the pages of `CowStore`. It has every variable
of `CowStore` and every step of it is a step there, with the path and the number
of splits that the keys call for; what is added is which node each page holds.
`nodes` is what is on the pages, `fresh` what `WriteTxn` buffers, `putting` the
entry of the put under way. `PutEntry` is all of `put()` before the commit, under
the mutex: `PathUp` is the path that it descends, `Inserted` builds the nodes that
replace it, from the leaf up, in the order in which the code allocates pages,
so that parents refer to the pages their children got. Then each step of
`CowStore`'s commit is taken with what it means for the nodes (`WriteNode`,
`PassGate`, `WriteLink`, `SetHeader`, `EndPut`; `FailPut` is the ceiling). A `get` is
one action per page read (`BeginGet`, `GetRoot`, `Descend`, `Answer`, `EndGet`, and
`Misread` for a page that is being copied over: any answer, or a panic, which is no
answer). The
recursions over pages (`Ways`, `Layers`, `Inserted`) are functions of the level,
which cannot run in a circle on stale nodes.

`MapStore` is the promise: one function from keys to values, a put that takes
effect in one step or fails, a get whose answer is that of the map at one
moment between its begin and its end, and a restart that keeps the map, with or
without the put that was under way. `BTree!Map` maps the tree to it: the map is
the contents of the published tree, and a get has its answer from the moment it
has loaded its root, although it reads the leaf much later. A get that loaded
its root between the gate and the publication of a commit is given up by the
mapping: `cow_gate_race` shows what may happen to it.

`BTree` leaves out the ends of processes that tear the chain or the header, which
are `CowStore`'s subject and `cow_chain_crash`'s finding. A death in the middle of
any other page is in it: the page then holds no node.

## 3. Runs

`MaxRounds`, `MaxLog`, `MaxLate`, `MaxCalls` and `MaxFailures` bound `MCRaft`:
election rounds started in the whole cluster, log length, late requests at a
time, calls on their way at a time (a state with more is not extended), and
calls that fail. The Raft runs have three nodes: the smallest cluster in which a
majority is not everyone and two majorities can differ. Deadlock is not checked,
because with bounded elections, submissions and puts the instances stop, and a
store that can no longer be opened stays so.

| run | instance | properties |
| --- | --- | --- |
| `raft_elections` | fresh nodes, one slow to start; 3 rounds, 4 calls, 1 failure | `ElectionSafety`, `VoteOnce`, `TimersFitStatus` |
| `raft_replication` | a leader; 2 more rounds, 3 submissions, log of 2, 2 calls, 2 failures, 1 late request | `LogMatching`, `NextIndexInLog`, `MatchIndexIsTrue`, `CommittedIsStable`, `TypeOK`, `PendingAtLeader`, `NobodyForgotten`, `SnapshotIsCurrent`, `ImplementsReplicatedLog` |
| `raft_commit` | a leader; 3 more rounds, 2 submissions, log of 1, 2 calls, any failures | `LeaderCompleteness`, `StateMachineSafety`, `AnsweredIsDurable` |
| `raft_progress` | the third leader of a cluster whose logs differ, for good; 1 new submission besides 3 old ones, log of 3, any failures until they cease, 1 late request | `ClientsAreAnswered`, `FollowersCatchUp` |
| `cow_commits` | 2 readers, 4 puts, trees of up to 2 levels, 1 id per chain page, 12 pages, 1 reopening, 1 crash, also within a page or the header | `TypeOK`, `ProtectedIsolation`, `RootIsReadable`, `OpensAgain`, `OneOwner`, `NoPageLostWhileOpen`, `RestartKeepsCommitted` |
| `pages_split` | pages of 49, 64 and 43696 bytes; 9 keys and 4 values with lengths from 0 past each limit | `TypeOK`, `OffsetsTrue`, `PagesFit`, `NoEmptyNode`, `KeysInOrder`, `SearchesAgree` |
| `btree_gets` | 1 reader, pages of 64 bytes, 7 puts that build three leaves under a full root, 2 more of 3 keys and 3 values each; 13 pages, 1 reopening, 1 crash, also within a page | `TreeTypeOK`, `TreeIsReal`, `SeparatorsCover`, `UsesStore`, `ImplementsMap`, `GetsEnd` |

and one run for each finding of section 5.

The bounds were chosen by what has to happen. Three rounds let two nodes
compete in one term while the third is a term behind. Four rounds are what the
classic case of an entry of an old term on a majority, replaced later, takes
(a leader that commits such entries is caught in `raft_commit`, and so is a
vote for a longer log of older terms). A log of two and three submissions let
logs diverge at one index and agree on terms at the next. One late request
and one answer on its way are what it takes for an older request to overtake a
newer one. In the store, one id per chain page makes the chain grow and shrink
with nearly every put, trees of two levels have paths that share pages with
older versions, and four puts are enough to free a page, promote it, reuse it
while a reader is there, and commit again after reopening. Twelve pages are few
enough for a put or its chain to hit the ceiling, and enough for the other
cases to happen first. A store whose chain was torn is not followed into its
last put (`FewTornPuts`), since every property but `TypeOK` excepts it. The two
findings of the store are found with copies that are not cut
(`CutCopies = FALSE`): they do not depend on half-written pages.

In `pages_split` the lengths are those at which something changes: empty, the
limit of `check_limits` for each of the three page sizes (5, 12 and 21828), one
entry that uses it up alone, and pairs that just do or do not fit. The whole
reachable set of nodes is explored. In `btree_gets` pages of 64 bytes hold three
entries or two separators, so that one of the last two puts splits a leaf, the
root and gives the tree a third level. The warm-up (`WarmUp`) is a fixed
order of keys in which a leaf in the middle splits too; readers and the ends of
processes come after it, and the last puts are of the keys in `Busy`: the
least and the greatest, which are new, and one in the middle, whose value is
replaced by a longer, an empty or the same one.

Runs other than `raft_elections` start from `Elected`, the state just after a
first election, to spend their bounds on what comes after it. `raft_progress`
starts from `Reelected`, three elections later, and that is where its bounds are
spent. The node that leads term 3 has two entries of term 1, one peer agrees with
the first and has an entry of term 2 in the place of the second, the other has
no log. Its first requests are for the index after its own log. So both peers
refuse, one once and one twice, before one truncates and both catch up. The
old entries cannot be committed by counting: it takes the new submission, which
may come at any time or never. The state is one that `Init` leads to: three
elections and the submissions described at `LogAfterThree`.

### Fairness

`raft_progress`: the event loop serves its queue in order, so
a request or an answer that has arrived is handled: weak fairness of
`HandleAppendEntries` and `OnAppendEntriesResponse` for each pair of nodes.
`becomeLeader()` schedules the heartbeat at a fixed rate: weak fairness of
`HeartbeatTick`. Calls may fail as often as they like, and some day they cease to:
that is a step of its own in `MCRaft` (`Cease`, weakly fair), after which no call
fails. `<>[][~CallFails]_vars` would not say the same. An answer to an empty request
that is handled and one that is lost have the same effect, so that a leader with
nothing to send, answered for ever, takes steps that are also failures; no fair
behaviour would be left and every liveness property would hold of it. (That
the specification has fair behaviours shows in what TLC refutes under it: that
the new submission is committed in the end, and that it is never made.) Nothing is assumed of elections, which randomised timeouts make likely and
not certain; so the run has one leader and no further rounds, and shows progress
while that leader lasts.

`btree_gets`: weak fairness of the steps of each reader inside `get`, since a
thread that is in the middle of a call is scheduled again. Nothing is assumed
of the writer: `GetsEnd` says that a get ends even if a put stops half-way for
good, which is what `store.rs:155-156` claims. The other runs assume no fairness.

## 4. Proofs

### Raft

Three modules, each on top of the one before, prove every safety property and
the refinement that the Raft runs check, for every set of nodes, submissions,
every `SlowStart` and all bounds. `RaftProofs`:

- `TypeCorrect`: `Spec => []TypeOK`;
- `BooksCorrect`: `Spec => []NextIndexInLog`, a leader's `nextIndex` stays
  within its log or just behind it, so `replicateTo()` never reads an entry
  that is not there (an exception in the periodic task would end the heartbeat
  without a word);
- `VotesOnce`: `Spec => VoteOnce`, a node's term never falls and within a term
  it does not change its vote, whatever it is sent and whenever it times out;
- `LeadersUnique`: `Spec => []ElectionSafety`, two nodes never lead in one term.

They rest on the named assumptions of `Raft` and `StateMachine` on their
constants: a finite non-empty set of nodes that does not contain `Nil`,
commands for all submissions, an even number of ints, natural bounds.

`TypeOK` is not inductive. A leader's request carries the term of the entry
before `nextIndex`, which has a type only if the log has that entry; so types
need `NextIndexInLog`. That in turn depends on answers: a successful one moves
`nextIndex` behind what its request covered. The inductive invariant is
`IInv == TypeOK /\ CallsFit /\ BooksFit`. `BooksFit` bounds `nextIndex` and
`matchIndex` of leaders by their logs. `CallsFit` says of every request and
answer on its way, late ones included, that its term is not above its sender's,
and that while the sender leads in that very term, what the call covers is
within the sender's log. It is kept because a leader's log never shrinks while
it leads (`MovesOn`), and because a node that leads a new term has no call of
that term yet (a candidate has none: the third part of `Fits`).

There is one lemma per action. Each proves `GoodStep`: the step keeps `IInv`
and every node `MovesOn`. `VotesOnce` follows from the same lemmas, since
`MovesOn` has the vote in it. `Extremes` supplies the existence of least and
greatest elements that `Merge` and `AdvanceCommit` choose; it is proved from
the finiteness of bounded sets of naturals.

`LeadersUnique` needs more than one vote per node and term, because
`onVoteResponse()` only counts: it does not look at who answered. Its invariant
is `EInv`. `CallsApart` says that of each round and peer there is at most one
call, either on its way or answered and not yet counted, so nothing is counted
twice. The rest says that there is a record of all votes, also those of terms
that nodes have left (`Recorded`: what `votedFor` says is the record of the
current term, and later terms are blank), in which every granted answer on its
way is a vote (`VotesGiven`) and every candidate's `votesReceived` is the size of
a set of voters who are not still to be counted (`CountedBy`); a leader's set is
a majority. The record is a quantified function on all terms rather than a
variable of the model, so that `Raft` keeps only the state of the code; TLC
cannot enumerate it, and checks `ElectionSafety` itself. The record grows and
never changes (`Continues`), by `MovesOn`. Two leaders of a
term have sets that share a node, and the record holds one vote of it.

`RaftLogProofs`:

- `LogsAgree`: `Spec => []LogMatching`;
- `BooksAreTrue`: `Spec => []MatchIndexIsTrue`;
- `LeadersHoldCommits`: `Spec => []LeaderCompleteness`;
- `CommitsAreStable`: `Spec => CommittedIsStable`.

None of these is near inductive: what makes a commit safe happened in earlier
terms, of which the state of the code keeps nothing. As with votes, the
invariant (`LInv`, `HistoryKept`) says that there is a history: for every term
its leader and the longest log it had as leader, and for every node and term
the last log it held in that term. `Tracks` ties the history to the present
and `LeadersOver` says that leaders only append. `LogsKnown` says that each
log, and the entries of each request, agree with the log of the leader of each
of their terms up to that entry. An entry is `Chosen` when a majority held it,
in the term of the leader that created it. `Lost` is what must never happen, a
leader of a later term without it, and `Handed` says that nodes keep an entry
from one term to the next unless some leader lost it. `CandidatesKeep` and
`LeadersKeep` say that a candidate that a majority voted for has all that its
voters had when they voted, since `isLogUpToDate` compares with their logs;
`ChosenIsKept` is the argument that no entry is lost: the first leader without
it was elected by a majority, which shares a node with the one that held it.
`CommitsVouched` says that whatever a node has committed is part of a chosen
prefix, which for a follower rests on what its leader's request vouches for
(`RequestTrue`, late requests included), and for a leader on `BooksTrue` and
`AdvanceCommit`'s look at the entry's term. Each action's lemma shows only how
logs, roles, votes, books and calls move (`LogStep`); that the invariant
survives is proved once, from that.

`RaftClientProofs`, of what is applied:

- `MapsAreReplays`: a node's map is the replay of what it has applied;
- `NodesAgree`: `Spec => []StateMachineSafety`.

`ReplayFrom` is a recursive function, so its value needs induction;
`ReplaysAgree` and `ReplayExists` do that by hand, with a least counterexample.
`ReplaySame` and `ReplayOn` say that only the entries replayed matter, and that
a replay may stop and go on.

and of clients:

- `SnapshotsCurrent`: `Spec => []SnapshotIsCurrent`;
- `TimersFit`: `Spec => []TimersFitStatus`, from `TimersInv`, which adds that
  nobody is asked for its own vote: a leader could otherwise vote and arm its
  timer;
- `NobodyIsForgotten`: `Spec => []NobodyForgotten`, from `FuturesFit`: at most one
  future per submission and per index, for an unapplied entry that is the
  client's own;
- `ClientsWaitAtLeaders`: `Spec => []PendingAtLeader` when `SlowStart` is empty,
  the only theorem with a premise; `EntriesAreOwn` says the same of the nodes
  outside `SlowStart` without one, and `raft_late_start` shows that no more is
  true. (`Main.java` does start the servers first: the premise says that no call
  got in before `start()`.)
- `AnswersLast`: `Spec => []AnsweredIsDurable`, from `AnsweredHeld` (an answer's
  index is one that some node has committed) and the history: what was chosen
  is still held by the majority it was chosen by (`ReachedIsHeld`);
- `CommandsHavePlaces`: `Spec => []PlacedOnce`, a submission has one place in all
  logs and requests: a merge copies entries to the index they had
  (`MergeFrom`), and `submitCommand` appends each submission once;
- `ClusterIsOneLog`: `Spec => ImplementsReplicatedLog`. Every task is a step of
  one node of `ReplicatedLog` that does all three things: the chosen log grows
  (`StepChooses`, from the agreement of committed prefixes, `CommitsAreStable`
  and `PlacedOnce`), the node applies further, and its answers are those of the
  replay (`StepAnswers`; `StateAfterReplays` shows that the abstract and the
  concrete replay are the same). A node's failure of a call is a stutter.

### The copy-on-write store

`CowStoreProofs` proves all that `cow_commits` checks, for every set of readers,
any number of ids per page of the chain, any mapping of at least two pages, any
height and any number of puts, restarts and crashes (`CapacityAssumption`,
`MappingAssumption`, `BoundAssumption`):

- `TypesHoldInStore`: `Spec => []TypeOK`; the reader count is the number of guards
  alive, which `TypeOK` says, and the lists are lists of page ids whatever links a
  torn chain is read from;
- `RootStaysReadable`: `Spec => []RootIsReadable`: no page of the published tree is
  another one, or about to be and so perhaps half of one;
- `ReadersAreIsolated`: `Spec => []ProtectedIsolation`, the same of snapshots;
- `StoreOpensAgain`: `Spec => []OpensAgain`;
- `PagesHaveOneOwner`: `Spec => []OneOwner`;
- `RestartsKeepCommits`: `Spec => RestartKeepsCommitted`;
- `NoPageIsLost`: `Spec => []NoPageLostWhileOpen`.

Their exceptions are those of the properties, and each is a finding of a run:
`~torn` (no process ended while the chain that the header points to, or the
header, was being overwritten) is `cow_chain_crash`, and the readers that
`ProtectedIsolation` leaves out are those of `cow_gate_race`. A process that dies
within the header is what begins to be `torn`: `RestartsKeepCommits` says of it that
it leaves one of the two trees whole, and nothing is said of the puts after it.

No property is inductive by itself. That a commit does not overwrite a snapshot
depends on what is free, which depends on what earlier commits freed and whom
the gate saw, and after a restart on what the chain on disk says. The invariant
is `StoreInv == TypesHold /\ (~torn => Sound)` (`StoreInvHolds`). `TypesHold` gives
everything its type and survives also what links of a torn chain make the opening
read.
`Sound` says whose each page is, at each step of the protocol:

- `ListsApart`: the three lists share no page and hold none twice;
- `TreeWhole`: the published tree's pages are as written and on no list up to the
  gate; after a gate that found readers they are pending and not free;
- `PutApart`: the tree of the put is on no list; its pages are written or still
  to be written, none of them over the published tree;
- `ChainGoesOn`: the chain is written from its first page to its last, and has
  room for the lists;
- `HeaderTrue`: the header's tree is the published one, or the put's between the
  write of the header and the store of the root, and its chain is on disk with a
  payload that belongs neither to the chain nor to that tree, unless the chain
  is being overwritten;
- `ReadersApart`: what a reader that is not exposed has loaded is as it was
  written, and neither free nor part of the chain.

`SoundStep` and `TypesStep` have one lemma for each action. The hard ones are the gate
(`FoldAndGate`: which of the pages just freed may be reused, where
`persist_free_list` takes the pages for a longer chain, `FoldApart`), the
allocation of a put's pages (`AllocApart`), and the opening. For the last,
`ChainHolds` says that `load_free_list_chain`, which follows links on disk,
returns the lists that `persist_free_list` cut into pages. It is an induction
on the recursive function `Chain`, done by hand with a least counterexample,
and `WalkFrom` is where the walk has got to after each link. A death within a page
leaves the file as it was but for that page, which `CopyingApart` shows to belong
to nobody: `LeftSound` is what the next process then finds, for both ends of a
process.
`NoPageLostWhileOpen` needs the stronger `KeptInv`, which says which pages there
are and not only whose they are.

### Nodes of the B+tree

`PagesProofs` proves all that `pages_split` checks of `PageLife`, for every set of
keys and values with any lengths:

- `EveryPageFits`: `Spec => []PagesFit`. `to_bytes()` never panics in the middle of
  a put because a node is too large, however entries within the limit of
  `check_limits` are mixed and replaced;
- `NoNodeEmptied`: `Spec => NoEmptyNode`, both halves of every split have an entry
  or a key, which the split functions assert;
- `EveryNodeInOrder`, `EveryOffsetTrue`, `NodeTypes`: keys in strictly
  increasing order, true offsets, one child more than keys;
- `EverySearchEnds`: `Spec => []SearchesAgree`, the binary searches end, and at the
  place that is meant, for every key.

The assumptions are that keys are ordered as numbers, that lengths are natural
numbers, and `PageSizeAssumption`: pages have at least 49 bytes, the size of the
header, and at most 43696, beyond which the sizes of an oversized node no longer
fit into a u16.

`PagesFit` alone is not inductive: a split has to know that no single entry is
too large, that offsets say where entries are, and that the node fitted before
the last insertion. The inductive invariant `NodeSound` has all of it.
`LimitFacts` derives from `max_kv_size` that two of the largest entries and
what surrounds them fit into a page, and that an oversized node stays below
2^16. `TwoLoops` is the argument for either pair of loops, once: if the left side
of the least point and the right side of the greatest fit, and wherever the
right side is still too large the left side is not, then the loops stop where
both fit. `LeafSplitPointFits` and `PromotionPointFits` show its premises.
`LeafPart` and `InternalPart` show that a part of a sound node is sound, with
its offsets moved to start at 0. `LeafInsertSound`, `LeafUpdateSound` and
`InsertSplitChildSound` are about nodes with one piece more or another; that
keys stay in order rests on what `LeafSearch` and `ChildIndex` find. All of this
is in `NodeProofs` and about nodes as values, so that `BTreeProofs` can use it;
`PagesProofs` has one step for each of the two actions of `PageLife`.

The searches' loops are recursive functions of a range, whose value needs an
induction on its length. `Found` and `Slot` say without recursion where the loop
ends in any range, also one that the place meant is not in. `LeafTurnRight` and
`ChildTurnRight` show that one turn keeps that up. This serves twice: the
function that `Found` describes does each turn, so there is such a function
(`LeafLoopExists`), and there is no smallest range in which another one differs
(`LeafLoopEnds`).

### The B+tree

`BTreeProofs` proves all safety properties that `btree_gets` checks, for every
set of keys, values and readers, every page size, mapping, height, warm-up and
number of puts, reopenings and crashes (`PageSizeAssumption`,
`FreeListCapacity`, `PutsAssumption`, those on keys and values of `Pages` and
those of `CowStore`):

- `TreeUsesStore`: `TreeSpec => UsesStore`. Each step of the tree is a step of
  `CowStore` or none, so its theorems hold of the tree too;
- `TreeTypesHold`: `TreeSpec => []TreeTypeOK`. A get comes to pages that hold
  nodes, as they were put, so that `Page::decode()` does not fail. The exception
  are gets that lost the race of `cow_gate_race`: those may come to a page that is
  half copied, of which `decode()` may make anything, a panic included
  (`MisreadExposed` says that no other get can). Where it meets a whole page even
  such a get meets a node, though it may answer wrongly;
- `TreeStaysReal`: `TreeSpec => []TreeIsReal`;
- `SeparatorsStayTrue`: `TreeSpec => []SeparatorsCover`;
- `TreeImplementsMap`: `TreeSpec => ImplementsMap`.

The idea is to say for which keys each page is: `u`. `Shape` says that a tree is
one, given `u`: the root is for all keys, every page has its own keys within
what it is for, a child is for the part of its parent's that lies in its slot
(`Covers`), pages of one level are for different keys and none but the root is
empty or without a parent. `Holds` says that a leaf has what a map has for the
keys of the leaf. `HasTree` is that there is such a `u`. What `TreeIsReal` and
`SeparatorsCover` say follows: `PathInTree` and `WayComes` are about one search,
`LayersAre` and `ContentsAre` about all pages. These need what `Ways` and
`Layers` return for every argument; `WaysRise` and `LayersSink` say that they do
what each step of their recursion says, which comes down to the existence of
such a function.

What a put makes of a tree is the long part. `AllRungs` says that the recursion
up the path is, for some number `K`, `K` nodes that split and then nodes that do
not. The node above is given a separator and two children that are already known
to be sound and to be for the lower and the upper part of what the old child was
for (`InsertLeafHolds`, `InsertInternalHolds`, `ReplacedCovers` in `NodeProofs`,
`AllMade` for the levels of a path). `GraftMakes` puts this together: the old
tree without the path and with the new nodes has a `Shape` again, and its leaves
hold the map with the entry (`PutBuilds`).

None of the properties is inductive. The invariant is `TreeInv`
(`TreeInvHolds`), `StoreInv` and six parts:

- `NodesSound`: all nodes that were ever written are sound, also on pages that
  no tree has any more;
- `GetTypes`: a get is where its reader is;
- `Published`: the tree of the published root holds the map, and the header
  names that root, or the put's just before it is published;
- `PutGoesOn`: the tree of the put under way, with the pages that it still
  buffers laid over those on file, holds the map with its entry; whatever is not
  to be written any more is on file. This makes the moment of publication, and
  of a crash after the header, trivial, and all the work is in `PutEntry`;
- `GetsWalk`: what a get that is not exposed may still come to is linked and as
  it was, which rests on `ReadersApart` of the store's invariant;
- `NodesStay`: there is a set of pages that holds nodes whose children are in it
  too, that has no page of the free list's chain and that every get is in. It is
  for the exposed gets (those that loaded their root inside the race), for which
  nothing else is true. It grows with each page that is written and so is not
  the tree of anybody. No page of the chain is in it because `persist_free_list`
  lengthens the chain by new pages from the end of the file only, and never
  gives one back.

Each action has its lemma (`NodeKeeps` to `RestartKeeps`), after `StoreStep` has
shown that the store's invariant is kept. For the refinement, `GetOf` gives a
get its answer at the moment it loads the root, although its walk ends much
later; `Meets` is the entry that the walk is going to come to. `DescendSeen`
shows that a step down does not change it, and `MeetsSame` and `PagesStay` that
writing a page does not, since the pages that an unexposed get may come to are
not written. A put is seen to take effect in `EndPut`, or by a process that
ended after its header was written.

### Only model-checked

Liveness (`ClientsAreAnswered`, `FollowersCatchUp`, `GetsEnd`) is out of the
prover's reach. So are the library's induction theorems: the inductions over
logs, chains, levels and ranges that the theorems need are done by hand, with a
least counterexample. What the findings' runs refute is of course not proved.
All other properties that the runs check are proved.

## 5. Findings

Each is a place where the code does not do what a comment, a document or a test
of the repository says; the run named finds the behaviour.

- `raft_not_leader`. `becomeFollower()` answers NOT_LEADER to clients whose
  entry is in the log already, and the next leader may commit it. The javadoc
  of `submitCommand` and the acceptance test read NOT_LEADER as "not there".
- `raft_in_flight`. `becomeLeader()` clears `inFlight` while calls of an earlier
  leadership are outstanding, and their completion clears the marks of newer
  calls. Two requests to one peer are then in flight. Safety does not depend on
  it: `raft_replication` includes such behaviours.
- `raft_late_start`. `start()` arms an election timeout even if the node already
  leads. The leader then times out, becomes a candidate without completing its
  clients and keeps its heartbeat scheduled.
- `cow_gate_race`. The reader count is read before the new root is stored. A
  reader that registers in between loads the old root, whose pages are already
  free, and the next put overwrites them. `ProtectedIsolation` shows that this
  is the only way: every other reader keeps its snapshot.
- `cow_chain_crash`. The chain is rewritten in place before the header. A
  crash in between leaves the old root with a free list that holds pages of its
  tree, or with a chain that cannot be followed; a header that is half copied
  does the same. `RootIsReadable`, `OneOwner`, `OpensAgain` and
  `RestartKeepsCommitted` show that a crash in any other step, or in the middle of
  any other page, is harmless.

One thing that no document denies: chain pages that a shrinking free list
leaves unused are kept while the store is open (`NoPageLostWhileOpen`), and
forgotten when the file is opened again, since `load_free_list_chain` follows
the shorter chain.

## 6. Not modelled

- HTTP: the 5 s timeout, redirects, and the endpoints that read the live log and
  map while the event loop changes them. `POST /command` is in the model as the
  client of `submitCommand()`.
- Restart of a Raft node, which forgets its vote and its log by design
  (`02-raft/README.md` says that state is not persistent).
- Message sizes, gRPC channel state, `ProtoMapper`'s field by field conversion,
  parsing of `PEERS`.
- The bytes of pages: `to_bytes` and `from_bytes` keep a node as it is, and what
  a node means to them (its shape, order, offsets and size) is in `Pages`.
  `BTree` therefore has nodes on pages where the code has bytes. A page that is
  half copied is not a mixture of two but something of which nothing is known.
  In a header that is half copied each number is the old or the new one;
  a number that is itself copied in part, and the first header of a file in part
  (the model's process gives up), are not followed.
- What a release build does after it has decoded a page that is no link of the
  free list's chain (a debug build panics there). It takes a torn chain to get
  there.
- Page sizes above 43696, where the u16 sums of `leaf_split_by_size` may wrap
  (the assertion at `leaf.rs:192` lets them through), and files of another version or page size, which
  `open_or_create` refuses before it changes anything.
- Power loss, where dirty pages of the mapping reach the disk in any order before
  `msync` returns: the code orders nothing but the one `sync()` at the end of a
  commit, so nothing could be claimed of it. System calls that fail.
- Printing and the command line.

## 7. Plan

Done: both programs are modelled, `Raft` and `CowStore` with their fault models,
`Pages` and `BTree` on top of the store, with `ReplicatedLog` and `MapStore` as
abstract specifications. Proved are all safety properties of `Raft`, of the
store, of nodes and of whole trees, and that the cluster implements
`ReplicatedLog` and the tree `MapStore`.

Left, in order of importance:

1. `HttpApi`: readers of the live log and map that go step by step.
2. Power loss, if the code comes to order its writes: a specification of what
   `msync` promises, and an invariant on what is on disk in place of `HeaderTrue`.
3. A tree whose chain was torn: `BTree` stops where `CowStore` goes on.
