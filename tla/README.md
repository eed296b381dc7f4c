# Models of DSCD_Assignments

TLA+ models, TLC runs and TLAPS proofs for the programs of this repository. Line
numbers refer to the files under `src/`.

## The systems

The repository holds five independent programs.

| System | Processes | State | Operations | How they interact |
|---|---|---|---|---|
| **Raft store** `Assignment_2/raft.py`, `client.py` | N nodes, clients | per node: role, term, vote, log, commit length, store, lease, three timers, `logs.txt` + `metadata.txt` | `RequestVote`, `AppendEntries`, `ServeClient`; election, heartbeat and lease timers; one thread per outgoing call | gRPC with 1 s timeouts; threads of one node share its fields without a lock |
| **K-means** `Assignment_3/` | master, mappers, reducers | master: responses and failures of the round; files `Mappers/M*/partition_*.txt`, `Reducers/R*.txt` | `Map`, `GetPartitionData`, `Reduce` | gRPC (3 s, 0.3 s) and the shared files; a failed task is given to another process |
| **Marketplace** `Assignment_1/gRPC/` | platform, sellers, buyers | unlocked dictionaries of sellers, items, wishlists, ratings | 9 handlers on 10 threads | gRPC; the platform calls the clients back, without a timeout, from within handlers |
| **Group chat** `Assignment_1/ZeroMQ/` | message server, groups, users | groups listed; members and messages of a group | register, list, join, leave, send, get | REQ/REP and REQ/ROUTER sockets |
| **YouTube** `Assignment_1/RabbitMQ/` | server, users, youtubers | subscriptions, videos; the broker's queues | subscribe, upload, notify | three kinds of queues, acknowledgements |

What is hard about each, and what makes it correct:

* **Raft.** Handlers, timer callbacks and call threads of a node interleave freely;
  replies are applied long after the state they were asked from has changed; a
  `threading.Timer` whose handle is overwritten keeps running; nodes crash and come
  back from two text files; leases end by the clock of each node. Correct means: at most
  one leader a term, logs that agree, nothing committed is ever replaced, a `SET` answered
  with success survives, a `GET` sees it, somebody always wakes up to hold the next
  election, and a lease ends before the next one begins.
* **K-means.** A retried task may be carried out twice, late, by another process, into
  files other tasks are written to. Correct means: each point counts once towards its
  nearest centroid, and the master ends.
* **Marketplace.** Check-then-act on shared dictionaries; handlers that wait for a
  client in the middle of a loop over one of them. Correct means: stock is not sold
  twice, ratings add up, whoever is to be notified is, every call ends.
* **Group chat.** One thread serves a group and an exception ends it; REQ sockets wait
  forever; members ask for what was said since a second they know. Correct means: one
  order of messages for everybody, nobody misses one, every request is taken.
* **YouTube.** The broker delivers again what was not acknowledged, in an order the two
  queues do not share, and the server keeps all its state in memory. Correct means: the
  subscriptions are what users asked for last, and each upload reaches its subscribers.

The list of hazards, each at its line, is in `PROJECT.json`.

## The modules

| Module | What it is |
|---|---|
| `Raft` | the node of `raft.py`: state, one action per run of a handler, timer or thread |
| `RaftProperties`, `MCRaft` | its properties, the refinement mapping; symmetry and view for TLC |
| `ReplicatedLog` | abstract specification: one log that only grows, answers after decisions |
| `RaftProofs` | theorems about `Raft`: types, votes, terms, timers; and leaders, until a vote is late |
| `RaftLogProofs`, `RaftSafetyProofs` | theorems about `Raft` until something is done late: logs; commitment, answers and the refinement |
| `RaftLease`, `RaftLeaseProperties`, `MCRaftLease`, `RaftLeaseProofs` | the same node with a clock, leases and links that are cut, and no logs |
| `KMeans`, `KMeansProperties`, `MCKMeans`, `KMeansProofs` | master, mappers and reducers, with their files |
| `Marketplace`, `MarketplaceProperties`, `MCMarketplace`, `MarketplaceProofs` | the platform and its clients' calls |
| `GroupChat`, `GroupChatProperties`, `MCGroupChat`, `GroupChatProofs` | message server, groups and users, with their sockets |
| `Conversation` | abstract specification: one order of messages, and readers who miss none |
| `YouTube`, `YouTubeProperties`, `MCYouTube`, `YouTubeProofs` | the server, the broker's queues, users and youtubers |

A definition marked `(mutant)` is a plausible bug; it is not used by the specification.
TLC refutes each property of a passing run when the definition it stands beside is
replaced by it.

### Raft

Variables have the names of the fields. An action is what one thread does between two
blocking calls:

| Action | Code |
|---|---|
| `StartElection`, `CheckElection`, `AcquireLease` | `start_election` and its 0.1 s check; `become_leader` before and after its `sleep` |
| `SendRequestVote`, `HandleRequestVote`, `ReceiveVote`, `VoteCallFails` | the thread of `request_vote_async`, the handler, the answer, or `RpcError` |
| `SendHeartbeats`, `SendAppendEntries`, `HandleAppendEntries`, `ReceiveAppendReply`, `AppendCallFails` | the same for `send_heartbeats` and `replicate_log_async` |
| `LeaseTimeout` | `lease_timeout` |
| `ServeClientSet`, `ClientWake`, `ServesGet` | `ServeClient`: the append, the end of its wait, and what a `GET` would see |
| `Restart` | a crash between two handlers, then `load_state` |

Kept exactly: which fields a path sets, in what order it saves, that `voted_for` comes
back from disk as a string and then equals no id, that a timer's start forgets the old
one (`orphans`), that the loop over entries raises when the leader's commit length is
beyond the log, and that a `SET` holds a worker. Abstracted: time (a pending timer may
fire at any moment), the values of more than one key, a refused vote's reply (it changes
nothing), and the file as one write.

**What is done late.** Three things `raft.py` does without asking for whom: it counts a
vote, or asks for one, when the election it was for is over (raft.py:165-182); it appends a
NO-OP and sends its log when its thread wakes up or gets to run, leader or not (205-207,
254-272); and it counts an acknowledgement in whatever term it comes (272-276; the reply
carries a term that is not looked at). `late` is a history of them: `"vote"`, `"lead"`,
`"ack"`. No action reads it, and every run takes these steps as the code does. With them the
guarantees of Raft are lost (see the counterexamples), so the safety properties are stated for
as long as nothing that harms them is late: `ElectionSafety` until a vote is, `LogMatching`
until a vote is or a node replicates that does not lead, the others while `late = {}`.
A leader may be deposed at any moment, also asleep in `become_leader` (203), and calls may be
under way across any change of term, without anything being late: only its waking up to lead
on, or counting what they bring, is.

**Timing levels** only bound what TLC explores; no theorem assumes one. The constant
`Timing` is `"any"`: no bound; `"rpc"`: a node's calls for votes are over before its *next
election* starts; `"calm"`: they are also over before the node enters another term or follows
another leader, and threads start at once; `"serial"`: moreover no two nodes stand at once.
None of them is about `become_leader`'s sleep or about `AppendEntries` under way.

### RaftLease

The other half of the node: what `Raft` leaves to chance, when a timer fires, is decided
by a clock here, and what it keeps, the logs, is left open (a voter may find a
candidate's log good enough or not, and an `AppendEntries` counts towards the lease
whether it is accepted or refused, raft.py:281). Each
timer has an age, and so have those whose handle was lost (`lost`). `Tick` passes only
when nothing is due (`MayPass`), so a timer fires neither early nor late, and a call ends
within `CALL_TIMEOUT` ticks. The wait of `become_leader` is a list of sleeping threads.
`Cut` takes a set of links away and `Heal` gives them back. `told` and `renewed` are
history: what remains of the longest lease a voter told a candidate of, and whether a
leader's own lease was renewed.
The random election timeout is any tick between its two bounds, drawn when the timer
fires rather than when it is set, which no other thread can tell.

### KMeans

A point is a line number, and `nearest` any assignment of points to centroids, so that
no arithmetic on coordinates is needed; a new centroid is the *bag* of points it is the
mean of, which shows a point counted twice or lost. A file is a bag of lines. A mapper
saves one file after the other: `MapOpens` opens it, which with mode `"w"` empties it, and
`MapWrites` closes it, which is when its few lines leave the buffer; two tasks of a process
and the reducers' reads come in between. A file opened with `"w"` is then written from its
start, over some of what was appended since (`Written`). A call that ended in `RpcError` stays
behind, as `lost`, and may still be carried out, also when the next iteration has deleted the
files (`FilesDeleted`). `harm` is a history: a call that was given up touched a file, a shuffle
passed over a mapper that had lines for it, or a stream broke after some of its responses.
Everything between two answers of the master is one action. `Work` is what happens without
anything going wrong, `Fault` the simulated failures (`random() < 0.2`) and the errors.

### Marketplace

A call is a record: the statement it is at, and its locals. Where what another thread does
between two statements matters, each is an action of its own; so `RateItem` is ten, up to
the mean that is shown (195). A handler always lets others
run while it waits in `send_notification`. That the interpreter takes a thread away
between two other statements is rarer, and one of the *disturbances* that
`MaxDisturbances` bounds; `preempted` remembers that it happened, so a property that
needs each handler's statements in one piece says so (`~preempted =>`). The other
disturbance is a client whose channel breaks and comes back from another port: its
address is new. Items are shared objects in `objects`; `items` maps ids to them, so a
deleted item a handler still holds is there. Prices and texts are left out, as are the
two searches, which only read. A rating is any integer: neither buyer.py:104 nor
central_platform.py:188 asks that it be 1 to 5. `given`, a history, has the sum and the number
of the ratings accepted for an item.
Order among wishlists is left open, so the walk of
`UpdateItem` may take any.

### GroupChat

`request[u]` is where a user of `user.py` is: at the menu, waiting for the server or a
group, or *forgotten*, because the process that had its request stopped. `stage[g]` is
where a `group.py` is: registering, registered, serving, its thread ended by an
exception, or stuck in a registration whose server was restarted. Each request a group
takes is one action, with what the thread does about it (`HandleJoin`, `HandleLeave`,
`HandleSend`, `HandleGet`); `ThreadEnds` is the exception that leaves the loop
(group.py:89-93). A message is its sender, a number and the second of the group's clock.
A user asks for all messages, or for those since the second of a message it was shown,
or types the time as the menu explains it, which the group cannot read.

`Conversation` is what users may expect of it: messages are said one after the other,
each once, and whoever is shown any then knows all there are; a group that stops loses
them together. `GroupChat` implements it with `MESSAGES` for what was said and `printed`
for what is known.

### YouTube

The broker's queues are sequences. The server's two callbacks run one at a time;
`handling` is the list of subscribers the upload at the head of its queue is still to be
sent to, so the server can stop between any two notifications and before `basic_ack`,
and is given the upload again. A user's program is a `session` with a `buffer` of
notifications that `auto_ack` has removed from the broker.

## The runs

| Run | Asks | Bounds |
|---|---|---|
| `RaftAnyTiming` | no bound on timing: one vote per term and voter, one electorate per term, terms that never fall, no node without a timer | 3 nodes, term 1, log 1, 1 fault, 1 crash |
| `RaftCalm` | competing candidates, a `SET` and a crash anywhere: types, one leader a term, logs match, committed entries agree, the store is the applied prefix, answered `SET`s are on a majority of disks, and the cluster implements `ReplicatedLog` | 3 nodes, terms up to 2, logs up to 2, 1 value, calm elections, 3 `AppendEntries` under way at a time, 1 crash |
| `RaftLeases` | how long two leases overlap, when a leader that is cut off steps down, that the others keep their leases | 3 nodes, term 2, one node cut off once, at any tick |
| `RaftLongestLease` (violated) | `WaitsOutLongest`: a new leader waits out the longest lease it was told of | the same |
| `RaftLateVotes` (violated) | `LeaderIsElected` with slow calls | 3 nodes, term 2, no log |
| `RaftFreshReads` (violated) | `FreshReads` with serial elections | 3 nodes, term 2, logs up to 2, no crash |
| `KMeans` | simulated failures, an RPC error, every reassignment: each point once, exact centroids, complete output, no truncation, no point lost, termination | 2 mappers, 2 reducers, 2 centroids, 3 points, 2 iterations, 2 faults of which 1 may be an error |
| `KMeansEmptyCluster` (violated) | `Terminates` when a centroid may be nearest to nothing | 2 points, no fault |
| `Market` | stock, ratings, purchases, notifications; every call ends | 1 seller, 2 buyers, 1 item, quantities 1 and 2, 1 disturbance |
| `MarketWishes` (violated) | `UpdateReachesWishers` | 3 buyers |
| `GroupChat` | the group implements `Conversation`; requests are taken | 1 group, 2 users, 1 message each, 2 seconds, 1 restart |
| `YouTube` | subscriptions as asked, copies, uploads never swallowed and always taken | 2 users, 1 youtuber, 3 requests, 2 videos, 1 crash |

**Why the bounds are enough for what is asked.** Three nodes are the smallest cluster
with a majority that is not everybody. Two terms and two entries allow a leader to be
replaced with its entry on a minority, a log to be truncated and a `SET` to be committed
in the term after; `RaftAnyTiming` needs one term for two rivals and one crash to forget
a vote. `RaftCalm` leaves the history of votes out of TLC's view, and the others that of
what was late: no action and none of their properties read it. `RaftCalm` goes on from no state
in which something was done late (`Timely`), as its properties promise little there; from none with more
than three `AppendEntries` under way (`FewCalls`), those of one leader and a late one of
the leader before; and after a crash from none with more than two, or two candidates
(`AfterCrash`). Lost calls, more orders of calls and longer logs are left to the proofs. In
`RaftLeases` election timers
and leases keep their ratios (raft.py:15-17: 5 to 10 s and 10 s are two to four ticks and
four); a heartbeat is one tick, which is slower than the code's 1 s beside its timers but
still comes twice before the shortest of them ends; a call takes less than a tick.
Two faults among two mappers make all fail at once, or a reassignment fail; if one of them
is an error, a task is carried out late. Three points leave a remainder for the last
mapper. No reducer is left without a centroid: the answer `NO_TASKS`, like more reducers than
centroids, is left to the proofs. A second iteration shows that nothing is
left over from the first. Two buyers compete for one item of stock two; one disturbance
is enough to meet each lost update, and there may be no thread switch in a history at
all. There are two workers for three clients, where the code has ten, so the pool is full at
times; and one rating, 5, which tells the number of ratings from their sum: the proofs are
about any. Two users are a sender and a reader, or a member and one who is none; two seconds let messages fall in one or in two. Three requests and two videos are enough to
subscribe, unsubscribe, subscribe again, with a crash before, between and after.

Raft, `GroupChat` and `YouTube` runs set `CHECK_DEADLOCK FALSE` because their bounds (on
terms, logs, requests, messages) stop the system, and because in the group chat all users
may be forgotten; the others check deadlock.

**Fairness.** Nothing in `Raft` or `RaftLease` is claimed to happen eventually; what has to
happen in time is said with the clock (`DeposedInTime`), so they state no fairness.

* `KMeans`, `WF(Work)`: processes keep running and answer their calls. It does not assume
  that a simulated failure stops happening; their number is bounded by `MaxFailures`, as
  an infinite run of them has probability zero.
* `Marketplace`, `SF(Continue(c))`: every thread gets the interpreter again and again, and
  a notified client answers or refuses the connection. It is strong, because whether a
  thread may go on depends on whether others are between two statements: the interpreter
  switches threads every few milliseconds, it does not wait for others to rest. The code has
  no timeout for a notification: a client that hangs holds the handler for good.
* `GroupChat`, weak fairness of the server and of each group for each user: a poller
  returns every socket that is readable, and a ROUTER socket takes its peers in turn.
* `YouTube`, strong fairness of the two callbacks: a broker serves all consumers of a
  channel in turn, and either callback is disabled while the other runs or the server
  is down. Users and youtubers need do nothing.

**What the violated runs show** is told in `PROJECT.json` under `findings`.

**Other counterexamples.** The same modules refute these when a property or a constant is
changed; they are the reason why the passing runs assume what they do.

* `LogMatching` without its condition, in `RaftCalm` without `Timely`: a node is elected, is
  deposed in `become_leader`'s sleep (203) by the leader of the next term, wakes up, and appends
  a NO-OP in that term, which it does not lead, where the leader has a client's `SET`. It
  starts heartbeats, too. `late` has `"lead"` then.
* `ElectionSafety` without its condition, with `Timing = "any"`: late votes elect a second
  leader of a term. `late` has `"vote"` then, as in `RaftLateVotes`.
* What a late acknowledgement does is not found with three nodes: its sender and receiver both
  had the entry. With five, they may be outvoted and the entry replaced before the old leader
  leads again and counts the acknowledgement for what now is at its index; that is out of TLC's
  reach, and the reason why `"ack"` is in `late`.
* `LeaseKept` without `lost = {}`, with `MaxTerm = 4` and no cut: a leader deposed in
  `become_leader`'s sleep that is elected again before it is over sleeps in two threads. Each
  starts a lease timer (raft.py:205-207); the handle of the first is lost, so no renewal
  cancels it, and it makes a leader whose lease was just renewed step down.
* "At any given time, only one lease can exist in the cluster" (Assignment_2/README.md:14). `OverlapBounded`
  is what is left of it, and each of its terms is needed: a leader whose first lease was
  never announced before it was cut off is unknown to its voters; a leader that is cut off
  renews by the answers of the heartbeat before, and by refusals (raft.py:241, 281). With
  `CALL_TIMEOUT = 1`, calls that take a whole tick, leases overlap without any cut, and so
  they do when only one link of three is cut. An earlier cut may set the terms of two nodes
  apart; then both may be elected within one tick, neither lease known to the other's voters,
  and the first, if it is cut off then, keeps its own for as long as the second. Without that
  cut, and with `MaxTerm = 3`, the second bound fails between terms 2 and 3: an election timer
  that `check_election_result` starts without cancelling the one an `AppendEntries` started
  (raft.py:160, 366) makes a node stand twice in one tick, so the elapsed time is taken away
  twice here, too. Hence the bound is stated of the terms 1 and 2 only.
* `DeposedInTime` with `old_leader_lease_timeout` for the first of its two waits, after two such
  cuts: a vote that arrives while the new leader sleeps changes what it remembers of the old
  lease (raft.py:179-182), and not how long it sleeps (205).
* `EveryPointOnce` without `errors = 0`: a timed-out mapper wrote its files and so did the
  one its task went to (mapper.py:99).
* `EveryPointSomewhere` without `~harm`: a call that timed out is tried again at its own mapper
  and answered; then the first one begins, opens the files with mode `"w"`, and they are empty
  while the reducers read them (mapper.py:99-101). Or its mapper is handed another's task
  meanwhile, whose lines it empties.
* `CentroidsExact` without `errors = 0`: a mapper missed by `GetPartitionData` is left out
  (reducer.py:58-59).
* `Terminates` without `harm`: a stream that broke after it began is never asked for the rest
  (master.py:151, 216); a centroid all whose points were in a file that was missed, or emptied by
  a late task, has no response, and as in `KMeansEmptyCluster` the master waits for it.
* `NeverOversold` without `~preempted`: two purchases pass the check before either takes the
  stock (central_platform.py:134-141). So could two items get one id (60-64).
* `RatingsAddUp` without `~preempted`: two ratings read the same sums (188-191); or both find no
  raters, and the later `set()` (173-174) takes the rater the other has added, who may then rate
  again; or both find no ratings, and the later `(0, 0)` (185-186) takes the rating the other has
  written. That the number of ratings kept is at most that of the raters remembered is therefore
  false; it is at most that of the ratings accepted (`RatingsNeverInvented`).
* `PurchasesComplete` without its condition: a seller whose connection broke sells on
  without registering again, and the item has an address that was never registered
  (central_platform.py:62, 148).
* `EveryRequestTaken` without `stage[g] # "serving"`: leaving a group one is no member of is
  a `KeyError` (group.py:49), and a timestamp typed as user.py:91 explains it a
  `ValueError` (group.py:73); either ends the only thread of the group, and all who wait for
  it wait forever.
* `ServingIsListed` (a theorem) without `restarts = 0`: a restarted message server lists none of the
  groups that run, and none of them registers again (message_server.py:10).
* That every notification sent is printed: `auto_ack` lets the broker forget what a user's
  program has not printed when it stops (User.py:40). That a user who subscribed before an
  upload was published is told of it: the two queues have no common order.

## The proofs

All theorems are about the specifications as checked, for every value of the constants that
satisfies the named assumptions of the module (`NodeAssumption`, `TextAssumption`,
`BoundAssumption`; `ClockAssumption`; `SizeAssumption`; `MarketAssumption`; `ChatAssumption`; `TubeAssumption`).

**`RaftProofs`**, for every set of nodes and values, every timing level and all bounds:

* `TypeCorrect`: `Spec => []TypeOK`. `TypeOK` is inductive: one lemma per group of
  actions, over the conjuncts by name (memory, timers, disk, calls, the rest).
* `VotesAgree`: `Spec => []VoteInv`. "One vote per term" is not inductive alone: a
  restart takes the vote from disk, as text. The invariant adds that between two handlers
  a node's file agrees with its memory (`DiskInv`) and that a vote granted in a node's
  current term is the vote it remembers, or its text (`GrantInv`), which equals no id and
  so lets nobody be voted for again.
* `OneVote`, and from it `OneElected`: two majorities of a finite set meet
  (`MajoritiesMeet`), and who is in both voted once.
* `TermsRise`, `CommitRises`: the action properties, from `TypeOK` and `DiskInv` (a
  restart reads back exactly the term and commit length it had). `CommitNeverFalls` is
  proved and in no run.
* `NobodyStranded`: `NeverStranded`. Each path of a handler that stops a timer starts
  another, or leaves a check or a thread that will.

The second half of `RaftProofs` and the next two modules are about what holds until something
is done late, under every timing as well: each invariant has the part of `late` it depends on as its
condition, and each module builds on the one before, as a fact of a later kind needs those of the
earlier kinds. First, who leads:

* `BallotsKept`: until a vote is late, a node's ballots are all of its present term (`VotesCurrent`)
  and a `LEADER` has those of a majority for it; until a node replicates that does not lead, each
  `AppendEntries` is of a node elected in its term (`RequestsLed`). Nothing is said of a sleeper
  until it wakes up.
* `OneLeader` (`ElectionSafety`) follows from it and `OneVote`.

**`RaftLogProofs`**, what the logs hold, until a vote is late or a node replicates that does not lead.

* `LogsKept`: there is a set `T` of logs, among them all that are in memory, on disk or
  carried by a request under way, such that two of them with an entry of one term are the
  same up to the first of these entries (`Lineage`), every entry is of a term somebody won
  (`Won`), and the winner of its present term has all entries of that term (`Leading`). `T` is a
  witness the proof finds anew at each step, as no variable keeps the past: a `SET` adds
  the leader's new log, and logs that are truncated stay in it.
* `LogsMatch` (`LogMatching`): two logs of `T` with an entry of one term at one index agree
  up to it, as only one node led the term, and its log only grew.

**`RaftSafetyProofs`**, what is committed, while `late = {}`. Calls may be lost, handled in any order
and be under way when the terms of their sender or receiver change, and leaders are deposed at any
moment.

* `ChosenStays`: `SafeInv`, that there are a set `T` as above and a set `A` of acknowledgements (a
  node, a term, and the length of the leader's log it acknowledged in it). An entry that a
  majority acknowledged in its term is chosen; one is blocked when a majority, being in later
  terms, never will. The heart is `Complete`: a log with an entry of a later term has every
  entry of an earlier one that is not blocked. What makes it inductive: a
  node still has what it acknowledged unless that is blocked (`Retained`); a candidate has what
  its voters of the term acknowledged (`Votes`, from the comparison of logs in raft.py:315-316 and
  the log the request described, `Asked`); a request carries a log that has it too, and a commit
  length that is chosen (`Sent`); commit lengths are chosen (`Committed`); memory is on disk, so a restart
  forgets no acknowledgement (`OnDisk`); a reply under way is an acknowledgement of the term it was
  asked in (`RepliesTrue`), and what a node counts one of its present term (`CountsTrue`), which holds
  as no reply is counted in another; and who was answered has a chosen entry (`ClientInv`). Before it
  was proved, TLC evaluated the invariant along random runs of a copy of `Raft` that keeps `T` and `A`
  in variables.
* `OneHistory` (`StateMachineSafety`), `SetsDurable` (`AckedDurable`): two chosen entries at an
  index are the same, by a node that is in both majorities.
* `StoresFollow` (`StoreIsAppliedPrefix`): a node's store is its log applied up to its commit
  length. The step needs that the entries a follower overwrites are not committed
  (`CommittedStays`), that a request never commits beyond the entries it brings (`CommitInLog`), so
  that the `IndexError` of raft.py:388 is not met, and of `Restart` that it applies the same prefix
  again.
* `NodesImplement` (`ImplementsReplicatedLog`), for clusters with a node: the log
  of `ReplicatedLog` is the committed prefix of the node that committed the most; it is
  extended or kept by each step, whoever that node is afterwards, until something is late and the
  promise is given up (`kept`).

**`RaftLeaseProofs`**, for any number of nodes and terms, any lengths of the timers, leases
and calls, and any sets of links cut any number of times (a link joins two different nodes):

* `LeaseTyped`: `TypeOK`, by `Types`, which says of the calls too what they may hold. That no
  thread's wait becomes negative needs that no tick passes over one that is over (`MayPass`).
* `Deposed`: `DeposedInTime`, by `Lonely`. A leader still waits or has a lease (`AwakeAt`), so it is
  enough to bound both. Of a node that is cut off: a wait began before the cut (`NoNewWait`),
  because in an election begun later it has no vote but its own (`NoVotes`) and one vote is no
  majority; answers not yet counted came before the cut, and so did the start of the heartbeat
  timer that will count them (`AnswersOld`); hence a lease began, or was renewed, no later than
  the longer of a lease and a heartbeat after the cut (`LeaseOld`). With `CountedAgain`, answers
  that are counted twice, `AnswersOld` is lost at the first renewal.
* `OneTermUncut`: `NoneOverlap`, the part of `OverlapBounded` about the time before any cut, when a
  call takes less than a tick (`CALL_TIMEOUT = 0`), by `Uncut`: a node has the term of any other,
  or a request that brings it is on its way. A node that takes over a term has it from a caller
  that has asked all others, too, which is why `Uncut` speaks of all pairs of nodes and
  `TermsKnown` of the callers.

**`GroupChatProofs`**, for any number of groups, users, messages, seconds and restarts:

* `ChatTypes`: `Spec => []TypeOK`, by `ChatTyped`, whose invariant `ChatInv` says more: the
  messages of a group are in the order of their seconds, none later than `now` and none
  twice, a sender's number is not ahead of what it sent, and who is being shown messages
  since a second knows every earlier one.
* `ChatImplements`: `Spec => ImplementsConversation`. The step that matters is `HandleGet`:
  that a user who is shown what was said since second `s` knows everything then needs that
  it knew all before `s`, also of the group as it was restarted meanwhile, and that a send
  makes a message nobody has said needs the numbers.
* `ServingListed`: until a restart, a group that serves is listed. `ServingIsListed` is in no run.

**`MarketplaceProofs`**, for any number of sellers, buyers, items, threads and disturbances.
Every invariant extends `MarketTypes`, the types that the calls' locals need.

* `MarketTyping`: `TypeOK`, under every interleaving and for any integers as ratings. That a mean
  shown is of one rating at least needs it of the sums a handler carries, which have its own
  rating however those it read were reset; that a rater's set or an item's sums are there when they
  are used needs that nothing removes them (`Found`); that an address is one of those `Address`
  lists needs that each reconnection was counted as a disturbance (`Bounded`).
* `RatingsRight`: `RatingsAddUp`, by `AccountInv`: while no thread was interrupted, the sums
  kept for an item are those of the ratings accepted, except that they lack the one rating whose
  call has not written it yet, and the addresses remembered are as many; only buyers rate
  (`BuyersRate`).
* `NeverInvented`: `RatingsNeverInvented`, under every interleaving. The number an item keeps, or a
  handler carries between its read and its write, and the accepted ratings whose calls are still to
  read are together at most the ratings accepted (`CountInv`); and sums are always between so many
  times the lowest and the highest of some ratings (`MeanInv`). That a handler starts an item's sums
  anew only takes from them.
* `NotOversold`: `NeverOversold`, by `StockInv`: while no thread was interrupted, whoever has
  passed the check finds in stock what it checked for.
* `SuccessNotifies`: `SuccessMeansNotified`, by `TellInv`: wishlists are never removed, so
  while no new one came, those who wished at the update still do.
* `PurchasesEnd`: `PurchasesComplete`, by `AddressInv`: while no seller's connection broke,
  an item's address is that of a seller who is registered.

**`KMeansProofs`**, for any number of points, processes, centroids and iterations:

* `SplitsPartition`: the splits of `split_input_data` cover the points and do not overlap,
  the remainder included.
* `NoRace`: `NoTruncationRace`, by `CallsInv`: a waiting task is with its own mapper, or with
  one that is waited for nothing else of its own.
* `KMeansTypes`: `TypeOK`, with any failures and errors, by `Types`, which says of the files and
  calls too what they may hold.
* `PointsOnce`: `EveryPointOnce`. While every call is answered, the calls of a phase satisfy
  `Round`: a task is done, has failed or has one call; a call is at its task's own process or
  at one whose own task is done; and in a first round no task is forgotten. Hence a process that
  carries out its own task, which truncates the files, holds nothing yet; so each file is, at
  every moment, the lines of the tasks that have closed it, each task's at one mapper (`MapTrue`). The task's home is a witness the proof
  finds anew, as no variable tells where a task went.
* `CentroidsRight`, `OutputRight`: `CentroidsExact` and `OutputComplete`, by the same invariant of
  the reduce calls and files (`ReduceTrue`) and what a reducer has gathered so far (`Gathered`):
  when it has asked every mapper, its responses are those of its centroids (`GatheredAll`). The
  master stops when it has as many responses as centroids; as no two are for the same one, none is
  missing (`AllAnswered`).

**`YouTubeProofs`**, for any number of users, youtubers, requests, videos and crashes:

* `TubeTypes`: `TypeOK`. `SubscriptionsRight`: `SubscribedAsAsked`; requests are taken in order,
  and what a restart forgets is in the history it is compared with.
* `FewCopies`: `CopiesBounded`; the copies sent and those `handling` still holds are at most one
  and the restarts. `NoUploadSwallowed`: `AcknowledgedMeansNotified`, by the part of `handling`
  that is already done.

Only model-checked: of `RaftLease` `LeaseKept`, and `OverlapBounded` after a cut, which hold
for the ratios of the code's timers, calls that take less than a tick and, the second, one cut;
and of K-means `EveryPointSomewhere`. Liveness (`Terminates`, `MapPhaseEnds`,
`EveryCallEnds`, `EveryRequestTaken`, `EveryUploadTaken`) is out of their reach.

## Not modelled

* A crash inside `save_state` (raft.py:89-100): what half of a file holds depends on the
  buffering of the interpreter. Two handlers of a node interleaved line by line, such as two
  `RequestVote`s that both see no vote (raft.py:311).
* `client.py` beyond its `SET`s and `GET`s: it looks for the leader by reading, exits when
  it finds none and does not send a failed request again (Assignment_2/README.md:41 says it
  does); a client of the model asks once, too.
* Of the K-means files, what half a line may look like to a reader, and a write in several pieces:
  the repository's points make files of less than a buffer (8 KB), which is written at `close`. A
  task that makes its directory while the master deletes it (master.py:39).
* Logs in `RaftLease`, clocks in `Raft`; restarts in `RaftLease`: a restarted node has
  forgotten the lease of its leader (raft.py:40).
* `SearchItem` and `DisplaySellerItems`, which only read; quantities that are not positive;
  menus and printing; the code protoc generated; the broker, whose queues are assumed
  durable and in order, and the ZeroMQ library, whose sockets are assumed to deliver.

## What was done and what is left

Done: `Raft`, `KMeans` and `Marketplace` first, the programs with state that several
processes change; then `RaftLease`, `GroupChat` with `Conversation`, and `YouTube`; proofs
of all that runs check of `Raft` (until something is done late), of the chat, of `YouTube` and of the marketplace except
liveness, of when a leader that is cut off steps down, and of K-means while every call is
answered.

Left: for which lengths of the timers `LeaseKept` holds, and `OverlapBounded` after one cut;
what one lost answer may do to the points of K-means; what is left of the logs when a deposed
node has woken up in `become_leader`.
