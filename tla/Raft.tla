-------------------------------- MODULE Raft --------------------------------
(***************************************************************************)
(* The lease-based Raft node of Assignment_2/raft.py: elections, leases,   *)
(* log replication, commitment, SET requests, and restarts from disk.    *)
(*                                                                         *)
(* One action is one run of a handler, a timer callback or a thread up to  *)
(* its next blocking call.  Time is abstracted: a pending timer may fire   *)
(* at any moment (RaftLease has the clock).  All the SETs write one key,   *)
(* so a log entry is its term and its value, None standing for a NO-OP.    *)
(***************************************************************************)
EXTENDS Integers, Sequences, FiniteSets

CONSTANTS
    Node,         \* the ids in node_addresses
    Value,        \* the values clients SET, each requested once
    None,         \* Python's None, and the value of a NO-OP entry
    Workers,      \* max_workers of the gRPC server
    Timing,       \* bound: how slow calls and threads may be (see Standing)
    MaxTerm,      \* bound: no election is started beyond this term
    MaxLog,       \* bound: a leader appends nothing beyond this length
    MaxCalls,     \* bound: AppendEntries calls one node has open to another
    MaxOrphans,   \* bound: timers of a kind nobody holds a handle to
    MaxFailures,  \* bound: calls that fail and leases that expire
    MaxCrashes    \* bound: crashes of nodes

ASSUME NodeAssumption == IsFiniteSet(Node) /\ None \notin Node /\ None \notin Value
ASSUME TextAssumption == \A n \in Node : <<n>> \notin Node /\ <<n>> # None
ASSUME BoundAssumption ==
    /\ Workers \in Nat \ {0} /\ Timing \in {"any", "rpc", "calm", "serial"}
    /\ MaxTerm \in Nat /\ MaxLog \in Nat /\ MaxCalls \in Nat \ {0}
    /\ MaxOrphans \in Nat /\ MaxFailures \in Nat /\ MaxCrashes \in Nat

VARIABLES
    state, current_term, voted_for, log, commit_length, data_store,
    votes_received, sent_length, acked_length, heartbeat_success_count,
    election_timer, heartbeat_timer, lease_timer,
    disk,             \* logs.txt and metadata.txt of each node
    checks,           \* 0.1 s check_election_result timers not yet fired
    leader_waits,     \* threads in become_leader, asleep until the old lease ends
    vote_tasks,       \* request_vote_task threads that sent nothing yet
    vote_requests,    \* RequestVote messages not yet handled
    vote_replies,     \* granted votes on their way back
    append_tasks,     \* replicate_log_task threads that sent nothing yet
    append_requests,  \* AppendEntries messages not yet handled
    append_replies,   \* their replies on the way back
    client,           \* what became of the SET of each value
    grants,           \* history: every vote ever granted
    late,             \* history: what nodes did for a role or term that was over
    failures, crashes

durableVars == <<current_term, voted_for, log, commit_length, disk>>
leaderVars  == <<votes_received, sent_length, acked_length>>
timerVars   == <<election_timer, heartbeat_timer, lease_timer>>
electionRpc == <<vote_tasks, vote_requests, vote_replies>>
appendRpc   == <<append_tasks, append_requests, append_replies>>
roleVars    == <<state, leaderVars, timerVars>>
faultVars   == <<failures, crashes>>
otherVars   == <<client, grants, late, faultVars>>
vars == <<roleVars, durableVars, data_store, heartbeat_success_count, checks,
          leader_waits, electionRpc, appendRpc, otherVars>>
-----------------------------------------------------------------------------
State == {"FOLLOWER", "CANDIDATE", "LEADER"}
Entry == [term : Nat, value : Value \cup {None}]
Text(n) == <<n>>                   \* an id as load_state reads it: a string
Vote == Node \cup {Text(n) : n \in Node} \cup {None}
Timer == [armed : BOOLEAN, orphans : Nat]

Min2(a, b) == IF a < b THEN a ELSE b
Max2(a, b) == IF a > b THEN a ELSE b
Threshold == Cardinality(Node) \div 2
Others(i) == Node \ {i}
LastTerm(l) == IF l = <<>> THEN 0 ELSE l[Len(l)].term
Zeros == [j \in Node |-> 0]
NewTimer == [armed |-> FALSE, orphans |-> 0]

\* threading.Timer: a start forgets the handle it replaces without stopping it,
\* and a cancel reaches only the timer whose handle is still held.
Started(t) == [armed |-> TRUE, orphans |-> t.orphans + (IF t.armed THEN 1 ELSE 0)]
Cancelled(t) == [t EXCEPT !.armed = FALSE]
\* (mutant) step_down and AppendEntries cancel a timer and start none.
RestartForgotten(t) == Cancelled(t)

Restarted(t) == Started(Cancelled(t))
CanStart(t) == t.armed => t.orphans < MaxOrphans
Fired(t) ==
    {u \in {Cancelled(t)} : t.armed}
    \cup {u \in {[t EXCEPT !.orphans = @ - 1]} : t.orphans > 0}

\* (mutants) metadata.txt lacks the vote, or the term.
SavedWithoutVote(l, t, v, c) == [log |-> l, term |-> t, commit |-> c, voted |-> None]
SavedWithoutTerm(l, t, v, c) ==
    [log |-> l, term |-> 0, commit |-> c, voted |-> IF v \in Node THEN Text(v) ELSE v]

\* What is on disk: the vote is written as text, and read back as text.
Saved(l, t, v, c) ==
    [log |-> l, term |-> t, commit |-> c,
     voted |-> IF v \in Node THEN Text(v) ELSE v]

\* (mutant) The loop stops one entry early.
AppliedShort(l, first, last, v) ==
    LET sets == {k \in first..(last - 1) : k \in 1..Len(l) /\ l[k].value # None}
    IN  IF sets = {} THEN v ELSE l[CHOOSE k \in sets : \A m \in sets : m <= k].value

\* The key's value after entries first..last of l are applied to value v.
Applied(l, first, last, v) ==
    LET sets == {k \in first..last : k \in 1..Len(l) /\ l[k].value # None}
    IN  IF sets = {} THEN v
        ELSE l[CHOOSE k \in sets : \A m \in sets : m <= k].value

-----------------------------------------------------------------------------
Init ==
    /\ state = [i \in Node |-> "FOLLOWER"]
    /\ current_term = Zeros /\ commit_length = Zeros
    /\ voted_for = [i \in Node |-> None]
    /\ log = [i \in Node |-> <<>>]
    /\ data_store = [i \in Node |-> None]
    /\ votes_received = [i \in Node |-> {}]
    /\ sent_length = [i \in Node |-> Zeros]
    /\ acked_length = [i \in Node |-> Zeros]
    /\ heartbeat_success_count = [i \in Node |-> {}]
    /\ election_timer = [i \in Node |-> Started(NewTimer)]
    /\ heartbeat_timer = [i \in Node |-> NewTimer]
    /\ lease_timer = [i \in Node |-> NewTimer]
    /\ disk = [i \in Node |-> Saved(<<>>, 0, None, 0)]
    /\ checks = Zeros /\ leader_waits = Zeros
    /\ vote_tasks = {} /\ vote_requests = {} /\ vote_replies = {}
    /\ append_tasks = {} /\ append_requests = {} /\ append_replies = {}
    /\ client = [v \in Value |-> [status |-> "new", node |-> None, term |-> 0]]
    /\ grants = {} /\ late = {} /\ failures = 0 /\ crashes = 0

-----------------------------------------------------------------------------
\* Conditions on when a node can run.

\* A SET being served holds a worker until its entry is committed; the other
\* handlers need one only for an instant.
FreeWorker(i) ==
    Cardinality({v \in Value : client[v].status = "waiting" /\ client[v].node = i})
        < Workers

\* bound: how slow calls and threads may be.  The code enforces none of this; it only
\* keeps TLC's instances small, and no theorem assumes it.  Under "any" there is no
\* bound.  Under "rpc" the calls of a node's election (Standing) are over when its next
\* one starts, as 1 s timeouts and 5 s election timers suggest.
Standing(i) ==
    \/ checks[i] > 0
    \/ \E t \in vote_tasks : t.from = i
    \/ \E m \in vote_requests : m.from = i /\ m.live
    \/ \E r \in vote_replies : r.to = i
\* Under "calm" they are also over before the node enters another term or follows
\* another leader, and a thread sends its request before anything else happens.  A
\* thread asleep in become_leader keeps a node from neither: it may be deposed then.
Settled(i) == Timing \in {"any", "rpc"} \/ ~Standing(i)
Prompt == Timing \in {"any", "rpc"} \/ (vote_tasks = {} /\ append_tasks = {})
\* Under "serial", moreover, no two nodes run for election at the same time.
MayStand(i) ==
    \/ Timing = "any"
    \/ ~Standing(i) /\ (Timing = "serial" => \A j \in Node : ~Standing(j))

-----------------------------------------------------------------------------
\* Effects several handlers share, as conjuncts over the variables they assign.

\* step_down, called with the lease timer as it is by then.
StepDown(i, lease) ==
    /\ state' = [state EXCEPT ![i] = "FOLLOWER"]
    /\ votes_received' = [votes_received EXCEPT ![i] = {}]
    /\ sent_length' = [sent_length EXCEPT ![i] = Zeros]
    /\ acked_length' = [acked_length EXCEPT ![i] = Zeros]
    /\ heartbeat_timer' = [heartbeat_timer EXCEPT ![i] = Cancelled(@)]
    /\ lease_timer' = [lease_timer EXCEPT ![i] = Cancelled(lease)]
    /\ election_timer' = [election_timer EXCEPT ![i] = Restarted(@)]

\* What a node does for its election or its term is done in time, or not: the code
\* never asks, and no action reads the answer.
InTime(kind, now) == late' = IF now THEN late ELSE late \cup {kind}

\* save_state after the handler's other assignments.
SaveState(i) ==
    disk' = [disk EXCEPT ![i] =
                 Saved(log'[i], current_term'[i], voted_for'[i], commit_length'[i])]

\* The slots of append calls from i to j that are free, MaxCalls in all.
FreeSlots(i, j) ==
    {s \in 1..MaxCalls :
        /\ \A t \in append_tasks : ~(t.from = i /\ t.to = j /\ t.slot = s)
        /\ \A m \in append_requests :
              ~(m.live /\ m.from = i /\ m.to = j /\ m.slot = s)
        /\ \A r \in append_replies : ~(r.to = i /\ r.from = j /\ r.slot = s)}

\* send_heartbeats: one replication thread per peer; the lease is renewed when
\* enough peers answered since it last was; the next heartbeat is scheduled.
SendsHeartbeats(i, heartbeat, lease) ==
    LET renew == Cardinality(heartbeat_success_count[i]) >= Threshold
    IN  /\ \A j \in Others(i) : FreeSlots(i, j) # {}
        /\ CanStart(heartbeat)
        /\ append_tasks' = append_tasks \cup
               {[from |-> i, to |-> j, slot |-> CHOOSE s \in FreeSlots(i, j) : TRUE] :
                   j \in Others(i)}
        /\ lease_timer' = [lease_timer EXCEPT ![i] =
                               IF renew THEN Restarted(lease) ELSE lease]
        /\ heartbeat_success_count' = [heartbeat_success_count EXCEPT ![i] =
                                           IF renew THEN {} ELSE @]
        /\ heartbeat_timer' = [heartbeat_timer EXCEPT ![i] = Started(heartbeat)]

-----------------------------------------------------------------------------
\* Elections.

\* An election timer fires: whatever the node is, it becomes a candidate.
StartElection(i) ==
    /\ Prompt /\ MayStand(i) /\ current_term[i] < MaxTerm
    /\ \E t \in Fired(election_timer[i]) :
           election_timer' = [election_timer EXCEPT ![i] = t]
    /\ state' = [state EXCEPT ![i] = "CANDIDATE"]
    /\ current_term' = [current_term EXCEPT ![i] = @ + 1]
    /\ voted_for' = [voted_for EXCEPT ![i] = i]
    /\ votes_received' = [votes_received EXCEPT ![i] = {i}]
    /\ UNCHANGED <<log, commit_length>> /\ SaveState(i)
    /\ vote_tasks' = vote_tasks \cup
           {[from |-> i, to |-> j, round |-> current_term'[i],
             last_term |-> LastTerm(log[i])] : j \in Others(i)}
    /\ checks' = [checks EXCEPT ![i] = @ + 1]
    /\ grants' = grants \cup {[voter |-> i, candidate |-> i, term |-> current_term'[i]]}
    /\ UNCHANGED <<sent_length, acked_length, heartbeat_timer, lease_timer,
                   data_store, heartbeat_success_count, leader_waits,
                   vote_requests, vote_replies, appendRpc, client, late, faultVars>>

\* A vote thread builds its request: the term and the log length are read now,
\* the last log term was read when the election started.
SendRequestVote(t) ==
    /\ vote_tasks' = vote_tasks \ {t}
    /\ vote_requests' = vote_requests \cup
           {[from |-> t.from, to |-> t.to, round |-> t.round, live |-> TRUE,
             term |-> current_term[t.from], last_log_index |-> Len(log[t.from]),
             last_log_term |-> t.last_term]}
    /\ InTime("vote", state[t.from] = "CANDIDATE" /\ current_term[t.from] = t.round)
    /\ UNCHANGED <<roleVars, durableVars, data_store, heartbeat_success_count, checks,
                   leader_waits, vote_replies, appendRpc, client, grants, faultVars>>

\* (mutant) The lengths of logs that end in the same term are not compared.
LogOkByTerm(m, l) == m.last_log_term >= LastTerm(l)

\* The candidate's log is at least as good as l.
LogOk(m, l) ==
    \/ m.last_log_term > LastTerm(l)
    \/ m.last_log_term = LastTerm(l) /\ m.last_log_index >= Len(l)

\* (mutant) The vote already given is overlooked.
VoteOverlooked(i, m) == None

\* The vote a node of term t has once the request is looked at.
VoteBefore(i, m) == IF m.term > current_term[i] THEN None ELSE voted_for[i]

Grants(i, m) ==
    /\ m.term >= current_term[i]
    /\ VoteBefore(i, m) \in {None, m.from}
    /\ LogOk(m, log[i])

\* RequestVote.  A refusal changes nothing at the caller, so it has no message.
HandleRequestVote(m) ==
    LET i == m.to
        newer == m.term > current_term[i]
    IN  /\ Prompt /\ FreeWorker(i) /\ (newer => Settled(i))
        /\ current_term' = [current_term EXCEPT ![i] = Max2(@, m.term)]
        /\ voted_for' = [voted_for EXCEPT ![i] =
                             IF Grants(i, m) THEN m.from ELSE VoteBefore(i, m)]
        /\ UNCHANGED <<log, commit_length>>
        /\ IF newer \/ Grants(i, m) THEN SaveState(i) ELSE UNCHANGED disk
        /\ IF newer THEN StepDown(i, lease_timer[i]) ELSE UNCHANGED roleVars
        /\ grants' = IF Grants(i, m)
                     THEN grants \cup {[voter |-> i, candidate |-> m.from, term |-> m.term]}
                     ELSE grants
        /\ vote_requests' = vote_requests \ {m}
        /\ vote_replies' = IF Grants(i, m) /\ m.live
                           THEN vote_replies \cup
                                    {[from |-> i, to |-> m.from, round |-> m.round]}
                           ELSE vote_replies
        /\ UNCHANGED <<data_store, heartbeat_success_count, checks, leader_waits,
                       vote_tasks, appendRpc, client, late, faultVars>>

\* The vote thread counts a granted vote, whatever has happened since it asked.
ReceiveVote(r) ==
    /\ Prompt /\ vote_replies' = vote_replies \ {r}
    /\ votes_received' = [votes_received EXCEPT ![r.to] = @ \cup {r.from}]
    /\ InTime("vote", r.round = current_term[r.to])
    /\ UNCHANGED <<state, sent_length, acked_length, timerVars, durableVars, data_store,
                   heartbeat_success_count, checks, leader_waits, vote_tasks,
                   vote_requests, appendRpc, client, grants, faultVars>>

\* A vote call ends in grpc.RpcError (timeout, or a peer that is down): nobody
\* waits for it any more, but a request already sent may still be handled.
VoteCallFails ==
    /\ Prompt /\ failures < MaxFailures /\ failures' = failures + 1
    /\ \/ \E m \in vote_requests :
              /\ m.live
              /\ vote_requests' = (vote_requests \ {m}) \cup {[m EXCEPT !.live = FALSE]}
              /\ UNCHANGED vote_replies
       \/ \E r \in vote_replies :
              vote_replies' = vote_replies \ {r} /\ UNCHANGED vote_requests
    /\ UNCHANGED <<roleVars, durableVars, data_store, heartbeat_success_count, checks,
                   leader_waits, vote_tasks, appendRpc, client, grants, late, crashes>>

\* (mutant) One vote fewer than a majority will do.
ElectedByHalf(i) == Cardinality(votes_received[i]) >= Threshold

Elected(i) == Cardinality(votes_received[i]) >= Threshold + 1

\* check_election_result.  A winner is LEADER from here on, and its thread goes
\* to sleep in become_leader; a loser starts an election timer over any it has.
CheckElection(i) ==
    /\ Prompt /\ checks[i] > 0 /\ checks' = [checks EXCEPT ![i] = @ - 1]
    /\ IF Elected(i)
       THEN /\ state' = [state EXCEPT ![i] = "LEADER"]
            /\ votes_received' = [votes_received EXCEPT ![i] = {}]
            /\ sent_length' = [sent_length EXCEPT ![i] = [j \in Node |-> Len(log[i])]]
            /\ acked_length' = [acked_length EXCEPT ![i] = Zeros]
            /\ election_timer' = [election_timer EXCEPT ![i] = Cancelled(@)]
            /\ heartbeat_timer' = [heartbeat_timer EXCEPT ![i] = Cancelled(@)]
            /\ lease_timer' = [lease_timer EXCEPT ![i] = Cancelled(@)]
            /\ leader_waits' = [leader_waits EXCEPT ![i] = @ + 1]
       ELSE /\ CanStart(election_timer[i])
            /\ election_timer' = [election_timer EXCEPT ![i] = Started(@)]
            /\ UNCHANGED <<state, leaderVars, heartbeat_timer, lease_timer, leader_waits>>
    /\ UNCHANGED <<durableVars, data_store, heartbeat_success_count, electionRpc,
                   appendRpc, otherVars>>

\* The rest of become_leader, once the old lease is over: the node is not asked
\* again whether it is still the leader of the term it was elected in.
AcquireLease(i) ==
    /\ Prompt /\ leader_waits[i] > 0 /\ Len(log[i]) < MaxLog
    /\ leader_waits' = [leader_waits EXCEPT ![i] = @ - 1]
    /\ CanStart(lease_timer[i])
    /\ SendsHeartbeats(i, heartbeat_timer[i], Started(lease_timer[i]))
    /\ log' = [log EXCEPT ![i] = Append(@, [term |-> current_term[i], value |-> None])]
    /\ UNCHANGED <<current_term, voted_for, commit_length>> /\ SaveState(i)
    /\ InTime("lead", state[i] = "LEADER")
    /\ UNCHANGED <<state, leaderVars, election_timer, data_store, checks, electionRpc,
                   append_requests, append_replies, client, grants, faultVars>>

\* The lease timer fires: the node steps down.
LeaseTimeout(i) ==
    /\ Prompt /\ failures < MaxFailures /\ failures' = failures + 1
    /\ \E t \in Fired(lease_timer[i]) : StepDown(i, t)
    /\ UNCHANGED <<durableVars, data_store, heartbeat_success_count, checks,
                   leader_waits, electionRpc, appendRpc, client, grants, late, crashes>>

-----------------------------------------------------------------------------
\* Replication.

\* A heartbeat timer fires.
SendHeartbeats(i) ==
    /\ Prompt /\ \E t \in Fired(heartbeat_timer[i]) : SendsHeartbeats(i, t, lease_timer[i])
    /\ UNCHANGED <<state, leaderVars, election_timer, durableVars, data_store, checks,
                   leader_waits, electionRpc, append_requests, append_replies, otherVars>>

\* A replication thread builds its request from the state it finds; a prefix
\* longer than the log is an IndexError, which ends the thread.
SendAppendEntries(t) ==
    LET i == t.from
        prefix == sent_length[i][t.to]
        request ==
            [from |-> i, to |-> t.to, slot |-> t.slot, live |-> TRUE,
             term |-> current_term[i], prev |-> prefix,
             prev_term |-> IF prefix > 0 THEN log[i][prefix].term ELSE 0,
             entries |-> SubSeq(log[i], prefix + 1, Len(log[i])),
             commit |-> commit_length[i]]
    IN  /\ append_tasks' = append_tasks \ {t}
        /\ append_requests' = IF prefix <= Len(log[i])
                              THEN append_requests \cup {request} ELSE append_requests
        /\ InTime("lead", state[i] = "LEADER")
        /\ UNCHANGED <<roleVars, durableVars, data_store, heartbeat_success_count,
                       checks, leader_waits, electionRpc, append_replies, client, grants,
                       faultVars>>

\* The receiver's log has the entry the request's entries are to follow.
Follows(m, l) ==
    /\ m.prev <= Len(l)
    /\ m.prev = 0 \/ l[m.prev].term = m.prev_term

\* (mutant) The overlap is taken for new entries.
AppendedTwice(m, l) ==
    IF m.prev + Len(m.entries) > Len(l) THEN l \o m.entries ELSE l

\* append_entries: only the last overlapping entry is compared.
AppendedLog(m, l) ==
    LET reach == m.prev + Len(m.entries)
        index == Min2(Len(l), reach)
        conflict == /\ m.entries # <<>> /\ Len(l) > m.prev
                    /\ l[index].term # m.entries[index - m.prev].term
        kept == IF conflict THEN SubSeq(l, 1, m.prev) ELSE l
    IN  IF reach > Len(kept)
        THEN kept \o SubSeq(m.entries, Len(kept) - m.prev + 1, Len(m.entries))
        ELSE kept

LeaderAhead(m, committed) == m.commit > committed

\* AppendEntries.  The loop that applies entries raises IndexError when the
\* leader's commit length is beyond the log: nothing is saved or answered then.
HandleAppendEntries(m) ==
    LET i == m.to
        newer == m.term > current_term[i]
        current == m.term >= current_term[i]
        accept == current /\ Follows(m, log[i])
        newLog == IF accept THEN AppendedLog(m, log[i]) ELSE log[i]
        commits == accept /\ LeaderAhead(m, commit_length[i])
        raises == commits /\ m.commit > Len(newLog)
    IN  /\ Prompt /\ FreeWorker(i) /\ (current => Settled(i))
        /\ current_term' = [current_term EXCEPT ![i] = Max2(@, m.term)]
        /\ voted_for' = [voted_for EXCEPT ![i] = IF newer THEN None ELSE @]
        /\ CASE newer -> StepDown(i, lease_timer[i])
             [] m.term = current_term[i] ->
                    /\ state' = [state EXCEPT ![i] = "FOLLOWER"]
                    /\ election_timer' = [election_timer EXCEPT ![i] = Restarted(@)]
                    /\ UNCHANGED <<leaderVars, heartbeat_timer, lease_timer>>
             [] OTHER -> UNCHANGED roleVars
        /\ log' = [log EXCEPT ![i] = newLog]
        /\ commit_length' = [commit_length EXCEPT ![i] =
                                 IF commits /\ ~raises THEN m.commit ELSE @]
        /\ data_store' = [data_store EXCEPT ![i] =
               IF commits THEN Applied(newLog, commit_length[i] + 1, m.commit, @) ELSE @]
        /\ CASE accept /\ ~raises -> SaveState(i)
             [] newer /\ ~(accept /\ ~raises) ->
                    disk' = [disk EXCEPT ![i] =
                                 Saved(log[i], m.term, None, commit_length[i])]
             [] OTHER -> UNCHANGED disk
        /\ append_requests' = append_requests \ {m}
        /\ append_replies' = append_replies \cup
               {r \in {[from |-> i, to |-> m.from, slot |-> m.slot, term |-> m.term,
                        success |-> accept,
                        upto |-> IF accept THEN m.prev + Len(m.entries) ELSE 0]} :
                   m.live /\ ~raises}
        /\ UNCHANGED <<heartbeat_success_count, checks, leader_waits, electionRpc,
                       append_tasks, otherVars>>

\* (mutant) min_acks is one too low.
ReadyEarly(i, acked) ==
    {k \in 1..Len(log[i]) : Cardinality({j \in Node : acked[j] >= k}) >= Threshold - 1}

\* The lengths the peers of i have acknowledged often enough, and the one of
\* them commit_log_entries commits, if any.
Ready(i, acked) ==
    {k \in 1..Len(log[i]) : Cardinality({j \in Node : acked[j] >= k}) >= Threshold}
CommitTo(i, acked) ==
    {k \in Ready(i, acked) :
        /\ \A n \in Ready(i, acked) : n <= k
        /\ k > commit_length[i] /\ log[i][k].term = current_term[i]}

\* (mutant) max(0, ...) is missing.
BackoffBelowZero(n) == n - 1

\* The next request to a peer that refused goes back one entry.
Backoff(n) == Max2(0, n - 1)

\* The replication thread gets its answer; a success may commit entries.
\* Either answer counts towards the renewal of the lease.
ReceiveAppendReply(r) ==
    LET i == r.to
        acked == [acked_length[i] EXCEPT ![r.from] = IF r.success THEN r.upto ELSE @]
        to == IF r.success THEN CommitTo(i, acked) ELSE {}
    IN  /\ Prompt /\ append_replies' = append_replies \ {r}
        /\ sent_length' = [sent_length EXCEPT ![i][r.from] =
                               IF r.success THEN r.upto ELSE Backoff(@)]
        /\ acked_length' = [acked_length EXCEPT ![i] = acked]
        /\ heartbeat_success_count' = [heartbeat_success_count EXCEPT ![i] = @ \cup {r.from}]
        /\ UNCHANGED <<current_term, voted_for, log>>
        /\ IF to = {} THEN UNCHANGED <<commit_length, data_store, disk>>
           ELSE \E k \in to :
                    /\ commit_length' = [commit_length EXCEPT ![i] = k]
                    /\ data_store' = [data_store EXCEPT ![i] =
                                          Applied(log[i], commit_length[i] + 1, k, @)]
                    /\ SaveState(i)
        /\ InTime("ack", r.success => r.term = current_term[i])
        /\ UNCHANGED <<state, votes_received, timerVars, checks, leader_waits, electionRpc,
                       append_tasks, append_requests, client, grants, faultVars>>

\* An AppendEntries call ends in grpc.RpcError, as for votes.
AppendCallFails ==
    /\ Prompt /\ failures < MaxFailures /\ failures' = failures + 1
    /\ \/ \E m \in append_requests :
              /\ m.live
              /\ append_requests' = (append_requests \ {m}) \cup
                                        {[m EXCEPT !.live = FALSE, !.slot = 0]}
              /\ UNCHANGED append_replies
       \/ \E r \in append_replies :
              append_replies' = append_replies \ {r} /\ UNCHANGED append_requests
    /\ UNCHANGED <<roleVars, durableVars, data_store, heartbeat_success_count, checks,
                   leader_waits, electionRpc, append_tasks, client, grants, late, crashes>>

-----------------------------------------------------------------------------
\* Clients, and crashes.

\* ServeClient with a SET: the handler appends, saves, and holds its worker.
ServeClientSet(i, v) ==
    /\ Prompt /\ client[v].status = "new" /\ FreeWorker(i)
    /\ state[i] = "LEADER" /\ Len(log[i]) < MaxLog
    /\ log' = [log EXCEPT ![i] = Append(@, [term |-> current_term[i], value |-> v])]
    /\ UNCHANGED <<current_term, voted_for, commit_length>> /\ SaveState(i)
    /\ client' = [client EXCEPT ![v] =
                      [status |-> "waiting", node |-> i, term |-> current_term[i]]]
    /\ UNCHANGED <<roleVars, data_store, heartbeat_success_count, checks, leader_waits,
                   electionRpc, appendRpc, grants, late, faultVars>>

\* The handler finds everything committed and compares the last committed
\* entry with its own; an index out of range is an error reply.
ClientWake(v) ==
    LET i == client[v].node
        k == commit_length[i]
    IN  /\ Prompt /\ client[v].status = "waiting" /\ k >= Len(log[i])
        /\ client' = [client EXCEPT ![v].status =
               IF k \in 1..Len(log[i]) /\ log[i][k] = [term |-> client[v].term, value |-> v]
               THEN "ok" ELSE "failed"]
        /\ UNCHANGED <<roleVars, durableVars, data_store, heartbeat_success_count,
                       checks, leader_waits, electionRpc, appendRpc, grants, late,
                       faultVars>>

\* What ServeClient would answer to a GET at once, without asking anyone.
ServesGet(i) == state[i] = "LEADER" /\ FreeWorker(i)

\* A node crashes between two handlers and is started again from its files: its
\* threads and timers are gone, as are the requests it had not taken in.
Restart(i) ==
    LET d == disk[i]
    IN  /\ Prompt /\ crashes < MaxCrashes /\ crashes' = crashes + 1
        /\ state' = [state EXCEPT ![i] = "FOLLOWER"]
        /\ current_term' = [current_term EXCEPT ![i] = d.term]
        /\ voted_for' = [voted_for EXCEPT ![i] = d.voted]
        /\ log' = [log EXCEPT ![i] = d.log]
        /\ commit_length' = [commit_length EXCEPT ![i] = d.commit]
        /\ data_store' = [data_store EXCEPT ![i] = Applied(d.log, 1, d.commit, None)]
        /\ votes_received' = [votes_received EXCEPT ![i] = {}]
        /\ sent_length' = [sent_length EXCEPT ![i] = Zeros]
        /\ acked_length' = [acked_length EXCEPT ![i] = Zeros]
        /\ heartbeat_success_count' = [heartbeat_success_count EXCEPT ![i] = {}]
        /\ election_timer' = [election_timer EXCEPT ![i] = Started(NewTimer)]
        /\ heartbeat_timer' = [heartbeat_timer EXCEPT ![i] = NewTimer]
        /\ lease_timer' = [lease_timer EXCEPT ![i] = NewTimer]
        /\ checks' = [checks EXCEPT ![i] = 0]
        /\ leader_waits' = [leader_waits EXCEPT ![i] = 0]
        /\ vote_tasks' = {t \in vote_tasks : t.from # i}
        /\ vote_requests' = {[m EXCEPT !.live = m.live /\ m.from # i] :
                                 m \in {n \in vote_requests : n.to # i}}
        /\ vote_replies' = {r \in vote_replies : r.to # i}
        /\ append_tasks' = {t \in append_tasks : t.from # i}
        /\ append_requests' = {IF m.from = i THEN [m EXCEPT !.live = FALSE, !.slot = 0]
                               ELSE m : m \in {n \in append_requests : n.to # i}}
        /\ append_replies' = {r \in append_replies : r.to # i}
        /\ client' = [v \in Value |->
               IF client[v].status = "waiting" /\ client[v].node = i
               THEN [client[v] EXCEPT !.status = "failed"] ELSE client[v]]
        /\ UNCHANGED <<disk, grants, late, failures>>

Next ==
    \/ \E t \in vote_tasks : SendRequestVote(t)
    \/ \E t \in append_tasks : SendAppendEntries(t)
    \/ \E i \in Node :
           \/ StartElection(i) \/ CheckElection(i) \/ AcquireLease(i)
           \/ SendHeartbeats(i) \/ LeaseTimeout(i) \/ Restart(i)
           \/ \E v \in Value : ServeClientSet(i, v)
    \/ \E m \in vote_requests : HandleRequestVote(m)
    \/ \E r \in vote_replies : ReceiveVote(r)
    \/ \E m \in append_requests : HandleAppendEntries(m)
    \/ \E r \in append_replies : ReceiveAppendReply(r)
    \/ \E v \in Value : ClientWake(v)
    \/ VoteCallFails \/ AppendCallFails

Spec == Init /\ [][Next]_vars
=============================================================================
