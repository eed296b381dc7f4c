--------------------------- MODULE RaftProperties ---------------------------
(***************************************************************************)
(* What the nodes of Raft promise each other and their clients.            *)
(***************************************************************************)
EXTENDS Raft

Majority(S) == 2 * Cardinality(S) > Cardinality(Node)

\* The parts of the type invariant: each node's memory, timers and threads, ...
NodeTypeOK ==
    /\ state \in [Node -> State]
    /\ current_term \in [Node -> Nat]
    /\ voted_for \in [Node -> Vote]
    /\ log \in [Node -> Seq(Entry)]
    /\ commit_length \in [Node -> Nat]
    /\ data_store \in [Node -> Value \cup {None}]
    /\ votes_received \in [Node -> SUBSET Node]
    /\ sent_length \in [Node -> [Node -> Nat]]
    /\ acked_length \in [Node -> [Node -> Nat]]
    /\ heartbeat_success_count \in [Node -> SUBSET Node]
TimerTypeOK ==
    /\ election_timer \in [Node -> Timer]
    /\ heartbeat_timer \in [Node -> Timer]
    /\ lease_timer \in [Node -> Timer]
    /\ checks \in [Node -> Nat]
    /\ leader_waits \in [Node -> Nat]
\* ... its files, ...
File == [log : Seq(Entry), term : Nat, commit : Nat,
         voted : {Text(n) : n \in Node} \cup {None}]
DiskTypeOK == disk \in [Node -> File]
\* ... the calls under way, ...
VoteTask == [from : Node, to : Node, round : Nat, last_term : Nat]
VoteRequest == [from : Node, to : Node, round : Nat, live : BOOLEAN, term : Nat,
                last_log_index : Nat, last_log_term : Nat]
VoteReply == [from : Node, to : Node, round : Nat]
AppendTask == [from : Node, to : Node, slot : 1..MaxCalls]
AppendRequest == [from : Node, to : Node, slot : 0..MaxCalls, live : BOOLEAN,
                  term : Nat, prev : Nat, prev_term : Nat, entries : Seq(Entry),
                  commit : Nat]
AppendReply == [from : Node, to : Node, slot : 0..MaxCalls, term : Nat,
                success : BOOLEAN, upto : Nat]
CallTypeOK ==
    /\ vote_tasks \subseteq VoteTask
    /\ vote_requests \subseteq VoteRequest
    /\ vote_replies \subseteq VoteReply
    /\ append_tasks \subseteq AppendTask
    /\ append_requests \subseteq AppendRequest
    /\ append_replies \subseteq AppendReply
\* ... and the clients, the votes and the counters.
OtherTypeOK ==
    /\ client \in [Value -> [status : {"new", "waiting", "ok", "failed"},
                             node : Node \cup {None}, term : Nat]]
    /\ \A v \in Value : client[v].status = "waiting" => client[v].node \in Node
    /\ grants \subseteq [voter : Node, candidate : Node, term : Nat]
    /\ late \subseteq {"vote", "lead", "ack"}
    /\ failures \in Nat /\ crashes \in Nat

\* The type invariant: every variable keeps the shape raft.py gives it; no length
\* a leader keeps for a peer is negative, and no thread waits on a node unknown.
TypeOK == NodeTypeOK /\ TimerTypeOK /\ DiskTypeOK /\ CallTypeOK /\ OtherTypeOK

-----------------------------------------------------------------------------
(* Whatever the timing. *)

\* RequestVote, start_election and load_state together: a node never votes for
\* two candidates in one term, not even across a crash and a restart.
OneVotePerTerm ==
    \A g, h \in grants :
        g.voter = h.voter /\ g.term = h.term => g.candidate = h.candidate

\* Why: a node's file agrees with its memory between two handlers, and the vote
\* of its current term is in memory, or was read back as text.
AsText(v) == IF v \in Node THEN Text(v) ELSE v
DiskInv ==
    \A i \in Node : /\ disk[i].term = current_term[i]
                    /\ disk[i].commit = commit_length[i]
                    /\ disk[i].voted = AsText(voted_for[i])
GrantInv ==
    \A g \in grants :
        /\ g.term <= current_term[g.voter]
        /\ g.term = current_term[g.voter]
           => voted_for[g.voter] \in {g.candidate, Text(g.candidate)}
VoteInv == DiskInv /\ GrantInv /\ OneVotePerTerm

\* The nodes that voted for candidate i in term t.
Electors(i, t) == {n \in Node : [voter |-> n, candidate |-> i, term |-> t] \in grants}

\* No two candidates get the votes of a majority in one term.
OneElectorate ==
    \A g, h \in grants :
        /\ g.term = h.term
        /\ Majority(Electors(g.candidate, g.term))
        /\ Majority(Electors(h.candidate, h.term))
        => g.candidate = h.candidate

\* A node's term never falls, not even by a restart.
TermsNeverFall == [][\A i \in Node : current_term'[i] >= current_term[i]]_vars

\* Nor does the number of entries it has committed.
CommitNeverFalls == [][\A i \in Node : commit_length'[i] >= commit_length[i]]_vars

\* A node is never left without anything that will wake it, so that it could only
\* wait to be called: a timer, the check of an election, or a thread in become_leader.
NeverStranded ==
    \A i \in Node : \/ election_timer[i].armed \/ election_timer[i].orphans > 0
                    \/ checks[i] > 0 \/ leader_waits[i] > 0
                    \/ lease_timer[i].armed \/ lease_timer[i].orphans > 0
                    \/ heartbeat_timer[i].armed \/ heartbeat_timer[i].orphans > 0

-----------------------------------------------------------------------------
(* What the code keeps as long as nothing is done late.  "vote", "lead" and "ack" in *)
(* late are the three things raft.py does without asking for whom: a vote asked for, *)
(* or counted, by a node that is past that election; a NO-OP appended or log sent by *)
(* a node that leads no more; an acknowledgement counted in another term.            *)

\* At most one node is the LEADER of a term, unless a vote came too late.
ElectionSafety ==
    "vote" \notin late =>
    \A i, j \in Node :
        state[i] = "LEADER" /\ state[j] = "LEADER" /\ current_term[i] = current_term[j]
        => i = j

\* A LEADER has the votes of a majority for the term it is in.
LeaderIsElected ==
    \A i \in Node : state[i] = "LEADER" => Majority(Electors(i, current_term[i]))

\* If two logs agree on the term at an index they agree up to it: late acknowledgements
\* do no harm, but a NO-OP of a node that was deposed in its sleep does.
LogMatching ==
    late \subseteq {"ack"} =>
    \A i, j \in Node : \A k \in 1..Min2(Len(log[i]), Len(log[j])) :
        log[i][k].term = log[j][k].term => SubSeq(log[i], 1, k) = SubSeq(log[j], 1, k)

\* Two nodes that both committed an index committed the same entry there.
StateMachineSafety ==
    late = {} =>
    \A i, j \in Node : \A k \in 1..Min2(commit_length[i], commit_length[j]) :
        k <= Len(log[i]) /\ k <= Len(log[j]) /\ log[i][k] = log[j][k]

\* A SET the client was told succeeded is on the disks of a majority.
AckedDurable ==
    late = {} =>
    \A v \in Value : client[v].status = "ok" =>
        Majority({n \in Node : \E k \in 1..Len(disk[n].log) :
                     disk[n].log[k] = [term |-> client[v].term, value |-> v]})

\* data_store is what applying the committed prefix of the log gives: no entry
\* is skipped, applied twice out of order, or lost by a restart.
StoreIsAppliedPrefix ==
    late = {} =>
    \A i \in Node :
        LET sets == {k \in 1..Min2(commit_length[i], Len(log[i])) : log[i][k].value # None}
        IN  /\ sets = {} => data_store[i] = None
            /\ \A k \in sets : (\A m \in sets : m <= k) => data_store[i] = log[i][k].value

\* A GET served at once sees every SET that was answered before it.
FreshReads ==
    \A i \in Node : ServesGet(i) =>
        \A v \in Value : client[v].status = "ok" =>
            \E k \in 1..commit_length[i] : k <= Len(log[i]) /\ log[i][k].value = v

-----------------------------------------------------------------------------
(* The abstract log: what the node furthest ahead has committed. *)

Decided ==
    LET i == CHOOSE n \in Node : \A j \in Node : commit_length[j] <= commit_length[n]
    IN  SubSeq(log[i], 1, commit_length[i])
Answered == {v \in Value : client[v].status = "ok"}

Cluster == INSTANCE ReplicatedLog WITH
               decided <- Decided, answered <- Answered, kept <- (late = {})

\* Elections, replication, commitment and ServeClient together implement the one
\* append-only log of ReplicatedLog: until something is done late nothing committed
\* anywhere is ever replaced, and no SET is answered with success before it is in
\* that log.
ImplementsReplicatedLog == Cluster!Spec
=============================================================================
