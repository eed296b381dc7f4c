------------------------------ MODULE MCRaft ------------------------------
(* Small instances of Raft for TLC. *)
EXTENDS RaftProperties, TLC

\* Everything but the history of votes, which no action reads.
WithoutGrants == <<roleVars, durableVars, data_store, heartbeat_success_count, checks,
                   leader_waits, electionRpc, appendRpc, client, late, faultVars>>

\* Everything but the history of what was late, for properties that do not read it.
WithoutLate == <<roleVars, durableVars, data_store, heartbeat_success_count, checks,
                 leader_waits, electionRpc, appendRpc, client, grants, faultVars>>

\* bound: no further once something was done late, for properties that say nothing then
Timely == late = {}

AppendCalls == Cardinality(append_tasks) + Cardinality(append_requests)
                   + Cardinality(append_replies)

\* bound: the AppendEntries under way at a time, of all nodes
FewCalls == AppendCalls <= 3

\* bound: once a node has crashed, two AppendEntries at a time and one candidate
AfterCrash ==
    crashes > 0 => /\ AppendCalls <= 2
                   /\ Cardinality({i \in Node : Standing(i)}) <= 1

Symmetry == Permutations(Node)
=============================================================================
