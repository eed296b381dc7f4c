------------------------- MODULE RaftLeaseProperties -------------------------
(***************************************************************************)
(* What the leases of RaftLease promise.                                   *)
(***************************************************************************)
EXTENDS RaftLease

Links == {{i, j} : i, j \in Node} \ {{i} : i \in Node}

\* The node acts as leader with a lease of its own.
HoldsLease(i) == state[i] = "LEADER" /\ lease_timer[i].age # None

\* The node reaches no other.
Isolated(i) == \A j \in Others(i) : {i, j} \in cut

Timer(max) == [age : 0..max \cup {None}, lost : SUBSET (0..max)]

\* The type invariant: no lease, wait or timer is longer than the code's constants, and
\* none is negative.
TypeOK ==
    /\ state \in [Node -> {"FOLLOWER", "CANDIDATE", "LEADER"}]
    /\ current_term \in [Node -> 0..MaxTerm]
    /\ voted_for \in [Node -> Node \cup {None}]
    /\ current_leader \in [Node -> Node \cup {None}]
    /\ votes_received \in [Node -> SUBSET Node]
    /\ old_leader_lease_timeout \in [Node -> 0..LEASE_DURATION]
    /\ since_lease_start \in [Node -> 0..LEASE_DURATION]
    /\ heartbeat_success_count \in [Node -> SUBSET Node]
    /\ election_timer \in [Node -> Timer(ELECTION_TIMEOUT_MAX)]
    /\ heartbeat_timer \in [Node -> Timer(HEARTBEAT_INTERVAL)]
    /\ lease_timer \in [Node -> Timer(LEASE_DURATION)]
    /\ checks \in [Node -> Nat] /\ sleepers \in [Node -> Seq(0..LEASE_DURATION)]
    /\ \A c \in calls : c.left \in 0..CALL_TIMEOUT /\ c.from # c.to
    /\ told \in [Node -> 0..LEASE_DURATION] /\ renewed \in [Node -> BOOLEAN]
    /\ cut \subseteq Links /\ cuts \in 0..MaxCuts /\ since_cut \in 0..Patience

\* While no link was ever cut, no two leases of different terms are held at once.
NoneOverlap ==
    MayPass /\ cuts = 0 => \A i, j \in Node :
        HoldsLease(i) /\ HoldsLease(j) => current_term[i] = current_term[j]

\* After one cut, the lease of a leader of the first term that is cut off outlives the one the
\* leader of the second waited for by two heartbeats at most, because answers are counted at
\* the next heartbeat only, and one may be a refusal; a lease that never was renewed may be
\* unknown to the voters, whose timers then bound it.  (In later terms a whole lease may
\* overlap: README.)
OverlapBounded ==
    /\ NoneOverlap
    /\ MayPass /\ cuts = 1 => \A i, j \in Node :
           HoldsLease(i) /\ Isolated(i) /\ current_term[i] = 1
           /\ HoldsLease(j) /\ current_term[j] = 2
           => LEASE_DURATION - lease_timer[i].age
                  <= IF renewed[i] THEN 2 * HEARTBEAT_INTERVAL
                     ELSE LEASE_DURATION - ELECTION_TIMEOUT_MIN

\* A leader that reaches nobody renews its lease at most once more, when it has waited for
\* the old one or at its next heartbeat, and steps down when that one is over: no answer
\* is counted for two renewals.  (What it remembers of the old lease may be less than it
\* waits for: README.)
DeposedInTime ==
    \A i \in Node : Isolated(i) /\ state[i] = "LEADER"
        => since_cut <= LEASE_DURATION + Max2(LEASE_DURATION, HEARTBEAT_INTERVAL)

\* A lease never runs out on a node because another one is cut off: the answers of a
\* majority are enough, and come in time.  A node that is elected again while it sleeps starts
\* two lease timers and loses the handle of one, which is not spoken of: it runs out however
\* often the lease is renewed (README).
LeaseKept ==
    [][\A i \in Node : LeaseTimeout(i) /\ lease_timer[i].lost = {}
           => cuts > 0 /\ (cut = {} \/ Isolated(i))]_vars

\* What src/Assignment_2/README.md:21 says of a new leader: it waits out the longest of the
\* leases its voters told it of.  The newest wait of a leader is the one of its election.
WaitsOutLongest ==
    \A i \in Node : state[i] = "LEADER" /\ sleepers[i] # <<>>
        => Last(sleepers[i]) >= told[i]
=============================================================================
