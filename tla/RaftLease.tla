------------------------------ MODULE RaftLease ------------------------------
(***************************************************************************)
(* The clock of Assignment_2/raft.py: election, heartbeat and lease        *)
(* timers, the old lease a new leader waits for, and its renewal.  Raft    *)
(* has the logs and no clock; here there are no logs, so whether a voter   *)
(* finds a candidate's log good enough is left open, and an AppendEntries  *)
(* counts the same whether it is accepted or not.                          *)
(*                                                                         *)
(* Time passes in ticks and nothing else takes time; the 0.1 s of an       *)
(* election are less than a tick.  A call ends within CALL_TIMEOUT ticks,  *)
(* and fails only across a link that is cut.                               *)
(***************************************************************************)
EXTENDS Integers, Sequences, FiniteSets, SequencesExt

CONSTANTS
    Node, None,
    HEARTBEAT_INTERVAL, ELECTION_TIMEOUT_MIN, ELECTION_TIMEOUT_MAX, LEASE_DURATION,
    CALL_TIMEOUT,
    Partitions,   \* the sets of links that may be cut together
    MaxTerm,      \* bound: no election is started beyond this term
    MaxCuts       \* bound: how often links are cut

ASSUME ClockAssumption ==
    /\ IsFiniteSet(Node) /\ None \notin Node \cup Nat
    /\ \A links \in Partitions : \A link \in links :
           \E i, j \in Node : i # j /\ link = {i, j}
    /\ {HEARTBEAT_INTERVAL, LEASE_DURATION} \subseteq Nat \ {0}
    /\ {CALL_TIMEOUT, MaxTerm, MaxCuts} \subseteq Nat
    /\ ELECTION_TIMEOUT_MIN \in 1..ELECTION_TIMEOUT_MAX /\ ELECTION_TIMEOUT_MAX \in Nat

VARIABLES
    state, current_term, voted_for, current_leader,
    votes_received,
    old_leader_lease_timeout,
    since_lease_start,         \* time since lease_start_time, LEASE_DURATION at most
    heartbeat_success_count,
    election_timer, heartbeat_timer, lease_timer,
    checks,                    \* check_election_result timers not yet fired
    sleepers,                  \* the time each thread in become_leader still sleeps
    calls,                     \* the RPCs under way, from caller to callee
    cut,                       \* the links that carry nothing
    cuts,
    since_cut,                 \* time since the last cut, up to Patience
    told,                      \* history: what remains of the longest lease a voter told of
    renewed                    \* history: whether a leader has renewed its lease

termVars  == <<current_term, voted_for>>
leaseVars == <<old_leader_lease_timeout, since_lease_start, heartbeat_success_count>>
timerVars == <<election_timer, heartbeat_timer, lease_timer>>
roleVars  == <<state, current_leader, votes_received, timerVars>>
waitVars  == <<checks, sleepers>>
cutVars   == <<cut, cuts, since_cut>>
histVars  == <<told, renewed>>
vars == <<roleVars, termVars, leaseVars, waitVars, calls, cutVars, histVars>>
-----------------------------------------------------------------------------
Others(i) == Node \ {i}
Threshold == Cardinality(Node) \div 2
Max2(a, b) == IF a > b THEN a ELSE b
Min2(a, b) == IF a < b THEN a ELSE b

\* A cut that lasts this long need not be timed further.
Patience == 3 * LEASE_DURATION + HEARTBEAT_INTERVAL + CALL_TIMEOUT

\* threading.Timer: how long ago the timer that can be cancelled was started, None if
\* there is none, and how long ago those were to which the handle is lost.
NoTimer == [age |-> None, lost |-> {}]
Ages(t) == t.lost \cup ({t.age} \ {None})
Started(t) == [age |-> 0, lost |-> Ages(t)]
Cancelled(t) == [t EXCEPT !.age = None]
Restarted(t) == Started(Cancelled(t))
Fired(t, ages) ==
    {u \in {Cancelled(t)} : t.age \in ages}
    \cup {[t EXCEPT !.lost = @ \ {a}] : a \in t.lost \cap ages}
Older(t, max) == [age |-> IF t.age = None THEN None ELSE Min2(max, t.age + 1),
                  lost |-> {Min2(max, a + 1) : a \in t.lost}]

Electing == ELECTION_TIMEOUT_MIN..ELECTION_TIMEOUT_MAX

Init ==
    /\ state = [i \in Node |-> "FOLLOWER"] /\ current_leader = [i \in Node |-> None]
    /\ current_term = [i \in Node |-> 0] /\ voted_for = [i \in Node |-> None]
    /\ votes_received = [i \in Node |-> {}]
    /\ old_leader_lease_timeout = [i \in Node |-> 0]
    /\ since_lease_start = [i \in Node |-> LEASE_DURATION]
    /\ heartbeat_success_count = [i \in Node |-> {}]
    /\ election_timer = [i \in Node |-> Started(NoTimer)]
    /\ heartbeat_timer = [i \in Node |-> NoTimer]
    /\ lease_timer = [i \in Node |-> NoTimer]
    /\ checks = [i \in Node |-> 0] /\ sleepers = [i \in Node |-> <<>>]
    /\ calls = {} /\ cut = {} /\ cuts = 0 /\ since_cut = 0
    /\ told = [i \in Node |-> 0] /\ renewed = [i \in Node |-> FALSE]

\* A call whose answer matters; lease is what the answer to a vote says.
Call(kind, i, j, term) ==
    [kind |-> kind, stage |-> "request", from |-> i, to |-> j,
     term |-> term, lease |-> 0, left |-> CALL_TIMEOUT]
Is(c, kind, stage) ==
    c.kind = kind /\ c.stage = stage /\ {c.from, c.to} \notin cut
Reply(c, lease) == [c EXCEPT !.stage = "reply", !.lease = lease]

-----------------------------------------------------------------------------
\* step_down, called with the lease timer as it is by then.
StepDown(i, lease) ==
    /\ state' = [state EXCEPT ![i] = "FOLLOWER"]
    /\ current_leader' = [current_leader EXCEPT ![i] = None]
    /\ votes_received' = [votes_received EXCEPT ![i] = {}]
    /\ heartbeat_timer' = [heartbeat_timer EXCEPT ![i] = Cancelled(@)]
    /\ lease_timer' = [lease_timer EXCEPT ![i] = Cancelled(lease)]
    /\ election_timer' = [election_timer EXCEPT ![i] = Restarted(@)]

\* (mutant) Every peer has to answer.
AllAnswered(i) == Cardinality(heartbeat_success_count[i]) > Threshold

Answered(i) == Cardinality(heartbeat_success_count[i]) >= Threshold

\* (mutant) The answers that renewed the lease are counted again.
CountedAgain(i) == heartbeat_success_count[i]

AfterRenewal(i) == {}

\* send_heartbeats: the lease is renewed if peers have answered since it last was; a
\* lease timer of age 0 was just started, and lease_start_time set with it.
SendsHeartbeats(i, heartbeat, lease) ==
    /\ calls' = calls \cup {Call("append", i, j, current_term[i]) : j \in Others(i)}
    /\ lease_timer' = [lease_timer EXCEPT ![i] =
                           IF Answered(i) THEN Restarted(lease) ELSE lease]
    /\ since_lease_start' = [since_lease_start EXCEPT ![i] =
                                 IF Answered(i) \/ lease.age = 0 THEN 0 ELSE @]
    /\ heartbeat_success_count' = [heartbeat_success_count EXCEPT ![i] =
                                       IF Answered(i) THEN AfterRenewal(i) ELSE @]
    /\ heartbeat_timer' = [heartbeat_timer EXCEPT ![i] = Started(heartbeat)]
    /\ renewed' = [renewed EXCEPT ![i] = Answered(i) \/ (@ /\ lease.age # 0)]

-----------------------------------------------------------------------------
\* Elections.

StartElection(i) ==
    /\ current_term[i] < MaxTerm
    /\ \E t \in Fired(election_timer[i], Electing) :
           election_timer' = [election_timer EXCEPT ![i] = t]
    /\ state' = [state EXCEPT ![i] = "CANDIDATE"]
    /\ current_term' = [current_term EXCEPT ![i] = @ + 1]
    /\ voted_for' = [voted_for EXCEPT ![i] = i]
    /\ votes_received' = [votes_received EXCEPT ![i] = {i}]
    /\ calls' = calls \cup {Call("vote", i, j, current_term'[i]) : j \in Others(i)}
    /\ checks' = [checks EXCEPT ![i] = @ + 1]
    /\ told' = [told EXCEPT ![i] = 0]
    /\ UNCHANGED <<current_leader, heartbeat_timer, lease_timer, leaseVars, sleepers,
                   cutVars, renewed>>

\* (mutant) A lease that is over counts as negative.
Unclipped(i) == old_leader_lease_timeout[i] - since_lease_start[i]

\* What is left, says the node, of the lease of the leader it knew.
Remaining(i) == Max2(0, old_leader_lease_timeout[i] - since_lease_start[i])

HandleRequestVote(c) ==
    LET i == c.to
        newer == c.term > current_term[i]
        free == newer \/ (c.term = current_term[i] /\ voted_for[i] \in {None, c.from})
    IN  /\ Is(c, "vote", "request")
        /\ \E log_ok \in BOOLEAN :
               /\ voted_for' = [voted_for EXCEPT ![i] =
                      CASE free /\ log_ok -> c.from [] newer -> None [] OTHER -> @]
               /\ calls' = (calls \ {c}) \cup
                      {r \in {Reply(c, Remaining(i))} : free /\ log_ok}
        /\ current_term' = [current_term EXCEPT ![i] = Max2(@, c.term)]
        /\ IF newer THEN StepDown(i, lease_timer[i]) ELSE UNCHANGED roleVars
        /\ UNCHANGED <<leaseVars, waitVars, cutVars, histVars>>

\* The vote is counted, and what the voter knows of the old lease kept; what the
\* candidate knows itself is what it was told before, less the time since its own
\* lease_start_time.
ReceiveVote(c) ==
    LET i == c.from
    IN  /\ Is(c, "vote", "reply") /\ calls' = calls \ {c}
        /\ votes_received' = [votes_received EXCEPT ![i] = @ \cup {c.to}]
        /\ old_leader_lease_timeout' =
               [old_leader_lease_timeout EXCEPT ![i] = Max2(Remaining(i), c.lease)]
        /\ told' = [told EXCEPT ![i] = IF state[i] = "CANDIDATE" THEN Max2(@, c.lease) ELSE @]
        /\ UNCHANGED <<state, current_leader, timerVars, termVars, since_lease_start,
                       heartbeat_success_count, waitVars, cutVars, renewed>>

\* (mutant) The new leader does not wait.
NoWait(i) == 0

LeaseWait(i) == old_leader_lease_timeout[i]

\* check_election_result, and become_leader up to its sleep.
CheckElection(i) ==
    /\ checks[i] > 0 /\ checks' = [checks EXCEPT ![i] = @ - 1]
    /\ IF Cardinality(votes_received[i]) >= Threshold + 1
       THEN /\ state' = [state EXCEPT ![i] = "LEADER"]
            /\ current_leader' = [current_leader EXCEPT ![i] = i]
            /\ votes_received' = [votes_received EXCEPT ![i] = {}]
            /\ election_timer' = [election_timer EXCEPT ![i] = Cancelled(@)]
            /\ heartbeat_timer' = [heartbeat_timer EXCEPT ![i] = Cancelled(@)]
            /\ lease_timer' = [lease_timer EXCEPT ![i] = Cancelled(@)]
            /\ sleepers' = [sleepers EXCEPT ![i] = Append(@, LeaseWait(i))]
       ELSE /\ election_timer' = [election_timer EXCEPT ![i] = Started(@)]
            /\ UNCHANGED <<state, current_leader, votes_received, heartbeat_timer,
                           lease_timer, sleepers>>
    /\ UNCHANGED <<termVars, leaseVars, calls, cutVars, histVars>>

\* The rest of become_leader, whatever the node is by now.
AcquireLease(i) ==
    /\ \E k \in DOMAIN sleepers[i] :
           /\ sleepers[i][k] = 0
           /\ sleepers' = [sleepers EXCEPT ![i] = RemoveAt(@, k)]
    /\ SendsHeartbeats(i, heartbeat_timer[i], Started(lease_timer[i]))
    /\ UNCHANGED <<state, current_leader, votes_received, election_timer, termVars,
                   old_leader_lease_timeout, checks, cutVars, told>>

\* The lease timer fires.
LeaseTimeout(i) ==
    /\ \E t \in Fired(lease_timer[i], {LEASE_DURATION}) : StepDown(i, t)
    /\ UNCHANGED <<termVars, leaseVars, waitVars, calls, cutVars, histVars>>

-----------------------------------------------------------------------------
\* Heartbeats.

SendHeartbeats(i) ==
    /\ \E t \in Fired(heartbeat_timer[i], {HEARTBEAT_INTERVAL}) :
           SendsHeartbeats(i, t, lease_timer[i])
    /\ UNCHANGED <<state, current_leader, votes_received, election_timer, termVars,
                   old_leader_lease_timeout, waitVars, cutVars, told>>

HandleAppendEntries(c) ==
    LET i == c.to
        newer == c.term > current_term[i]
        current == c.term >= current_term[i]
    IN  /\ Is(c, "append", "request")
        /\ current_term' = [current_term EXCEPT ![i] = Max2(@, c.term)]
        /\ voted_for' = [voted_for EXCEPT ![i] = IF newer THEN None ELSE @]
        /\ IF current
           THEN /\ state' = [state EXCEPT ![i] = "FOLLOWER"]
                /\ current_leader' = [current_leader EXCEPT ![i] = c.from]
                /\ election_timer' = [election_timer EXCEPT ![i] = Restarted(@)]
                /\ old_leader_lease_timeout' =
                       [old_leader_lease_timeout EXCEPT ![i] = LEASE_DURATION]
                /\ since_lease_start' = [since_lease_start EXCEPT ![i] = 0]
           ELSE UNCHANGED <<state, current_leader, election_timer,
                            old_leader_lease_timeout, since_lease_start>>
        /\ IF newer
           THEN /\ votes_received' = [votes_received EXCEPT ![i] = {}]
                /\ heartbeat_timer' = [heartbeat_timer EXCEPT ![i] = Cancelled(@)]
                /\ lease_timer' = [lease_timer EXCEPT ![i] = Cancelled(@)]
           ELSE UNCHANGED <<votes_received, heartbeat_timer, lease_timer>>
        /\ calls' = (calls \ {c}) \cup {Reply(c, 0)}
        /\ UNCHANGED <<heartbeat_success_count, waitVars, cutVars, histVars>>

\* An answer, also one that refuses the entries or tells of a newer term, counts.
ReceiveAppendReply(c) ==
    /\ Is(c, "append", "reply") /\ calls' = calls \ {c}
    /\ heartbeat_success_count' =
           [heartbeat_success_count EXCEPT ![c.from] = @ \cup {c.to}]
    /\ UNCHANGED <<roleVars, termVars, old_leader_lease_timeout, since_lease_start,
                   waitVars, cutVars, histVars>>

\* A call across a link that is cut ends in grpc.RpcError.
CallFails(c) ==
    /\ {c.from, c.to} \in cut /\ c.left = 0 /\ calls' = calls \ {c}
    /\ UNCHANGED <<roleVars, termVars, leaseVars, waitVars, cutVars, histVars>>

-----------------------------------------------------------------------------
\* The links and the clock.

Cut(links) ==
    /\ cut = {} /\ cuts < MaxCuts /\ cuts' = cuts + 1
    /\ cut' = links /\ since_cut' = 0
    /\ UNCHANGED <<roleVars, termVars, leaseVars, waitVars, calls, histVars>>

Heal ==
    /\ cut # {} /\ cut' = {} /\ since_cut' = 0
    /\ UNCHANGED <<roleVars, termVars, leaseVars, waitVars, calls, cuts, histVars>>

\* Nothing that is due is left to do; past the bound on terms nobody runs for election.
MayPass ==
    /\ \A c \in calls : c.left > 0
    /\ \A i \in Node :
           /\ checks[i] = 0 /\ 0 \notin ToSet(sleepers[i])
           /\ \A a \in Ages(election_timer[i]) :
                  a < ELECTION_TIMEOUT_MAX \/ current_term[i] = MaxTerm
           /\ HEARTBEAT_INTERVAL \notin Ages(heartbeat_timer[i])
           /\ LEASE_DURATION \notin Ages(lease_timer[i])

Tick ==
    /\ MayPass
    /\ calls' = {[c EXCEPT !.left = @ - 1] : c \in calls}
    /\ sleepers' = [i \in Node |-> [k \in DOMAIN sleepers[i] |-> sleepers[i][k] - 1]]
    /\ election_timer' = [i \in Node |-> Older(election_timer[i], ELECTION_TIMEOUT_MAX)]
    /\ heartbeat_timer' = [i \in Node |-> Older(heartbeat_timer[i], HEARTBEAT_INTERVAL)]
    /\ lease_timer' = [i \in Node |-> Older(lease_timer[i], LEASE_DURATION)]
    /\ since_lease_start' = [i \in Node |-> Min2(LEASE_DURATION, since_lease_start[i] + 1)]
    /\ since_cut' = IF cut = {} THEN 0 ELSE Min2(Patience, since_cut + 1)
    /\ told' = [i \in Node |-> Max2(0, told[i] - 1)]
    /\ UNCHANGED <<state, current_leader, votes_received, termVars,
                   old_leader_lease_timeout, heartbeat_success_count, checks, cut, cuts,
                   renewed>>

Next ==
    \/ \E i \in Node : \/ StartElection(i) \/ CheckElection(i) \/ AcquireLease(i)
                       \/ LeaseTimeout(i) \/ SendHeartbeats(i)
    \/ \E c \in calls : \/ HandleRequestVote(c) \/ ReceiveVote(c) \/ CallFails(c)
                        \/ HandleAppendEntries(c) \/ ReceiveAppendReply(c)
    \/ \E links \in Partitions : Cut(links)
    \/ Heal \/ Tick

Spec == Init /\ [][Next]_vars
=============================================================================
