--------------------------- MODULE RaftLeaseProofs ---------------------------
(***************************************************************************)
(* Proofs about RaftLease for every set of nodes, every length of the      *)
(* timers, and all ways of cutting links.                                  *)
(***************************************************************************)
EXTENDS RaftLeaseProperties, FiniteSetTheorems, SequenceTheorems, TLAPS
-----------------------------------------------------------------------------
(* Timers and sequences. *)

LEMMA TimerTypes ==
    ASSUME NEW max \in Nat, NEW t \in Timer(max)
    PROVE  /\ t.age \in 0..max \cup {None} /\ t.lost \in SUBSET (0..max)
           /\ Ages(t) \in SUBSET (0..max)
           /\ Started(t) \in Timer(max) /\ Started(t).age = 0
           /\ Cancelled(t) \in Timer(max) /\ Cancelled(t).age = None
           /\ Restarted(t) \in Timer(max) /\ Restarted(t).age = 0
           /\ Older(t, max) \in Timer(max)
           /\ \A ages : Fired(t, ages) \subseteq Timer(max)
  <1>1. t.age \in 0..max \cup {None} /\ t.lost \in SUBSET (0..max)
    BY DEF Timer
  <1>2. \A u \in Timer(max) : Ages(u) \in SUBSET (0..max)
    BY DEF Ages, Timer
  <1>3. \A u \in Timer(max) : Started(u) \in Timer(max) /\ Started(u).age = 0
    BY <1>2 DEF Started, Timer
  <1>4. Cancelled(t) \in Timer(max) /\ Cancelled(t).age = None
    BY DEF Cancelled, Timer
  <1>5. Restarted(t) \in Timer(max) /\ Restarted(t).age = 0
    BY <1>3, <1>4 DEF Restarted
  <1>6. Older(t, max) \in Timer(max)
    <2>1. \A a \in 0..max : Min2(max, a + 1) \in 0..max
      BY DEF Min2
    <2>2. (IF t.age = None THEN None ELSE Min2(max, t.age + 1)) \in 0..max \cup {None}
      BY <1>1, <2>1
    <2>3. {Min2(max, a + 1) : a \in t.lost} \in SUBSET (0..max)
      BY <1>1, <2>1
    <2> QED BY <2>2, <2>3 DEF Older, Timer
  <1>7. ASSUME NEW ages PROVE Fired(t, ages) \subseteq Timer(max)
    <2>1. \A a : [t EXCEPT !.lost = @ \ {a}] \in Timer(max)
      BY DEF Timer
    <2> QED BY <1>4, <2>1 DEF Fired
  <1> QED BY <1>1, <1>2, <1>3, <1>4, <1>5, <1>6, <1>7

\* What is removed is one element, and the others stay in the set.
LEMMA RemovedType ==
    ASSUME NEW S, NEW s \in Seq(S), NEW k \in DOMAIN s
    PROVE  RemoveAt(s, k) \in Seq(S)
  <1>1. Len(s) \in Nat /\ k \in 1..Len(s) /\ \A n \in 1..Len(s) : s[n] \in S
    BY LenProperties, ElementOfSeq
  <1>2. PICK one : one = 1
    OBVIOUS
  <1>3. SubSeq(s, one, k - 1) \in Seq(S)
    <2>1. one \in Int /\ k - 1 \in Int /\ \A n \in one..(k - 1) : s[n] \in S
      BY <1>1, <1>2
    <2> QED BY <2>1, SubSeqProperties
  <1>4. SubSeq(s, k + 1, Len(s)) \in Seq(S)
    <2>1. k + 1 \in Int /\ Len(s) \in Int /\ \A n \in (k + 1)..Len(s) : s[n] \in S
      BY <1>1
    <2> QED BY <2>1, SubSeqProperties
  <1> QED BY <1>2, <1>3, <1>4, ConcatProperties DEF RemoveAt

\* The clock takes one from every element.
LEMMA ShiftedType ==
    ASSUME NEW n \in Int, NEW s \in Seq(0..n), 0 \notin ToSet(s)
    PROVE  [k \in DOMAIN s |-> s[k] - 1] \in Seq(0..(n - 1))
  <1>1. PICK l \in Nat : l = Len(s) /\ DOMAIN s = 1..l
    BY LenProperties
  <1>2. \A k \in 1..l : s[k] \in 0..n /\ s[k] # 0
    BY <1>1, ElementOfSeq DEF ToSet
  <1>3. [k \in 1..l |-> s[k] - 1] \in [1..l -> 0..(n - 1)]
    BY <1>2
  <1> QED BY <1>1, <1>3

\* One more wait.
LEMMA OneMoreWait ==
    ASSUME NEW S, NEW s \in Seq(S), NEW e \in S
    PROVE  Append(s, e) \in Seq(S) /\ Append(s, e) # <<>>
  BY AppendProperties
-----------------------------------------------------------------------------
(* Types. *)

CallType == [kind : {"vote", "append"}, stage : {"request", "reply"}, from : Node, to : Node,
             term : 0..MaxTerm, lease : 0..LEASE_DURATION, left : 0..CALL_TIMEOUT]

RoleTypes ==
    /\ state \in [Node -> {"FOLLOWER", "CANDIDATE", "LEADER"}]
    /\ current_leader \in [Node -> Node \cup {None}]
    /\ votes_received \in [Node -> SUBSET Node]
TermTypes ==
    /\ current_term \in [Node -> 0..MaxTerm]
    /\ voted_for \in [Node -> Node \cup {None}]
TimerTypesOK ==
    /\ election_timer \in [Node -> Timer(ELECTION_TIMEOUT_MAX)]
    /\ heartbeat_timer \in [Node -> Timer(HEARTBEAT_INTERVAL)]
    /\ lease_timer \in [Node -> Timer(LEASE_DURATION)]
LeaseTypes ==
    /\ old_leader_lease_timeout \in [Node -> 0..LEASE_DURATION]
    /\ since_lease_start \in [Node -> 0..LEASE_DURATION]
    /\ heartbeat_success_count \in [Node -> SUBSET Node]
WaitTypes == checks \in [Node -> Nat] /\ sleepers \in [Node -> Seq(0..LEASE_DURATION)]
CallTypes == \A c \in calls : c \in CallType /\ c.from # c.to
CutTypes ==
    /\ \A link \in cut : \E i, j \in Node : i # j /\ link = {i, j}
    /\ cuts \in 0..MaxCuts /\ since_cut \in 0..Patience
HistTypes == told \in [Node -> 0..LEASE_DURATION] /\ renewed \in [Node -> BOOLEAN]

Types == /\ RoleTypes /\ TermTypes /\ TimerTypesOK /\ LeaseTypes /\ WaitTypes
         /\ CallTypes /\ CutTypes /\ HistTypes

LEMMA ConstantTypes ==
    /\ HEARTBEAT_INTERVAL \in Nat \ {0} /\ LEASE_DURATION \in Nat \ {0}
    /\ CALL_TIMEOUT \in Nat /\ MaxTerm \in Nat /\ MaxCuts \in Nat
    /\ ELECTION_TIMEOUT_MIN \in Nat /\ ELECTION_TIMEOUT_MAX \in Nat
    /\ Patience \in Nat /\ None \notin Nat /\ None \notin Node
  BY ClockAssumption DEF Patience

LEMMA RemainingType ==
    ASSUME Types, NEW i \in Node
    PROVE  Remaining(i) \in 0..LEASE_DURATION
  <1>1. /\ old_leader_lease_timeout[i] \in 0..LEASE_DURATION
        /\ since_lease_start[i] \in 0..LEASE_DURATION /\ LEASE_DURATION \in Nat
    BY ConstantTypes DEF Types, LeaseTypes
  <1> QED BY <1>1 DEF Remaining, Max2

\* A new call, and the answer to one.
LEMMA CallIs ==
    ASSUME NEW kind \in {"vote", "append"}, NEW i \in Node, NEW j \in Others(i),
           NEW term \in 0..MaxTerm
    PROVE  Call(kind, i, j, term) \in CallType /\ Call(kind, i, j, term).from = i
           /\ Call(kind, i, j, term).to = j /\ i # j
  BY ConstantTypes DEF Call, CallType, Others

LEMMA ReplyIs ==
    ASSUME NEW c \in CallType, NEW lease \in 0..LEASE_DURATION
    PROVE  /\ Reply(c, lease) \in CallType
           /\ Reply(c, lease).from = c.from /\ Reply(c, lease).to = c.to
  BY DEF Reply, CallType

\* The node of step_down, and all others.
LEMMA StepDownTypes ==
    ASSUME Types, NEW i \in Node, NEW t \in Timer(LEASE_DURATION), StepDown(i, t)
    PROVE  RoleTypes' /\ TimerTypesOK'
  <1>1. RoleTypes'
    BY DEF StepDown, Types, RoleTypes
  <1>2. /\ Cancelled(heartbeat_timer[i]) \in Timer(HEARTBEAT_INTERVAL)
        /\ Cancelled(t) \in Timer(LEASE_DURATION)
        /\ Restarted(election_timer[i]) \in Timer(ELECTION_TIMEOUT_MAX)
    BY ConstantTypes, TimerTypes DEF Types, TimerTypesOK
  <1>3. TimerTypesOK'
    BY <1>2 DEF StepDown, Types, TimerTypesOK
  <1> QED BY <1>1, <1>3

\* send_heartbeats, by a node with these two timers.
LEMMA HeartbeatTypes ==
    ASSUME Types, NEW i \in Node, NEW h \in Timer(HEARTBEAT_INTERVAL),
           NEW l \in Timer(LEASE_DURATION), SendsHeartbeats(i, h, l),
           UNCHANGED <<election_timer, old_leader_lease_timeout, told>>
    PROVE  TimerTypesOK' /\ LeaseTypes' /\ CallTypes' /\ HistTypes'
  <1>1. Restarted(l) \in Timer(LEASE_DURATION) /\ Started(h) \in Timer(HEARTBEAT_INTERVAL)
    BY ConstantTypes, TimerTypes
  <1>2. TimerTypesOK'
    <2>1. (IF Answered(i) THEN Restarted(l) ELSE l) \in Timer(LEASE_DURATION)
      BY <1>1
    <2> QED BY <1>1, <2>1 DEF SendsHeartbeats, Types, TimerTypesOK
  <1>3. LeaseTypes'
    <2>1. 0 \in 0..LEASE_DURATION
      BY ConstantTypes
    <2>2. since_lease_start' \in [Node -> 0..LEASE_DURATION]
      BY <2>1 DEF SendsHeartbeats, Types, LeaseTypes
    <2>3. heartbeat_success_count' \in [Node -> SUBSET Node]
      BY DEF SendsHeartbeats, AfterRenewal, Types, LeaseTypes
    <2> QED BY <2>2, <2>3 DEF Types, LeaseTypes
  <1>4. CallTypes'
    <2>1. \A j \in Others(i) : LET c == Call("append", i, j, current_term[i]) IN
              c \in CallType /\ c.from # c.to
      BY CallIs DEF Types, TermTypes
    <2> QED BY <2>1 DEF SendsHeartbeats, Types, CallTypes
  <1>5. HistTypes'
    BY DEF SendsHeartbeats, Types, HistTypes, Answered
  <1> QED BY <1>2, <1>3, <1>4, <1>5

-----------------------------------------------------------------------------
(* Every state has the types of Types. *)

LEMMA TypesInit == Init => Types
  <1> SUFFICES ASSUME Init PROVE Types
    OBVIOUS
  <1>1. 0 \in 0..MaxTerm /\ 0 \in 0..LEASE_DURATION /\ 0 \in 0..MaxCuts /\ 0 \in 0..Patience
        /\ LEASE_DURATION \in 0..LEASE_DURATION
    BY ConstantTypes
  <1>2. RoleTypes /\ TermTypes /\ LeaseTypes /\ CallTypes /\ CutTypes /\ HistTypes
    BY <1>1 DEF Init, RoleTypes, TermTypes, LeaseTypes, CallTypes, CutTypes, HistTypes
  <1>3. WaitTypes
    BY DEF Init, WaitTypes
  <1>4. \A max \in Nat : NoTimer \in Timer(max)
    BY DEF NoTimer, Timer
  <1>5. TimerTypesOK
    <2>1. Started(NoTimer) \in Timer(ELECTION_TIMEOUT_MAX)
      BY <1>4, ConstantTypes, TimerTypes
    <2> QED BY <1>4, <2>1, ConstantTypes DEF Init, TimerTypesOK
  <1> QED BY <1>2, <1>3, <1>5 DEF Types

LEMMA TypesElection ==
    ASSUME Types, NEW i \in Node, StartElection(i)
    PROVE  Types'
  <1>1. current_term[i] + 1 \in 0..MaxTerm
    BY ConstantTypes DEF StartElection, Types, TermTypes
  <1>2. RoleTypes'
    BY DEF StartElection, Types, RoleTypes
  <1>3. TermTypes'
    BY <1>1 DEF StartElection, Types, TermTypes
  <1>4. TimerTypesOK'
    <2>1. PICK t \in Fired(election_timer[i], Electing) :
              election_timer' = [election_timer EXCEPT ![i] = t]
      BY DEF StartElection
    <2>2. t \in Timer(ELECTION_TIMEOUT_MAX)
      BY ConstantTypes, TimerTypes DEF Types, TimerTypesOK
    <2> QED BY <2>1, <2>2 DEF StartElection, Types, TimerTypesOK
  <1>5. CallTypes'
    <2>1. current_term'[i] = current_term[i] + 1
      BY DEF StartElection, Types, TermTypes
    <2>2. \A j \in Others(i) : LET c == Call("vote", i, j, current_term'[i]) IN
              c \in CallType /\ c.from # c.to
      BY <1>1, <2>1, CallIs
    <2> QED BY <2>2 DEF StartElection, Types, CallTypes
  <1>6. WaitTypes'
    BY DEF StartElection, Types, WaitTypes
  <1>7. LeaseTypes' /\ CutTypes'
    BY DEF StartElection, leaseVars, cutVars, Types, LeaseTypes, CutTypes
  <1>8. HistTypes'
    <2>1. 0 \in 0..LEASE_DURATION
      BY ConstantTypes
    <2> QED BY <2>1 DEF StartElection, Types, HistTypes
  <1> QED BY <1>2, <1>3, <1>4, <1>5, <1>6, <1>7, <1>8 DEF Types

LEMMA TypesRequestVote ==
    ASSUME Types, NEW c \in calls, HandleRequestVote(c)
    PROVE  Types'
  <1>1. c \in CallType /\ c.from # c.to /\ c.to \in Node /\ c.from \in Node
        /\ c.term \in 0..MaxTerm
    BY DEF Types, CallTypes, CallType
  <1>2. PICK i \in Node : i = c.to
    BY <1>1
  <1>3. current_term' = [current_term EXCEPT ![i] = Max2(@, c.term)]
        /\ UNCHANGED <<leaseVars, waitVars, cutVars, histVars>>
        /\ (StepDown(i, lease_timer[i]) \/ UNCHANGED roleVars)
    BY <1>2 DEF HandleRequestVote
  <1>4. \E v \in Node \cup {None, voted_for[i]} : voted_for' = [voted_for EXCEPT ![i] = v]
    <2>1. PICK log_ok \in BOOLEAN :
              LET newer == c.term > current_term[i]
                  free == newer \/ (c.term = current_term[i] /\ voted_for[i] \in {None, c.from})
              IN  voted_for' = [voted_for EXCEPT ![i] =
                      CASE free /\ log_ok -> c.from [] newer -> None [] OTHER -> @]
      BY <1>2 DEF HandleRequestVote
    <2> QED BY <1>1, <2>1
  <1>5. TermTypes'
    <2>1. Max2(current_term[i], c.term) \in 0..MaxTerm
      BY <1>1 DEF Max2, Types, TermTypes
    <2> QED BY <1>3, <1>4, <2>1 DEF Types, TermTypes
  <1>6. RoleTypes' /\ TimerTypesOK'
    <2>1. CASE StepDown(i, lease_timer[i])
      BY <2>1, StepDownTypes DEF Types, TimerTypesOK
    <2>2. CASE UNCHANGED roleVars
      BY <2>2 DEF roleVars, timerVars, Types, RoleTypes, TimerTypesOK
    <2> QED BY <1>3, <2>1, <2>2
  <1>7. CallTypes'
    <2>1. calls' \subseteq calls \cup {Reply(c, Remaining(i))}
      BY <1>2 DEF HandleRequestVote
    <2>2. Reply(c, Remaining(i)) \in CallType
          /\ Reply(c, Remaining(i)).from # Reply(c, Remaining(i)).to
      BY <1>1, RemainingType, ReplyIs
    <2> QED BY <2>1, <2>2 DEF Types, CallTypes
  <1>8. LeaseTypes' /\ WaitTypes' /\ CutTypes' /\ HistTypes'
    BY <1>3 DEF leaseVars, waitVars, cutVars, histVars, Types, LeaseTypes, WaitTypes,
       CutTypes, HistTypes
  <1> QED BY <1>5, <1>6, <1>7, <1>8 DEF Types

LEMMA TypesReceive ==
    ASSUME Types, NEW c \in calls, ReceiveVote(c) \/ ReceiveAppendReply(c) \/ CallFails(c)
    PROVE  Types'
  <1>1. c \in CallType /\ c.to \in Node /\ c.from \in Node /\ c.lease \in 0..LEASE_DURATION
    BY DEF Types, CallTypes, CallType
  <1>2. /\ UNCHANGED <<state, current_leader, timerVars, termVars, since_lease_start, waitVars,
                       cutVars, renewed>>
        /\ calls' \subseteq calls
    BY DEF ReceiveVote, ReceiveAppendReply, CallFails, roleVars, leaseVars, histVars
  <1>3. TermTypes' /\ TimerTypesOK' /\ WaitTypes' /\ CallTypes' /\ CutTypes'
    BY <1>2 DEF timerVars, termVars, waitVars, cutVars, Types, TermTypes, TimerTypesOK,
       WaitTypes, CallTypes, CutTypes
  <1>4. CASE ReceiveVote(c)
    <2>1. PICK i \in Node : i = c.from
      BY <1>1
    <2>2. \A x \in 0..LEASE_DURATION : Max2(x, c.lease) \in 0..LEASE_DURATION
      BY <1>1 DEF Max2
    <2>3. RoleTypes'
      BY <1>1, <1>2, <1>4 DEF ReceiveVote, Types, RoleTypes
    <2>4. LeaseTypes'
      <3>1. Max2(Remaining(i), c.lease) \in 0..LEASE_DURATION
        BY <2>2, RemainingType
      <3> QED BY <1>4, <2>1, <3>1 DEF ReceiveVote, Types, LeaseTypes
    <2>5. HistTypes'
      <3>1. PICK longest \in 0..LEASE_DURATION : longest = told[i]
        BY DEF Types, HistTypes
      <3>2. Max2(longest, c.lease) \in 0..LEASE_DURATION
        BY <1>1, <2>2
      <3>3. told' \in [Node -> 0..LEASE_DURATION]
        BY <1>4, <2>1, <3>1, <3>2 DEF ReceiveVote, Types, HistTypes
      <3> QED BY <1>2, <3>3 DEF Types, HistTypes
    <2> QED BY <1>3, <2>3, <2>4, <2>5 DEF Types
  <1>5. CASE ReceiveAppendReply(c) \/ CallFails(c)
    <2>1. UNCHANGED <<votes_received, old_leader_lease_timeout, told>>
      BY <1>5 DEF ReceiveAppendReply, CallFails, roleVars, leaseVars, histVars
    <2>2. heartbeat_success_count' \in [Node -> SUBSET Node]
      BY <1>1, <1>5 DEF ReceiveAppendReply, CallFails, leaseVars, Types, LeaseTypes
    <2>3. RoleTypes' /\ LeaseTypes' /\ HistTypes'
      BY <1>2, <2>1, <2>2 DEF Types, RoleTypes, LeaseTypes, HistTypes
    <2> QED BY <1>3, <2>3 DEF Types
  <1> QED BY <1>4, <1>5

LEMMA TypesCheck ==
    ASSUME Types, NEW i \in Node, CheckElection(i)
    PROVE  Types'
  <1>1. /\ UNCHANGED <<termVars, leaseVars, calls, cutVars, histVars>>
        /\ checks[i] > 0 /\ checks' = [checks EXCEPT ![i] = @ - 1]
    BY DEF CheckElection
  <1>2. TermTypes' /\ LeaseTypes' /\ CallTypes' /\ CutTypes' /\ HistTypes'
    BY <1>1 DEF termVars, leaseVars, cutVars, histVars, Types, TermTypes, LeaseTypes,
       CallTypes, CutTypes, HistTypes
  <1>3. RoleTypes'
    BY DEF CheckElection, Types, RoleTypes
  <1>4. TimerTypesOK'
    <2>1. /\ Cancelled(election_timer[i]) \in Timer(ELECTION_TIMEOUT_MAX)
          /\ Started(election_timer[i]) \in Timer(ELECTION_TIMEOUT_MAX)
          /\ Cancelled(heartbeat_timer[i]) \in Timer(HEARTBEAT_INTERVAL)
          /\ Cancelled(lease_timer[i]) \in Timer(LEASE_DURATION)
      BY ConstantTypes, TimerTypes DEF Types, TimerTypesOK
    <2> QED BY <2>1 DEF CheckElection, Types, TimerTypesOK
  <1>5. WaitTypes'
    <2>1. checks' \in [Node -> Nat]
      BY <1>1 DEF Types, WaitTypes
    <2>2. Append(sleepers[i], LeaseWait(i)) \in Seq(0..LEASE_DURATION)
      BY OneMoreWait DEF LeaseWait, Types, WaitTypes, LeaseTypes
    <2>3. sleepers' \in [Node -> Seq(0..LEASE_DURATION)]
      BY <2>2 DEF CheckElection, Types, WaitTypes
    <2> QED BY <2>1, <2>3 DEF WaitTypes
  <1> QED BY <1>2, <1>3, <1>4, <1>5 DEF Types

LEMMA TypesHeartbeats ==
    ASSUME Types, NEW i \in Node, AcquireLease(i) \/ SendHeartbeats(i)
    PROVE  Types'
  <1>1. /\ UNCHANGED <<state, current_leader, votes_received, election_timer, termVars,
                       old_leader_lease_timeout, checks, cutVars, told>>
    BY DEF AcquireLease, SendHeartbeats, waitVars
  <1>2. \E h \in Timer(HEARTBEAT_INTERVAL), l \in Timer(LEASE_DURATION) : SendsHeartbeats(i, h, l)
    <2>1. /\ heartbeat_timer[i] \in Timer(HEARTBEAT_INTERVAL)
          /\ lease_timer[i] \in Timer(LEASE_DURATION)
          /\ Started(lease_timer[i]) \in Timer(LEASE_DURATION)
          /\ \A ages : Fired(heartbeat_timer[i], ages) \subseteq Timer(HEARTBEAT_INTERVAL)
      BY ConstantTypes, TimerTypes DEF Types, TimerTypesOK
    <2> QED BY <2>1 DEF AcquireLease, SendHeartbeats
  <1>3. TimerTypesOK' /\ LeaseTypes' /\ CallTypes' /\ HistTypes'
    BY <1>1, <1>2, HeartbeatTypes
  <1>4. RoleTypes' /\ TermTypes' /\ CutTypes'
    BY <1>1 DEF termVars, cutVars, Types, RoleTypes, TermTypes, CutTypes
  <1>5. WaitTypes'
    <2>1. CASE AcquireLease(i)
      <3>1. PICK k \in DOMAIN sleepers[i] : sleepers' = [sleepers EXCEPT ![i] = RemoveAt(@, k)]
        BY <2>1 DEF AcquireLease
      <3>2. RemoveAt(sleepers[i], k) \in Seq(0..LEASE_DURATION)
        BY RemovedType DEF Types, WaitTypes
      <3> QED BY <1>1, <3>1, <3>2 DEF Types, WaitTypes
    <2>2. CASE SendHeartbeats(i)
      BY <2>2 DEF SendHeartbeats, waitVars, Types, WaitTypes
    <2> QED BY <2>1, <2>2
  <1> QED BY <1>3, <1>4, <1>5 DEF Types

LEMMA TypesTimeout ==
    ASSUME Types, NEW i \in Node, LeaseTimeout(i)
    PROVE  Types'
  <1>1. PICK t \in Fired(lease_timer[i], {LEASE_DURATION}) : StepDown(i, t)
    BY DEF LeaseTimeout
  <1>2. t \in Timer(LEASE_DURATION)
    BY ConstantTypes, TimerTypes DEF Types, TimerTypesOK
  <1>3. RoleTypes' /\ TimerTypesOK'
    BY <1>1, <1>2, StepDownTypes
  <1> QED BY <1>3 DEF LeaseTimeout, termVars, leaseVars, waitVars, cutVars, histVars, Types,
       TermTypes, LeaseTypes, WaitTypes, CallTypes, CutTypes, HistTypes

LEMMA TypesAppend ==
    ASSUME Types, NEW c \in calls, HandleAppendEntries(c)
    PROVE  Types'
  <1>1. c \in CallType /\ c.from # c.to /\ c.to \in Node /\ c.from \in Node
        /\ c.term \in 0..MaxTerm
    BY DEF Types, CallTypes, CallType
  <1>2. PICK i \in Node : i = c.to
    BY <1>1
  <1>3. RoleTypes'
    BY <1>1 DEF HandleAppendEntries, Types, RoleTypes
  <1>4. TermTypes'
    <2>1. Max2(current_term[i], c.term) \in 0..MaxTerm
      BY <1>1 DEF Max2, Types, TermTypes
    <2>2. voted_for' \in [Node -> Node \cup {None}]
      BY DEF HandleAppendEntries, Types, TermTypes
    <2> QED BY <1>2, <2>1, <2>2 DEF HandleAppendEntries, Types, TermTypes
  <1>5. TimerTypesOK'
    <2>1. /\ Restarted(election_timer[i]) \in Timer(ELECTION_TIMEOUT_MAX)
          /\ Cancelled(heartbeat_timer[i]) \in Timer(HEARTBEAT_INTERVAL)
          /\ Cancelled(lease_timer[i]) \in Timer(LEASE_DURATION)
      BY ConstantTypes, TimerTypes DEF Types, TimerTypesOK
    <2> QED BY <1>2, <2>1 DEF HandleAppendEntries, Types, TimerTypesOK
  <1>6. LeaseTypes'
    <2>1. 0 \in 0..LEASE_DURATION /\ LEASE_DURATION \in 0..LEASE_DURATION
      BY ConstantTypes
    <2> QED BY <2>1 DEF HandleAppendEntries, Types, LeaseTypes
  <1>7. CallTypes'
    <2>1. 0 \in 0..LEASE_DURATION
      BY ConstantTypes
    <2>2. Reply(c, 0) \in CallType /\ Reply(c, 0).from # Reply(c, 0).to
      BY <1>1, <2>1, ReplyIs
    <2> QED BY <2>2 DEF HandleAppendEntries, Types, CallTypes
  <1>8. WaitTypes' /\ CutTypes' /\ HistTypes'
    BY DEF HandleAppendEntries, waitVars, cutVars, histVars, Types, WaitTypes, CutTypes, HistTypes
  <1> QED BY <1>3, <1>4, <1>5, <1>6, <1>7, <1>8 DEF Types

LEMMA TypesLinks ==
    ASSUME Types, (\E links \in Partitions : Cut(links)) \/ Heal
    PROVE  Types'
  <1>1. UNCHANGED <<roleVars, termVars, leaseVars, waitVars, calls, histVars>>
    BY DEF Cut, Heal
  <1>2. CutTypes'
    <2>1. 0 \in 0..Patience
      BY ConstantTypes
    <2>2. CASE Heal
      BY <2>1, <2>2 DEF Heal, Types, CutTypes
    <2>3. ASSUME NEW links \in Partitions, Cut(links) PROVE CutTypes'
      <3>1. \A link \in cut' : \E i, j \in Node : i # j /\ link = {i, j}
        BY <2>3, ClockAssumption DEF Cut
      <3>2. cuts' \in 0..MaxCuts
        BY <2>3, ConstantTypes DEF Cut, Types, CutTypes
      <3> QED BY <2>1, <2>3, <3>1, <3>2 DEF Cut, CutTypes
    <2> QED BY <2>2, <2>3
  <1> QED BY <1>1, <1>2 DEF roleVars, timerVars, termVars, leaseVars, waitVars, histVars,
       Types, RoleTypes, TermTypes, TimerTypesOK, LeaseTypes, WaitTypes, CallTypes, HistTypes

LEMMA TypesTick == ASSUME Types, Tick PROVE Types'
  <1>1. /\ UNCHANGED <<state, current_leader, votes_received, termVars,
                       old_leader_lease_timeout, heartbeat_success_count, checks, cut, cuts,
                       renewed>>
        /\ MayPass
    BY DEF Tick
  <1>2. RoleTypes' /\ TermTypes'
    BY <1>1 DEF termVars, Types, RoleTypes, TermTypes
  <1>3. TimerTypesOK'
    <2>1. \A i \in Node :
              /\ Older(election_timer[i], ELECTION_TIMEOUT_MAX) \in Timer(ELECTION_TIMEOUT_MAX)
              /\ Older(heartbeat_timer[i], HEARTBEAT_INTERVAL) \in Timer(HEARTBEAT_INTERVAL)
              /\ Older(lease_timer[i], LEASE_DURATION) \in Timer(LEASE_DURATION)
      BY ConstantTypes, TimerTypes DEF Types, TimerTypesOK
    <2> QED BY <2>1 DEF Tick, TimerTypesOK
  <1>4. LeaseTypes'
    <2>1. \A i \in Node : Min2(LEASE_DURATION, since_lease_start[i] + 1) \in 0..LEASE_DURATION
      BY ConstantTypes DEF Min2, Types, LeaseTypes
    <2> QED BY <1>1, <2>1 DEF Tick, Types, LeaseTypes
  <1>5. WaitTypes'
    <2>1. ASSUME NEW i \in Node
          PROVE  [k \in DOMAIN sleepers[i] |-> sleepers[i][k] - 1] \in Seq(0..LEASE_DURATION)
      <3>1. 0 \notin ToSet(sleepers[i]) /\ sleepers[i] \in Seq(0..LEASE_DURATION)
            /\ LEASE_DURATION \in Int
        BY <1>1, ConstantTypes DEF MayPass, Types, WaitTypes
      <3>2. [k \in DOMAIN sleepers[i] |-> sleepers[i][k] - 1] \in Seq(0..(LEASE_DURATION - 1))
        BY <3>1, ShiftedType
      <3>3. 0..(LEASE_DURATION - 1) \subseteq 0..LEASE_DURATION
        BY <3>1
      <3> QED BY <3>2, <3>3, SeqMonotonic
    <2> QED BY <1>1, <2>1 DEF Tick, Types, WaitTypes
  <1>6. CallTypes'
    <2>1. ASSUME NEW c \in calls
          PROVE  LET d == [c EXCEPT !.left = @ - 1] IN d \in CallType /\ d.from # d.to
      <3>1. c \in CallType /\ c.from # c.to /\ c.left > 0
        BY <1>1 DEF MayPass, Types, CallTypes
      <3>2. c.left - 1 \in 0..CALL_TIMEOUT
        BY <3>1, ConstantTypes DEF CallType
      <3> QED BY <3>1, <3>2 DEF CallType
    <2> QED BY <2>1 DEF Tick, CallTypes
  <1>7. CutTypes'
    <2>1. since_cut' \in 0..Patience
      BY ConstantTypes DEF Tick, Min2, Types, CutTypes
    <2> QED BY <1>1, <2>1 DEF Types, CutTypes
  <1>8. HistTypes'
    <2>1. \A i \in Node : Max2(0, told[i] - 1) \in 0..LEASE_DURATION
      BY ConstantTypes DEF Max2, Types, HistTypes
    <2> QED BY <1>1, <2>1 DEF Tick, Types, HistTypes
  <1> QED BY <1>2, <1>3, <1>4, <1>5, <1>6, <1>7, <1>8 DEF Types

LEMMA TypesNext == Types /\ [Next]_vars => Types'
  <1> SUFFICES ASSUME Types, [Next]_vars PROVE Types'
    OBVIOUS
  <1>1. CASE \E i \in Node : \/ StartElection(i) \/ CheckElection(i) \/ AcquireLease(i)
                             \/ LeaseTimeout(i) \/ SendHeartbeats(i)
    BY <1>1, TypesElection, TypesCheck, TypesHeartbeats, TypesTimeout
  <1>2. CASE \E c \in calls : \/ HandleRequestVote(c) \/ ReceiveVote(c) \/ CallFails(c)
                              \/ HandleAppendEntries(c) \/ ReceiveAppendReply(c)
    BY <1>2, TypesRequestVote, TypesReceive, TypesAppend
  <1>3. CASE (\E links \in Partitions : Cut(links)) \/ Heal
    BY <1>3, TypesLinks
  <1>4. CASE Tick
    BY <1>4, TypesTick
  <1>5. CASE UNCHANGED vars
    BY <1>5 DEF vars, roleVars, timerVars, termVars, leaseVars, waitVars, cutVars, histVars,
       Types, RoleTypes, TermTypes, TimerTypesOK, LeaseTypes, WaitTypes, CallTypes, CutTypes,
       HistTypes
  <1> QED BY <1>1, <1>2, <1>3, <1>4, <1>5 DEF Next

\* Every state has the types of TypeOK, for any lengths of the timers and calls: no lease,
\* wait or timer is longer than the code's constants, and none is negative.
THEOREM LeaseTyped == Spec => []TypeOK
  <1>1. Types => TypeOK
    <2> SUFFICES ASSUME Types PROVE TypeOK
      OBVIOUS
    <2>1. \A c \in calls : c.left \in 0..CALL_TIMEOUT /\ c.from # c.to
      BY DEF Types, CallTypes, CallType
    <2>2. cut \subseteq Links
      <3> SUFFICES ASSUME NEW link \in cut PROVE link \in Links
        OBVIOUS
      <3>1. PICK i \in Node, j \in Node : i # j /\ link = {i, j}
        BY DEF Types, CutTypes
      <3> QED BY <3>1 DEF Links
    <2> QED BY <2>1, <2>2 DEF Types, RoleTypes, TermTypes, TimerTypesOK, LeaseTypes, WaitTypes,
         CutTypes, HistTypes, TypeOK
  <1> QED BY <1>1, TypesInit, TypesNext, PTL DEF Spec

-----------------------------------------------------------------------------
(* A leader that reaches nobody: the inductive invariant of DeposedInTime. *)

Alone(i) == cut # {} /\ Isolated(i)

Span == Max2(LEASE_DURATION, HEARTBEAT_INTERVAL)

\* A leader still waits for the old lease or has one of its own.
AwakeAt(i) == state[i] = "LEADER" => sleepers[i] # <<>> \/ lease_timer[i].age # None

\* Since the cut nobody has begun to wait for an old lease.
NoNewWait(i) == sleepers[i] \in Seq(0..(LEASE_DURATION - since_cut))

\* Answers not yet used for a renewal are no newer than the cut, and every heartbeat
\* timer was started before it.
AnswersOld(i) == Answered(i) => \A a \in Ages(heartbeat_timer[i]) : since_cut <= a

\* The lease was begun, or renewed, no later than this after the cut.
LeaseOld(i) == lease_timer[i].age # None => since_cut <= lease_timer[i].age + Span

\* In an election begun since the cut the candidate has its own vote at most.
NoVotes(i) == since_cut > 0 /\ checks[i] > 0 => votes_received[i] \subseteq {i}

CutOff(i) == Alone(i) => NoNewWait(i) /\ AnswersOld(i) /\ LeaseOld(i) /\ NoVotes(i)

Lonely == \A i \in Node : AwakeAt(i) /\ CutOff(i)

CutTimed == cut = {} => since_cut = 0

\* What these conditions read of a node.
AtNode(i) == <<state[i], votes_received[i], sleepers[i], checks[i], heartbeat_timer[i],
               lease_timer[i], heartbeat_success_count[i]>>

\* A step that neither concerns the node nor the cut leaves them true.
LEMMA NodeApart ==
    ASSUME NEW i \in Node, AwakeAt(i), CutOff(i), UNCHANGED <<AtNode(i), cut, since_cut>>
    PROVE  AwakeAt(i)' /\ CutOff(i)'
  <1>1. AwakeAt(i)'
    BY DEF AtNode, AwakeAt
  <1>2. CutOff(i)'
    BY DEF AtNode, CutOff, Alone, Isolated, NoNewWait, AnswersOld, Answered, LeaseOld, NoVotes
  <1> QED BY <1>1, <1>2

\* A cut link has two ends: one node alone is no majority.
LEMMA TwoNodes ==
    ASSUME Types, NEW i \in Node, Alone(i)
    PROVE  /\ Threshold \in Nat \ {0} /\ ~(Cardinality({}) >= Threshold)
           /\ \A S \in SUBSET {i} : ~(Cardinality(S) >= Threshold + 1)
  <1>1. PICK a \in Node, b \in Node : a # b
    BY DEF Alone, Types, CutTypes
  <1>2. IsFiniteSet(Node) /\ Cardinality(Node) \in Nat
    BY ClockAssumption, FS_CardinalityType
  <1>3. Cardinality({a, b}) = 2 /\ IsFiniteSet({a}) /\ Cardinality({a}) = 1
    <2>1. IsFiniteSet({a}) /\ Cardinality({a}) = 1
      BY FS_Singleton
    <2>2. Cardinality({a} \cup {b}) = Cardinality({a}) + 1
      BY <1>1, <2>1, FS_AddElement
    <2>3. {a} \cup {b} = {a, b}
      OBVIOUS
    <2> QED BY <2>1, <2>2, <2>3
  <1>4. Cardinality({a, b}) <= Cardinality(Node)
    BY <1>1, <1>2, FS_Subset
  <1>5. Threshold \in Nat \ {0}
    BY <1>2, <1>3, <1>4 DEF Threshold
  <1>6. Cardinality({}) = 0
    BY FS_EmptySet
  <1>7. ASSUME NEW S \in SUBSET {i} PROVE Cardinality(S) \in Nat /\ Cardinality(S) <= 1
    <2>1. IsFiniteSet({i}) /\ Cardinality({i}) = 1
      BY FS_Singleton
    <2>2. IsFiniteSet(S) /\ Cardinality(S) <= Cardinality({i})
      BY <2>1, FS_Subset
    <2>3. Cardinality(S) \in Nat
      BY <2>2, FS_CardinalityType
    <2> QED BY <2>1, <2>2, <2>3
  <1> QED BY <1>5, <1>6, <1>7

\* No call to or from such a node gets anywhere.
LEMMA NoCallArrives ==
    ASSUME Types, NEW i \in Node, Alone(i), NEW c \in calls, c.from = i \/ c.to = i
    PROVE  \A kind, stage : ~Is(c, kind, stage)
  <1>1. c.from \in Node /\ c.to \in Node /\ c.from # c.to
    BY DEF Types, CallTypes, CallType
  <1>2. {c.from, c.to} \in cut
    <2>1. CASE c.from = i
      BY <1>1, <2>1 DEF Alone, Isolated, Others
    <2>2. CASE c.to = i
      <3>1. {i, c.from} \in cut
        BY <1>1, <2>2 DEF Alone, Isolated, Others
      <3>2. {i, c.from} = {c.from, c.to}
        BY <2>2
      <3> QED BY <3>1, <3>2
    <2> QED BY <2>1, <2>2
  <1> QED BY <1>2 DEF Is

\* The ages of a timer that is cancelled, or fires, are those it had.
LEMMA OldAges ==
    ASSUME NEW max \in Nat, NEW t \in Timer(max)
    PROVE  Ages(Cancelled(t)) \subseteq Ages(t)
  <1>1. Cancelled(t).age = None /\ Cancelled(t).lost = t.lost
    BY DEF Cancelled, Timer
  <1> QED BY <1>1 DEF Ages

\* step_down leaves no lease and no votes.
LEMMA LonelyStepDown ==
    ASSUME Types, NEW i \in Node, NEW j \in Node, NEW t \in Timer(LEASE_DURATION),
           AwakeAt(i), CutOff(i), StepDown(j, t),
           UNCHANGED <<leaseVars, waitVars, cutVars>>
    PROVE  AwakeAt(i)' /\ CutOff(i)'
  <1>1. CASE i # j
    <2>1. UNCHANGED <<AtNode(i), cut, since_cut>>
      BY <1>1 DEF StepDown, AtNode, Types, RoleTypes, TimerTypesOK, leaseVars, waitVars, cutVars
    <2> QED BY <2>1, NodeApart
  <1>2. CASE i = j
    <2>1. /\ state'[i] = "FOLLOWER" /\ votes_received'[i] = {}
          /\ heartbeat_timer'[i] = Cancelled(heartbeat_timer[i])
          /\ lease_timer'[i] = Cancelled(t)
          /\ UNCHANGED <<heartbeat_success_count, sleepers, checks, cut, since_cut>>
      BY <1>2 DEF StepDown, Types, RoleTypes, TimerTypesOK, leaseVars, waitVars, cutVars
    <2>2. lease_timer'[i].age = None
      BY <2>1, ConstantTypes, TimerTypes
    <2>3. Ages(heartbeat_timer'[i]) \subseteq Ages(heartbeat_timer[i])
      BY <2>1, ConstantTypes, OldAges DEF Types, TimerTypesOK
    <2>4. AwakeAt(i)'
      BY <2>1 DEF AwakeAt
    <2>5. CutOff(i)'
      BY <2>1, <2>2, <2>3 DEF CutOff, Alone, Isolated, NoNewWait, AnswersOld, Answered,
         LeaseOld, NoVotes
    <2> QED BY <2>4, <2>5
  <1> QED BY <1>1, <1>2

\* A timer that fires had that age.
LEMMA FiredAge ==
    ASSUME NEW max \in Nat, NEW t \in Timer(max), NEW a \in Nat, NEW u \in Fired(t, {a})
    PROVE  a \in Ages(t)
  <1>1. None \notin Nat
    BY ConstantTypes
  <1> QED BY <1>1 DEF Fired, Ages

\* A renewal, or a new lease, begins no later than Span after the cut.
LEMMA LonelyHeartbeats ==
    ASSUME Types, NEW i \in Node, NEW j \in Node, AwakeAt(i), CutOff(i),
           AcquireLease(j) \/ SendHeartbeats(j)
    PROVE  AwakeAt(i)' /\ CutOff(i)'
  <1>1. UNCHANGED <<state, votes_received, checks, cut, since_cut>>
    BY DEF AcquireLease, SendHeartbeats, waitVars, cutVars
  <1>2. CASE i # j
    <2>1. UNCHANGED <<AtNode(i), cut, since_cut>>
      BY <1>1, <1>2 DEF AcquireLease, SendHeartbeats, SendsHeartbeats, waitVars, AtNode, Types,
         TimerTypesOK, LeaseTypes, WaitTypes
    <2> QED BY <2>1, NodeApart
  <1>3. CASE i = j
    <2>1. heartbeat_success_count'[i] =
              IF Answered(i) THEN {} ELSE heartbeat_success_count[i]
      BY <1>3 DEF AcquireLease, SendHeartbeats, SendsHeartbeats, AfterRenewal, Types, LeaseTypes
    <2>2. Alone(i) => ~Answered(i)'
      BY <2>1, TwoNodes DEF Answered, Threshold
    <2>3. Alone(i)' = Alone(i) /\ NoVotes(i)' = NoVotes(i)
      BY <1>1 DEF Alone, Isolated, NoVotes
    <2>4. LEASE_DURATION \in Nat /\ HEARTBEAT_INTERVAL \in Nat /\ since_cut \in Nat
          /\ Span \in Nat /\ LEASE_DURATION <= Span /\ HEARTBEAT_INTERVAL <= Span
          /\ None \notin Nat
      BY ConstantTypes DEF Span, Max2, Types, CutTypes
    <2>5. CASE AcquireLease(i)
      <3>1. PICK k \in DOMAIN sleepers[i] :
                sleepers[i][k] = 0 /\ sleepers' = [sleepers EXCEPT ![i] = RemoveAt(@, k)]
        BY <2>5 DEF AcquireLease
      <3>2. PICK l \in Timer(LEASE_DURATION) : l = Started(lease_timer[i]) /\ l.age = 0
        BY ConstantTypes, TimerTypes DEF Types, TimerTypesOK
      <3>3. Restarted(l).age = 0
        BY ConstantTypes, TimerTypes
      <3>4. lease_timer'[i].age = 0
        BY <2>5, <3>2, <3>3 DEF AcquireLease, SendsHeartbeats, Types, TimerTypesOK
      <3>5. AwakeAt(i)'
        BY <2>4, <3>4 DEF AwakeAt
      <3>6. ASSUME Alone(i) PROVE NoNewWait(i)' /\ LeaseOld(i)'
        <4>1. PICK n \in Int : n = LEASE_DURATION - since_cut
          BY <2>4
        <4>2. sleepers[i] \in Seq(0..n)
          BY <3>6, <4>1 DEF CutOff, NoNewWait
        <4>3. RemoveAt(sleepers[i], k) \in Seq(0..n)
          BY <4>2, RemovedType
        <4>4. sleepers'[i] \in Seq(0..n)
          BY <3>1, <4>3 DEF Types, WaitTypes
        <4>5. sleepers[i][k] \in 0..n
          BY <4>2, LenProperties, ElementOfSeq
        <4>6. since_cut <= LEASE_DURATION
          BY <2>4, <3>1, <4>1, <4>5
        <4> QED BY <1>1, <2>4, <3>4, <4>1, <4>4, <4>6 DEF NoNewWait, LeaseOld
      <3> QED BY <2>2, <2>3, <3>5, <3>6 DEF CutOff, AnswersOld
    <2>6. CASE SendHeartbeats(i)
      <3>1. PICK t \in Fired(heartbeat_timer[i], {HEARTBEAT_INTERVAL}) :
                SendsHeartbeats(i, t, lease_timer[i])
        BY <2>6 DEF SendHeartbeats
      <3>2. HEARTBEAT_INTERVAL \in Ages(heartbeat_timer[i])
        BY <2>4, FiredAge DEF Types, TimerTypesOK
      <3>3. Restarted(lease_timer[i]).age = 0
        BY ConstantTypes, TimerTypes DEF Types, TimerTypesOK
      <3>4. lease_timer'[i] = IF Answered(i) THEN Restarted(lease_timer[i]) ELSE lease_timer[i]
        BY <3>1 DEF SendsHeartbeats, Types, TimerTypesOK
      <3>5. sleepers' = sleepers
        BY <2>6 DEF SendHeartbeats, waitVars
      <3>6. AwakeAt(i)'
        BY <1>1, <2>4, <3>3, <3>4, <3>5 DEF AwakeAt
      <3>7. ASSUME Alone(i) PROVE NoNewWait(i)' /\ LeaseOld(i)'
        <4>1. NoNewWait(i) /\ LeaseOld(i) /\ AnswersOld(i)
          BY <3>7 DEF CutOff
        <4>2. NoNewWait(i)'
          BY <1>1, <3>5, <4>1 DEF NoNewWait
        <4>3. CASE Answered(i)
          <5>1. since_cut <= HEARTBEAT_INTERVAL
            BY <3>2, <4>1, <4>3 DEF AnswersOld
          <5>2. lease_timer'[i].age = 0
            BY <3>3, <3>4, <4>3
          <5> QED BY <1>1, <2>4, <4>2, <5>1, <5>2 DEF LeaseOld
        <4>4. CASE ~Answered(i)
          BY <1>1, <3>4, <4>1, <4>2, <4>4 DEF LeaseOld
        <4> QED BY <4>3, <4>4
      <3> QED BY <2>2, <2>3, <3>6, <3>7 DEF CutOff, AnswersOld
    <2> QED BY <1>3, <2>5, <2>6
  <1> QED BY <1>2, <1>3

\* Alone, a node counts no vote and wins no election begun since the cut.
LEMMA LonelyElection ==
    ASSUME Types, NEW i \in Node, NEW j \in Node, AwakeAt(i), CutOff(i),
           StartElection(j) \/ CheckElection(j)
    PROVE  AwakeAt(i)' /\ CutOff(i)'
  <1>1. UNCHANGED <<cut, since_cut, heartbeat_success_count>>
    BY DEF StartElection, CheckElection, cutVars, leaseVars
  <1>2. CASE i # j
    <2>1. UNCHANGED <<AtNode(i), cut, since_cut>>
      BY <1>1, <1>2 DEF StartElection, CheckElection, AtNode, Types, RoleTypes, TimerTypesOK,
         WaitTypes
    <2> QED BY <2>1, NodeApart
  <1>3. CASE StartElection(i)
    <2>1. /\ state'[i] = "CANDIDATE" /\ votes_received'[i] = {i}
          /\ UNCHANGED <<sleepers, heartbeat_timer, lease_timer>>
      BY <1>3 DEF StartElection, Types, RoleTypes
    <2>2. AwakeAt(i)'
      BY <2>1 DEF AwakeAt
    <2>3. CutOff(i)'
      BY <1>1, <2>1 DEF CutOff, Alone, Isolated, NoNewWait, AnswersOld, Answered, LeaseOld,
         NoVotes
    <2> QED BY <2>2, <2>3
  <1>4. CASE CheckElection(i)
    <2>1. checks[i] > 0 /\ checks[i] \in Nat
      BY <1>4 DEF CheckElection, Types, WaitTypes
    <2>2. CASE Cardinality(votes_received[i]) >= Threshold + 1
      <3>1. /\ votes_received'[i] = {} /\ lease_timer'[i] = Cancelled(lease_timer[i])
            /\ heartbeat_timer'[i] = Cancelled(heartbeat_timer[i])
            /\ sleepers'[i] = Append(sleepers[i], LeaseWait(i))
        BY <1>4, <2>2 DEF CheckElection, Types, RoleTypes, TimerTypesOK, WaitTypes
      <3>2. LeaseWait(i) \in 0..LEASE_DURATION
        BY DEF LeaseWait, Types, LeaseTypes
      <3>3. Append(sleepers[i], LeaseWait(i)) \in Seq(0..LEASE_DURATION)
            /\ Append(sleepers[i], LeaseWait(i)) # <<>>
        BY <3>2, OneMoreWait DEF Types, WaitTypes
      <3>4. AwakeAt(i)'
        BY <3>1, <3>3 DEF AwakeAt
      <3>5. lease_timer'[i].age = None
        <4>1. Cancelled(lease_timer[i]).age = None
          BY ConstantTypes, TimerTypes DEF Types, TimerTypesOK
        <4> QED BY <3>1, <4>1
      <3>6. Ages(heartbeat_timer'[i]) \subseteq Ages(heartbeat_timer[i])
        BY <3>1, ConstantTypes, OldAges DEF Types, TimerTypesOK
      <3>7. ASSUME Alone(i) PROVE since_cut = 0
        <4>1. NoVotes(i) /\ since_cut \in Nat
          BY <3>7 DEF CutOff, Types, CutTypes
        <4>2. ~(votes_received[i] \subseteq {i})
          BY <2>2, <3>7, TwoNodes
        <4> QED BY <2>1, <4>1, <4>2 DEF NoVotes
      <3>8. ASSUME Alone(i) PROVE NoNewWait(i)'
        <4>1. LEASE_DURATION - since_cut = LEASE_DURATION
          BY <3>7, <3>8, ConstantTypes
        <4> QED BY <1>1, <3>1, <3>3, <4>1 DEF NoNewWait
      <3>9. CutOff(i)'
        BY <1>1, <3>1, <3>5, <3>6, <3>8 DEF CutOff, Alone, Isolated, AnswersOld, Answered,
           LeaseOld, NoVotes
      <3> QED BY <3>4, <3>9
    <2>3. CASE ~(Cardinality(votes_received[i]) >= Threshold + 1)
      <3>1. UNCHANGED <<state, votes_received, heartbeat_timer, lease_timer, sleepers>>
        BY <1>4, <2>3 DEF CheckElection
      <3>2. AwakeAt(i)'
        BY <3>1 DEF AwakeAt
      <3>3. CutOff(i)'
        BY <1>1, <2>1, <3>1 DEF CutOff, Alone, Isolated, NoNewWait, AnswersOld, Answered,
           LeaseOld, NoVotes
      <3> QED BY <3>2, <3>3
    <2> QED BY <2>2, <2>3
  <1> QED BY <1>2, <1>3, <1>4

\* A call reaches no node that is alone; the others may become followers.
LEMMA LonelyCalls ==
    ASSUME Types, NEW i \in Node, NEW c \in calls, AwakeAt(i), CutOff(i),
           \/ HandleRequestVote(c) \/ ReceiveVote(c) \/ CallFails(c)
           \/ HandleAppendEntries(c) \/ ReceiveAppendReply(c)
    PROVE  AwakeAt(i)' /\ CutOff(i)'
  <1>1. c.from \in Node /\ c.to \in Node
    BY DEF Types, CallTypes, CallType
  <1>2. UNCHANGED <<waitVars, cutVars>>
    BY DEF HandleRequestVote, ReceiveVote, CallFails, HandleAppendEntries, ReceiveAppendReply
  <1>3. CASE HandleRequestVote(c)
    <2>1. UNCHANGED leaseVars
      BY <1>3 DEF HandleRequestVote
    <2>2. CASE StepDown(c.to, lease_timer[c.to])
      BY <1>1, <1>2, <2>1, <2>2, LonelyStepDown DEF Types, TimerTypesOK
    <2>3. CASE UNCHANGED roleVars
      <3>1. UNCHANGED <<AtNode(i), cut, since_cut>>
        BY <1>2, <2>1, <2>3 DEF roleVars, timerVars, leaseVars, waitVars, cutVars, AtNode
      <3> QED BY <3>1, NodeApart
    <2> QED BY <1>3, <2>2, <2>3 DEF HandleRequestVote
  <1>4. CASE CallFails(c)
    <2>1. UNCHANGED <<AtNode(i), cut, since_cut>>
      BY <1>2, <1>4 DEF CallFails, roleVars, timerVars, leaseVars, waitVars, cutVars, AtNode
    <2> QED BY <2>1, NodeApart
  <1>5. CASE ReceiveVote(c) \/ ReceiveAppendReply(c)
    <2>1. UNCHANGED <<state, sleepers, lease_timer, cut>>
      BY <1>2, <1>5 DEF ReceiveVote, ReceiveAppendReply, roleVars, timerVars, waitVars, cutVars
    <2>2. AwakeAt(i)'
      BY <2>1 DEF AwakeAt
    <2>3. CASE ~Alone(i)
      BY <2>1, <2>2, <2>3 DEF CutOff, Alone, Isolated
    <2>4. CASE Alone(i)
      <3>1. c.from # i
        BY <1>5, <2>4, NoCallArrives DEF ReceiveVote, ReceiveAppendReply
      <3>2. UNCHANGED <<AtNode(i), cut, since_cut>>
        BY <1>2, <1>5, <3>1 DEF ReceiveVote, ReceiveAppendReply, roleVars, timerVars, waitVars,
           cutVars, AtNode, Types, RoleTypes, LeaseTypes
      <3> QED BY <3>2, NodeApart
    <2> QED BY <2>3, <2>4
  <1>6. CASE HandleAppendEntries(c)
    <2>1. UNCHANGED <<sleepers, checks, cut, since_cut, heartbeat_success_count>>
      BY <1>2, <1>6 DEF HandleAppendEntries, waitVars, cutVars
    <2>2. CASE c.to # i
      <3>1. UNCHANGED <<AtNode(i), cut, since_cut>>
        BY <1>6, <2>1, <2>2 DEF HandleAppendEntries, AtNode, Types, RoleTypes, TimerTypesOK
      <3> QED BY <3>1, NodeApart
    <2>3. CASE c.to = i
      <3>1. ~Alone(i)
        BY <1>6, <2>3, NoCallArrives DEF HandleAppendEntries
      <3>2. CutOff(i)'
        BY <2>1, <3>1 DEF CutOff, Alone, Isolated
      <3>3. CASE c.term >= current_term[i]
        <4>1. state'[i] = "FOLLOWER"
          BY <1>6, <2>3, <3>3 DEF HandleAppendEntries, Types, RoleTypes
        <4> QED BY <3>2, <4>1 DEF AwakeAt
      <3>4. CASE ~(c.term >= current_term[i])
        <4>1. ~(c.term > current_term[i])
          BY <3>4 DEF Types, TermTypes, CallTypes, CallType
        <4>2. UNCHANGED <<state, lease_timer>>
          BY <1>6, <2>3, <3>4, <4>1 DEF HandleAppendEntries
        <4> QED BY <2>1, <3>2, <4>2 DEF AwakeAt
      <3> QED BY <3>3, <3>4
    <2> QED BY <2>2, <2>3
  <1> QED BY <1>3, <1>4, <1>5, <1>6

\* Everything of a node gets older as the cut does.
LEMMA LonelyTick ==
    ASSUME Types, NEW i \in Node, AwakeAt(i), CutOff(i), Tick
    PROVE  AwakeAt(i)' /\ CutOff(i)'
  <1>1. /\ UNCHANGED <<state, votes_received, heartbeat_success_count, checks, cut>>
        /\ checks[i] = 0 /\ 0 \notin ToSet(sleepers[i])
        /\ HEARTBEAT_INTERVAL \notin Ages(heartbeat_timer[i])
        /\ LEASE_DURATION \notin Ages(lease_timer[i])
    BY DEF Tick, MayPass
  <1>2. PICK h \in Timer(HEARTBEAT_INTERVAL) : h = heartbeat_timer[i]
    BY DEF Types, TimerTypesOK
  <1>3. PICK l \in Timer(LEASE_DURATION) : l = lease_timer[i]
    BY DEF Types, TimerTypesOK
  <1>4. PICK s \in Seq(0..LEASE_DURATION) : s = sleepers[i]
    BY DEF Types, WaitTypes
  <1>5. /\ heartbeat_timer'[i] = Older(h, HEARTBEAT_INTERVAL)
        /\ lease_timer'[i] = Older(l, LEASE_DURATION)
        /\ sleepers'[i] = [k \in DOMAIN s |-> s[k] - 1]
    BY <1>2, <1>3, <1>4 DEF Tick
  <1>6. /\ LEASE_DURATION \in Nat /\ HEARTBEAT_INTERVAL \in Nat /\ since_cut \in Nat
        /\ Patience \in Nat /\ Span \in Nat /\ None \notin Nat
    BY ConstantTypes DEF Span, Max2, Types, CutTypes
  <1>7. PICK lease : lease = l.age
    OBVIOUS
  <1>8. lease_timer'[i].age = IF lease = None THEN None ELSE Min2(LEASE_DURATION, lease + 1)
    BY <1>5, <1>7 DEF Older
  <1>9. lease # None => lease \in Nat /\ lease < LEASE_DURATION
    <2>1. lease \in 0..LEASE_DURATION \cup {None}
      BY <1>7, <1>6, TimerTypes
    <2>2. lease # LEASE_DURATION
      BY <1>1, <1>3, <1>6, <1>7 DEF Ages
    <2> QED BY <1>6, <2>1, <2>2
  <1>10. lease_timer'[i].age = IF lease = None THEN None ELSE lease + 1
    BY <1>6, <1>8, <1>9 DEF Min2
  <1>11. AwakeAt(i)'
    <2>1. ASSUME s # <<>> PROVE sleepers'[i] # <<>>
      <3>1. PICK n \in Nat : n = Len(s) /\ DOMAIN s = 1..n
        BY LenProperties
      <3>2. n # 0
        BY <2>1, <3>1, EmptySeq
      <3>3. DOMAIN sleepers'[i] = 1..n
        BY <1>5, <3>1
      <3>4. 1 \in 1..n /\ DOMAIN <<>> = {}
        BY <3>2
      <3> QED BY <3>3, <3>4
    <2>2. lease # None => lease_timer'[i].age # None
      BY <1>6, <1>9, <1>10
    <2> QED BY <1>1, <1>3, <1>4, <1>7, <2>1, <2>2 DEF AwakeAt
  <1>12. CutOff(i)'
    <2> SUFFICES ASSUME Alone(i)'
                 PROVE  NoNewWait(i)' /\ AnswersOld(i)' /\ LeaseOld(i)' /\ NoVotes(i)'
      BY DEF CutOff
    <2>1. Alone(i) /\ NoNewWait(i) /\ AnswersOld(i) /\ LeaseOld(i)
      BY <1>1 DEF CutOff, Alone, Isolated
    <2>2. PICK later \in Nat : later = since_cut' /\ later <= since_cut + 1
      <3>1. since_cut' = IF cut = {} THEN 0 ELSE Min2(Patience, since_cut + 1)
        BY DEF Tick
      <3>2. PICK age \in Nat, longest \in Nat : age = since_cut /\ longest = Patience
        BY <1>6
      <3>3. since_cut' \in Nat /\ since_cut' <= age + 1
        <4>1. Min2(longest, age + 1) \in Nat /\ Min2(longest, age + 1) <= age + 1
          BY DEF Min2
        <4> QED BY <3>1, <3>2, <4>1
      <3> QED BY <3>2, <3>3
    <2>3. NoVotes(i)'
      BY <1>1 DEF NoVotes
    <2>4. LeaseOld(i)'
      <3>1. lease # None => since_cut <= lease + Span
        BY <1>3, <1>7, <2>1 DEF LeaseOld
      <3>2. lease # None => later <= lease + 1 + Span
        BY <1>6, <1>9, <2>2, <3>1
      <3> QED BY <1>6, <1>10, <2>2, <3>2 DEF LeaseOld, Span
    <2>5. AnswersOld(i)'
      <3> SUFFICES ASSUME Answered(i), NEW a \in Ages(heartbeat_timer'[i])
                   PROVE  later <= a
        BY <1>1, <2>2 DEF AnswersOld, Answered, Threshold
      <3>1. \A b \in Ages(h) : b \in Nat /\ b < HEARTBEAT_INTERVAL /\ since_cut <= b
        <4>1. Ages(h) \in SUBSET (0..HEARTBEAT_INTERVAL)
          BY <1>6, TimerTypes
        <4> QED BY <1>1, <1>2, <1>6, <2>1, <4>1 DEF AnswersOld
      <3>2. PICK b \in Ages(h) : a = Min2(HEARTBEAT_INTERVAL, b + 1)
        BY <1>5 DEF Older, Ages
      <3> QED BY <1>6, <2>2, <3>1, <3>2 DEF Min2
    <2>6. NoNewWait(i)'
      <3>1. PICK n \in Int : n = LEASE_DURATION - since_cut
        BY <1>6
      <3>2. s \in Seq(0..n)
        BY <1>4, <2>1, <3>1 DEF NoNewWait
      <3>3. sleepers'[i] \in Seq(0..(n - 1))
        BY <1>1, <1>4, <1>5, <3>2, ShiftedType
      <3>4. 0..(n - 1) \subseteq 0..(LEASE_DURATION - later)
        <4>1. PICK length \in Nat, age \in Nat : length = LEASE_DURATION /\ age = since_cut
          BY <1>6
        <4>2. later <= age + 1 /\ n = length - age
          BY <2>2, <3>1, <4>1
        <4>3. length - later \in Int /\ n - 1 <= length - later
          BY <4>2
        <4>4. \A m \in Int : n - 1 <= m => 0..(n - 1) \subseteq 0..m
          OBVIOUS
        <4> QED BY <4>1, <4>3, <4>4
      <3>5. sleepers'[i] \in Seq(0..(LEASE_DURATION - later))
        BY <3>3, <3>4, SeqMonotonic
      <3> QED BY <2>2, <3>5 DEF NoNewWait
    <2> QED BY <2>3, <2>4, <2>5, <2>6
  <1> QED BY <1>11, <1>12

LEMMA LonelyNext ==
    ASSUME Types, CutTimed, Lonely, [Next]_vars
    PROVE  Lonely' /\ CutTimed'
  <1>1. ASSUME NEW i \in Node PROVE AwakeAt(i)' /\ CutOff(i)'
    <2>1. AwakeAt(i) /\ CutOff(i)
      BY DEF Lonely
    <2>2. ASSUME NEW j \in Node, LeaseTimeout(j) PROVE AwakeAt(i)' /\ CutOff(i)'
      <3>1. PICK t \in Fired(lease_timer[j], {LEASE_DURATION}) : StepDown(j, t)
        BY <2>2 DEF LeaseTimeout
      <3>2. t \in Timer(LEASE_DURATION)
        BY ConstantTypes, TimerTypes DEF Types, TimerTypesOK
      <3>3. UNCHANGED <<leaseVars, waitVars, cutVars>>
        BY <2>2 DEF LeaseTimeout
      <3> QED BY <2>1, <3>1, <3>2, <3>3, LonelyStepDown
    <2>3. CASE \E j \in Node : \/ StartElection(j) \/ CheckElection(j) \/ AcquireLease(j)
                               \/ LeaseTimeout(j) \/ SendHeartbeats(j)
      BY <2>1, <2>2, <2>3, LonelyElection, LonelyHeartbeats
    <2>4. CASE \E c \in calls : \/ HandleRequestVote(c) \/ ReceiveVote(c) \/ CallFails(c)
                                \/ HandleAppendEntries(c) \/ ReceiveAppendReply(c)
      BY <2>1, <2>4, LonelyCalls
    <2>5. CASE (\E links \in Partitions : Cut(links)) \/ Heal
      <3>1. UNCHANGED <<state, votes_received, sleepers, heartbeat_timer, lease_timer>>
            /\ since_cut' = 0
        BY <2>5 DEF Cut, Heal, roleVars, timerVars, waitVars
      <3>2. AwakeAt(i)'
        BY <2>1, <3>1 DEF AwakeAt
      <3>3. NoNewWait(i)'
        <4>1. LEASE_DURATION - 0 = LEASE_DURATION
          BY ConstantTypes
        <4> QED BY <3>1, <4>1 DEF NoNewWait, Types, WaitTypes
      <3>4. AnswersOld(i)'
        <4>1. Ages(heartbeat_timer[i]) \in SUBSET (0..HEARTBEAT_INTERVAL)
          BY ConstantTypes, TimerTypes DEF Types, TimerTypesOK
        <4> QED BY <3>1, <4>1 DEF AnswersOld
      <3>5. LeaseOld(i)'
        <4>1. lease_timer[i].age \in 0..LEASE_DURATION \cup {None} /\ Span \in Nat
          BY ConstantTypes, TimerTypes DEF Span, Max2, Types, TimerTypesOK
        <4> QED BY <3>1, <4>1 DEF LeaseOld, Span
      <3>6. NoVotes(i)'
        BY <3>1 DEF NoVotes
      <3> QED BY <3>2, <3>3, <3>4, <3>5, <3>6 DEF CutOff
    <2>6. CASE Tick
      BY <2>1, <2>6, LonelyTick
    <2>7. CASE UNCHANGED vars
      <3>1. UNCHANGED <<AtNode(i), cut, since_cut>>
        BY <2>7 DEF vars, roleVars, timerVars, leaseVars, waitVars, cutVars, AtNode
      <3> QED BY <2>1, <3>1, NodeApart
    <2> QED BY <2>3, <2>4, <2>5, <2>6, <2>7 DEF Next
  <1>2. CutTimed'
    <2>1. CASE UNCHANGED cutVars
      BY <2>1 DEF cutVars, CutTimed
    <2>2. CASE (\E links \in Partitions : Cut(links)) \/ Heal
      BY <2>2 DEF Cut, Heal, CutTimed
    <2>3. CASE Tick
      BY <2>3 DEF Tick, CutTimed
    <2> QED BY <2>1, <2>2, <2>3 DEF Next, vars, StartElection, CheckElection, AcquireLease,
         LeaseTimeout, SendHeartbeats, HandleRequestVote, ReceiveVote, CallFails,
         HandleAppendEntries, ReceiveAppendReply
  <1> QED BY <1>1, <1>2 DEF Lonely

\* A leader that has been cut off from all others, however often links were cut before and
\* whatever was under way at the cut, is no longer leader when the lease it may still
\* begin, or renew, is over: since nobody answers, no renewal follows that one.
THEOREM Deposed == Spec => []DeposedInTime
  <1>1. Init => Lonely /\ CutTimed
    <2> SUFFICES ASSUME Init PROVE Lonely /\ CutTimed
      OBVIOUS
    <2>1. CutTimed
      BY DEF Init, CutTimed
    <2>2. ASSUME NEW i \in Node PROVE AwakeAt(i) /\ CutOff(i)
      BY DEF Init, AwakeAt, CutOff, Alone
    <2> QED BY <2>1, <2>2 DEF Lonely
  <1>2. Types /\ CutTimed /\ Lonely => DeposedInTime
    <2> SUFFICES ASSUME Types, CutTimed, Lonely, NEW i \in Node, Isolated(i),
                        state[i] = "LEADER"
                 PROVE  since_cut <= LEASE_DURATION + Max2(LEASE_DURATION, HEARTBEAT_INTERVAL)
      BY DEF DeposedInTime
    <2>1. /\ LEASE_DURATION \in Nat /\ HEARTBEAT_INTERVAL \in Nat /\ since_cut \in Nat
          /\ Span \in Nat /\ None \notin Nat /\ LEASE_DURATION <= Span
      BY ConstantTypes DEF Span, Max2, Types, CutTypes
    <2>2. CASE cut = {}
      BY <2>1, <2>2 DEF CutTimed, Span
    <2>3. CASE cut # {}
      <3>1. NoNewWait(i) /\ LeaseOld(i) /\ (sleepers[i] # <<>> \/ lease_timer[i].age # None)
        BY <2>3 DEF Lonely, AwakeAt, CutOff, Alone
      <3>2. CASE sleepers[i] # <<>>
        <4>1. Len(sleepers[i]) \in Nat \ {0}
          BY <3>1, <3>2, EmptySeq DEF NoNewWait
        <4>2. PICK one : one = 1 /\ one \in 1..Len(sleepers[i])
          BY <4>1
        <4>3. sleepers[i][one] \in 0..(LEASE_DURATION - since_cut)
          BY <3>1, <4>2, ElementOfSeq DEF NoNewWait
        <4> QED BY <2>1, <4>3 DEF Span
      <3>3. CASE lease_timer[i].age # None
        <4>1. lease_timer[i].age \in 0..LEASE_DURATION
          BY <2>1, <3>3, TimerTypes DEF Types, TimerTypesOK
        <4> QED BY <2>1, <3>1, <3>3, <4>1 DEF LeaseOld, Span
      <3> QED BY <3>1, <3>2, <3>3
    <2> QED BY <2>2, <2>3
  <1>3. Types /\ CutTimed /\ Lonely /\ [Next]_vars => Types' /\ CutTimed' /\ Lonely'
    BY TypesNext, LonelyNext
  <1> QED BY <1>1, <1>2, <1>3, TypesInit, PTL DEF Spec
-----------------------------------------------------------------------------
(* The terms of the nodes while no link is cut. *)

\* No call is of a term its caller has not reached.
TermsKnown == \A c \in calls : c.term <= current_term[c.from]

\* A node has the term of another, or a request on its way that brings it.
Request(c, i) == c.stage = "request" /\ c.to = i
Reaches(i, j) ==
    \/ current_term[i] >= current_term[j]
    \/ \E c \in calls : Request(c, i) /\ c.term >= current_term[j]
Uncut == cuts = 0 => cut = {} /\ \A i, j \in Node : Reaches(i, j)

\* Terms only grow.
LEMMA TermsGrow ==
    ASSUME Types, [Next]_vars, NEW i \in Node
    PROVE  current_term[i] \in Nat /\ current_term'[i] \in Nat /\ current_term[i] <= current_term'[i]
  <1>1. current_term[i] \in Nat /\ current_term'[i] \in Nat
    BY TypesNext DEF Types, TermTypes
  <1>2. CASE UNCHANGED current_term
    BY <1>1, <1>2
  <1>3. ASSUME NEW n \in Node, StartElection(n) PROVE current_term[i] <= current_term'[i]
    BY <1>1, <1>3 DEF StartElection, Types, TermTypes
  <1>4. ASSUME NEW c \in calls, HandleRequestVote(c) \/ HandleAppendEntries(c)
        PROVE  current_term[i] <= current_term'[i]
    <2>1. PICK term \in Nat, old \in Nat : term = c.term /\ old = current_term[i]
      BY <1>1 DEF Types, CallTypes, CallType
    <2>2. current_term' = [current_term EXCEPT ![c.to] = Max2(@, c.term)]
      BY <1>4 DEF HandleRequestVote, HandleAppendEntries
    <2>3. current_term'[i] = old \/ current_term'[i] = Max2(old, term)
      BY <2>1, <2>2 DEF Types, TermTypes
    <2>4. old <= Max2(old, term)
      BY DEF Max2
    <2> QED BY <2>1, <2>3, <2>4
  <1>5. UNCHANGED current_term
        \/ (\E n \in Node : StartElection(n))
        \/ (\E c \in calls : HandleRequestVote(c) \/ HandleAppendEntries(c))
    BY DEF Next, vars, CheckElection, AcquireLease, LeaseTimeout, SendHeartbeats, ReceiveVote,
       CallFails, ReceiveAppendReply, Cut, Heal, Tick, termVars
  <1> QED BY <1>1, <1>2, <1>3, <1>4, <1>5

\* A new call has its caller's term, an answer the term of its call, and a tick changes
\* neither.
LEMMA CallTerms ==
    ASSUME Types, [Next]_vars, NEW d \in calls'
    PROVE  \/ \E c \in calls : d.from = c.from /\ d.term = c.term
           \/ d.from \in Node /\ d.term = current_term'[d.from]
  <1>1. \A lease : \A c \in calls :
            Reply(c, lease).from = c.from /\ Reply(c, lease).term = c.term
    BY DEF Reply, Types, CallTypes, CallType
  <1>2. CASE calls' \subseteq calls
    BY <1>2
  <1>3. ASSUME NEW n \in Node, StartElection(n) \/ AcquireLease(n) \/ SendHeartbeats(n),
               d \notin calls
        PROVE  d.from \in Node /\ d.term = current_term'[d.from]
    <2>1. \E kind, j : d = Call(kind, n, j, current_term'[n])
      BY <1>3 DEF StartElection, AcquireLease, SendHeartbeats, SendsHeartbeats, termVars
    <2> QED BY <2>1 DEF Call
  <1>4. ASSUME NEW c \in calls, HandleRequestVote(c) \/ HandleAppendEntries(c), d \notin calls
        PROVE  d.from = c.from /\ d.term = c.term
    <2>1. \E lease : d = Reply(c, lease)
      BY <1>4 DEF HandleRequestVote, HandleAppendEntries
    <2> QED BY <1>1, <2>1
  <1>5. CASE Tick
    <2>1. PICK c \in calls : d = [c EXCEPT !.left = @ - 1]
      BY <1>5 DEF Tick
    <2> QED BY <2>1 DEF Types, CallTypes, CallType
  <1>6. calls' \subseteq calls \/ Tick
        \/ (\E n \in Node : StartElection(n) \/ AcquireLease(n) \/ SendHeartbeats(n))
        \/ (\E c \in calls : HandleRequestVote(c) \/ HandleAppendEntries(c))
    BY DEF Next, vars, CheckElection, LeaseTimeout, ReceiveVote, CallFails,
       ReceiveAppendReply, Cut, Heal
  <1> QED BY <1>2, <1>3, <1>4, <1>5, <1>6

LEMMA TermsKnownNext ==
    ASSUME Types, TermsKnown, [Next]_vars
    PROVE  TermsKnown'
  <1> SUFFICES ASSUME NEW d \in calls' PROVE d.term <= current_term'[d.from]
    BY DEF TermsKnown
  <1>1. CASE d.from \in Node /\ d.term = current_term'[d.from]
    BY <1>1, TermsGrow
  <1>2. CASE \E c \in calls : d.from = c.from /\ d.term = c.term
    <2>1. PICK c \in calls : d.from = c.from /\ d.term = c.term
      BY <1>2
    <2>2. c.from \in Node /\ c.term \in Nat /\ c.term <= current_term[c.from]
      BY DEF Types, CallTypes, CallType, TermsKnown
    <2> QED BY <2>1, <2>2, TermsGrow
  <1> QED BY <1>1, <1>2, CallTerms

\* Where no link is cut, a request is gone only when it was handled.
LEMMA RequestsArrive ==
    ASSUME Types, [Next]_vars, cut = {}
    PROVE  \/ /\ UNCHANGED current_term
              /\ \A c \in calls : c.stage = "request"
                     => \E d \in calls' : Request(d, c.to) /\ d.term = c.term
           \/ \E n \in Node : StartElection(n)
           \/ \E c \in calls : /\ c.to \in Node /\ c.stage = "request"
                               /\ calls \ {c} \subseteq calls'
                               /\ current_term' = [current_term EXCEPT ![c.to] = Max2(@, c.term)]
  <1>1. CASE Tick
    <2>1. UNCHANGED current_term
      BY <1>1 DEF Tick, termVars
    <2>2. ASSUME NEW c \in calls, c.stage = "request"
          PROVE  \E d \in calls' : Request(d, c.to) /\ d.term = c.term
      <3>1. PICK d : d = [c EXCEPT !.left = @ - 1]
        OBVIOUS
      <3>2. d \in calls'
        BY <1>1, <3>1 DEF Tick
      <3>3. Request(d, c.to) /\ d.term = c.term
        BY <2>2, <3>1 DEF Request, Types, CallTypes, CallType
      <3> QED BY <3>2, <3>3
    <2> QED BY <2>1, <2>2
  <1>2. ASSUME NEW c \in calls, HandleRequestVote(c) \/ HandleAppendEntries(c)
        PROVE  /\ c.to \in Node /\ c.stage = "request" /\ calls \ {c} \subseteq calls'
               /\ current_term' = [current_term EXCEPT ![c.to] = Max2(@, c.term)]
    BY <1>2 DEF HandleRequestVote, HandleAppendEntries, Is, Types, CallTypes, CallType
  <1>3. CASE UNCHANGED current_term /\ \A c \in calls : c.stage = "request" => c \in calls'
    BY <1>3 DEF Request
  <1>4. ASSUME NEW c \in calls, ReceiveVote(c) \/ ReceiveAppendReply(c)
        PROVE  UNCHANGED current_term /\ \A d \in calls : d.stage = "request" => d \in calls'
    <2>1. c.stage = "reply" /\ calls' = calls \ {c} /\ UNCHANGED current_term
      BY <1>4 DEF ReceiveVote, ReceiveAppendReply, Is, termVars
    <2> QED BY <2>1
  <1>5. ASSUME NEW c \in calls, CallFails(c) PROVE FALSE
    BY <1>5 DEF CallFails
  <1>6. \/ Tick \/ (UNCHANGED current_term /\ calls \subseteq calls')
        \/ (\E n \in Node : StartElection(n))
        \/ (\E c \in calls : \/ HandleRequestVote(c) \/ HandleAppendEntries(c) \/ CallFails(c)
                             \/ ReceiveVote(c) \/ ReceiveAppendReply(c))
    BY DEF Next, vars, CheckElection, AcquireLease, LeaseTimeout, SendHeartbeats,
       SendsHeartbeats, Cut, Heal, termVars
  <1> QED BY <1>1, <1>2, <1>3, <1>4, <1>5, <1>6

\* A node that stands asks all others at once; one that takes over a term has it from a node
\* whose requests are under way to all others, or have arrived.
LEMMA UncutNext ==
    ASSUME Types, TermsKnown, Uncut, [Next]_vars
    PROVE  Uncut'
  <1>1. UNCHANGED <<cut, cuts>> \/ (\E links \in Partitions : Cut(links)) \/ Heal
    BY DEF Next, vars, cutVars, StartElection, CheckElection, AcquireLease, LeaseTimeout,
       SendHeartbeats, HandleRequestVote, ReceiveVote, CallFails, HandleAppendEntries,
       ReceiveAppendReply, Tick
  <1>2. CASE \E links \in Partitions : Cut(links)
    <2>1. cuts' = cuts + 1 /\ cuts \in Nat
      BY <1>2 DEF Cut, Types, CutTypes
    <2> QED BY <2>1 DEF Uncut
  <1>3. CASE Heal
    <2>1. cut' = {} /\ UNCHANGED <<cuts, current_term, calls>>
      BY <1>3 DEF Heal, termVars
    <2> QED BY <2>1 DEF Uncut, Reaches
  <1>4. CASE UNCHANGED <<cut, cuts>>
    <2> SUFFICES ASSUME cuts = 0, NEW i \in Node, NEW j \in Node PROVE Reaches(i, j)'
      BY <1>4 DEF Uncut
    <2>1. cut = {} /\ \A k, l \in Node : Reaches(k, l)
      BY DEF Uncut
    <2>2. \A k \in Node : current_term[k] \in Nat /\ current_term'[k] \in Nat
                          /\ current_term[k] <= current_term'[k]
      BY TermsGrow
    <2>3. \A c \in calls : c.term \in Nat /\ c.from \in Node /\ c.to \in Node
                           /\ c.term <= current_term[c.from]
      BY DEF Types, CallTypes, CallType, TermsKnown
    <2>4. CASE /\ UNCHANGED current_term
               /\ \A c \in calls : c.stage = "request"
                      => \E d \in calls' : Request(d, c.to) /\ d.term = c.term
      <3>1. CASE current_term[i] >= current_term[j]
        BY <2>4, <3>1 DEF Reaches
      <3>2. CASE \E c \in calls : Request(c, i) /\ c.term >= current_term[j]
        <4>1. PICK c \in calls : Request(c, i) /\ c.term >= current_term[j]
          BY <3>2
        <4>2. PICK d \in calls' : Request(d, i) /\ d.term = c.term
          BY <2>4, <4>1 DEF Request
        <4> QED BY <2>4, <4>1, <4>2 DEF Reaches
      <3> QED BY <2>1, <3>1, <3>2 DEF Reaches
    <2>5. ASSUME NEW n \in Node, StartElection(n) PROVE Reaches(i, j)'
      <3>1. /\ current_term' = [current_term EXCEPT ![n] = @ + 1]
            /\ calls' = calls \cup {Call("vote", n, k, current_term'[n]) : k \in Others(n)}
        BY <2>5 DEF StartElection
      <3>2. CASE j = n /\ i # n
        <4>1. PICK c : c = Call("vote", n, i, current_term'[n])
          OBVIOUS
        <4>2. c \in calls'
          BY <3>1, <3>2, <4>1 DEF Others
        <4>3. Request(c, i) /\ c.term = current_term'[j]
          BY <3>2, <4>1 DEF Call, Request
        <4> QED BY <2>2, <4>2, <4>3 DEF Reaches
      <3>3. CASE j # n
        <4>1. current_term'[j] = current_term[j]
          BY <3>1, <3>3 DEF Types, TermTypes
        <4>2. CASE current_term[i] >= current_term[j]
          BY <2>2, <4>1, <4>2 DEF Reaches
        <4>3. CASE \E c \in calls : Request(c, i) /\ c.term >= current_term[j]
          BY <3>1, <4>1, <4>3 DEF Reaches
        <4> QED BY <2>1, <4>2, <4>3 DEF Reaches
      <3>4. CASE i = j
        BY <2>2, <3>4 DEF Reaches
      <3> QED BY <3>2, <3>3, <3>4
    <2>6. ASSUME NEW c \in calls, c.to \in Node, c.stage = "request", calls \ {c} \subseteq calls',
                 current_term' = [current_term EXCEPT ![c.to] = Max2(@, c.term)]
          PROVE  Reaches(i, j)'
      <3>1. PICK n \in Node : n = c.to
        BY <2>6
      <3>2. PICK m \in Node : m = c.from
        BY <2>3
      <3>3. PICK term \in Nat : term = c.term /\ term <= current_term[m]
        BY <2>3, <3>2
      <3>4. current_term'[n] = current_term[n] \/ current_term'[n] = term
        BY <2>6, <3>1, <3>3 DEF Max2, Types, TermTypes
      <3>5. current_term'[n] >= term
        <4>1. current_term'[n] = Max2(current_term[n], term)
          BY <2>6, <3>1, <3>3 DEF Types, TermTypes
        <4> QED BY <2>2, <4>1 DEF Max2
      <3>6. \A k \in Node : k # n => current_term'[k] = current_term[k]
        BY <2>6, <3>1 DEF Types, TermTypes
      \* What reached another node before still does.
      <3>7. ASSUME NEW k \in Node, NEW l \in Node
            PROVE  \/ current_term'[k] >= current_term[l]
                   \/ \E d \in calls' : Request(d, k) /\ d.term >= current_term[l]
        <4>1. CASE current_term[k] >= current_term[l]
          BY <2>2, <4>1
        <4>2. CASE \E d \in calls : Request(d, k) /\ d.term >= current_term[l]
          <5>1. PICK d \in calls : Request(d, k) /\ d.term >= current_term[l]
            BY <4>2
          <5>2. CASE d = c
            <6>1. k = n /\ term >= current_term[l]
              BY <3>1, <3>3, <5>1, <5>2 DEF Request
            <6> QED BY <2>2, <3>5, <6>1
          <5>3. CASE d # c
            BY <2>6, <5>1, <5>3
          <5> QED BY <5>2, <5>3
        <4> QED BY <2>1, <4>1, <4>2 DEF Reaches
      <3>8. CASE current_term'[j] = current_term[j]
        BY <3>7, <3>8 DEF Reaches
      <3>9. CASE current_term'[j] # current_term[j]
        <4>1. j = n /\ current_term'[j] = term
          BY <3>4, <3>6, <3>9
        <4>2. CASE current_term'[i] >= current_term[m]
          BY <2>2, <3>3, <4>1, <4>2 DEF Reaches
        <4>3. CASE \E d \in calls' : Request(d, i) /\ d.term >= current_term[m]
          <5>1. PICK d \in calls' : Request(d, i) /\ d.term >= current_term[m]
            BY <4>3
          <5>2. d.term \in Nat
            BY TypesNext DEF Types, CallTypes, CallType
          <5>3. d.term >= current_term'[j]
            BY <2>2, <3>3, <4>1, <5>1, <5>2
          <5> QED BY <5>1, <5>3 DEF Reaches
        <4> QED BY <3>7, <4>2, <4>3
      <3> QED BY <3>8, <3>9
    <2> QED BY <2>1, <2>4, <2>5, <2>6, RequestsArrive
  <1> QED BY <1>1, <1>2, <1>3, <1>4

\* While no link was ever cut and calls take less than a tick, no two nodes hold leases of
\* different terms whenever time passes, for any number of nodes and any lengths of the
\* timers: when nothing is under way all nodes are in the same term.
THEOREM OneTermUncut ==
    ASSUME CALL_TIMEOUT = 0
    PROVE  Spec => []NoneOverlap
  <1>1. Init => TermsKnown /\ Uncut
    BY DEF Init, TermsKnown, Uncut, Reaches
  <1>2. Types /\ Uncut => NoneOverlap
    <2> SUFFICES ASSUME Types, Uncut, MayPass, cuts = 0, NEW i \in Node, NEW j \in Node
                 PROVE  current_term[i] = current_term[j]
      BY DEF NoneOverlap
    <2>1. \A c \in calls : c.left = 0
      BY DEF Types, CallTypes, CallType
    <2>2. \A c \in calls : FALSE
      BY <2>1 DEF MayPass
    <2>3. current_term[i] >= current_term[j] /\ current_term[j] >= current_term[i]
      BY <2>2 DEF Uncut, Reaches
    <2>4. current_term[i] \in Nat /\ current_term[j] \in Nat
      BY DEF Types, TermTypes
    <2> QED BY <2>3, <2>4
  <1>3. Types /\ TermsKnown /\ Uncut /\ [Next]_vars => Types' /\ TermsKnown' /\ Uncut'
    BY TypesNext, TermsKnownNext, UncutNext
  <1> QED BY <1>1, <1>2, <1>3, TypesInit, PTL DEF Spec
=============================================================================
