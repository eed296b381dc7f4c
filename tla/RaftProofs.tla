------------------------------ MODULE RaftProofs ------------------------------
(***************************************************************************)
(* Proofs about Raft for every set of nodes and values and every bound.    *)
(* Under every timing: TypeOK is inductive by itself.  OneVotePerTerm      *)
(* needs the strengthening VoteInv below: the vote of a node's current     *)
(* term is in its memory, or was read back as text, and its file agrees    *)
(* with it.                                                                *)
(* The last part is about what "late" records: until a vote is late a term *)
(* has one LEADER, elected in it, and until a node replicates that does    *)
(* not lead, AppendEntries come from the nodes elected.                    *)
(***************************************************************************)
EXTENDS RaftProperties, FiniteSetTheorems, SequenceTheorems,
        NaturalsInduction, WellFoundedInduction, TLAPS

USE NodeAssumption
-----------------------------------------------------------------------------
(* What the helper operators return. *)

\* Starting, cancelling and firing a timer gives a timer.
LEMMA TimerType ==
    ASSUME NEW t \in Timer
    PROVE  /\ Started(t) \in Timer /\ Cancelled(t) \in Timer /\ Restarted(t) \in Timer
           /\ Fired(t) \subseteq Timer
  <1>1. \A u \in Timer : Started(u) \in Timer /\ Cancelled(u) \in Timer
    <2> SUFFICES ASSUME NEW u \in Timer
                 PROVE  Started(u) \in Timer /\ Cancelled(u) \in Timer
      OBVIOUS
    <2>1. u.armed \in BOOLEAN /\ u.orphans \in Nat
      BY DEF Timer
    <2>2. u.orphans + (IF u.armed THEN 1 ELSE 0) \in Nat
      BY <2>1
    <2>3. Started(u) \in Timer
      BY <2>2 DEF Timer, Started
    <2>4. Cancelled(u) \in Timer
      BY DEF Timer, Cancelled
    <2> QED BY <2>3, <2>4
  <1>2. Fired(t) \subseteq Timer
    <2>1. ASSUME t.orphans > 0
          PROVE  [t EXCEPT !.orphans = t.orphans - 1] \in Timer
      BY <2>1 DEF Timer
    <2> QED BY <1>1, <2>1 DEF Fired
  <1> QED BY <1>1, <1>2 DEF Restarted

\* A timer that was never started is a timer.
LEMMA NewTimerType == NewTimer \in Timer
  BY DEF Timer, NewTimer

\* An all-zero row of lengths.
LEMMA ZerosType == Zeros \in [Node -> Nat]
  BY DEF Zeros

\* What save_state writes is a file.
LEMMA SavedType ==
    ASSUME NEW l \in Seq(Entry), NEW t \in Nat, NEW v \in Vote, NEW c \in Nat
    PROVE  Saved(l, t, v, c) \in File
  BY DEF Saved, File, Vote

\* The term of the last entry of a log.
LEMMA LastTermType == ASSUME NEW l \in Seq(Entry) PROVE LastTerm(l) \in Nat
  <1>1. CASE l = <<>>
    BY <1>1 DEF LastTerm
  <1>2. CASE l # <<>>
    <2>1. Len(l) \in 1..Len(l)
      BY <1>2, EmptySeq
    <2>2. l[Len(l)] \in Entry
      BY <2>1, ElementOfSeq
    <2> QED BY <2>2, <1>2 DEF LastTerm, Entry
  <1> QED BY <1>1, <1>2

\* A set of numbers with an upper bound has a greatest element.
LEMMA Greatest ==
    ASSUME NEW last \in Nat, NEW sets \in SUBSET (0..last), sets # {}
    PROVE  \E k \in sets : \A m \in sets : m <= k
  <1> DEFINE below == {last - k : k \in sets}
  <1>1. below \in SUBSET Nat /\ below # {}
    <2>1. \A k \in sets : last - k \in Nat
      OBVIOUS
    <2> QED BY <2>1
  <1>2. PICK x \in below : \A y \in below : <<y, x>> \notin OpToRel(<, Nat)
    BY <1>1, NatLessThanWellFounded, WFMin
  <1>3. \A y \in below : ~(y < x)
    BY <1>1, <1>2 DEF OpToRel
  <1>4. PICK k \in sets : x = last - k
    OBVIOUS
  <1>5. \A m \in sets : m <= k
    <2> SUFFICES ASSUME NEW m \in sets PROVE m <= k
      OBVIOUS
    <2>1. last - m \in below
      OBVIOUS
    <2>2. ~(last - m < last - k)
      BY <2>1, <1>3, <1>4
    <2> QED BY <2>2
  <1> QED BY <1>5

\* Applying entries to the store gives a value or None.
LEMMA AppliedType ==
    ASSUME NEW l \in Seq(Entry), NEW first \in Nat, NEW last \in Nat,
           NEW v \in Value \cup {None}
    PROVE  Applied(l, first, last, v) \in Value \cup {None}
  <1> DEFINE sets == {k \in first..last : k \in 1..Len(l) /\ l[k].value # None}
             latest == CHOOSE k \in sets : \A m \in sets : m <= k
  <1>1. CASE sets = {}
    BY <1>1 DEF Applied
  <1>2. CASE sets # {}
    <2>1. \E k \in sets : \A m \in sets : m <= k
      <3>1. sets \in SUBSET (0..last)
        OBVIOUS
      <3> HIDE DEF sets
      <3> QED BY <3>1, <1>2, Greatest
    <2>2. latest \in sets
      BY <2>1
    <2>3. l[latest] \in Entry
      BY <2>2, ElementOfSeq
    <2>4. l[latest].value \in Value \cup {None}
      BY <2>3 DEF Entry
    <2> QED BY <2>4, <1>2 DEF Applied
  <1> QED BY <1>1, <1>2

\* The end of a log, and the beginning of a log, are logs.
LEMMA SuffixType ==
    ASSUME NEW s \in Seq(Entry), NEW a \in Nat \ {0}
    PROVE  SubSeq(s, a, Len(s)) \in Seq(Entry)
  <1>1. Len(s) \in Nat /\ \A i \in a..Len(s) : s[i] \in Entry
    BY LenProperties, ElementOfSeq
  <1> QED BY <1>1, SubSeqProperties

LEMMA PrefixType ==
    ASSUME NEW s \in Seq(Entry), NEW n \in Nat, n <= Len(s)
    PROVE  SubSeq(s, 1, n) \in Seq(Entry) /\ Len(SubSeq(s, 1, n)) = n
  <1>1. Len(s) \in Nat /\ \A i \in 1..n : s[i] \in Entry
    BY LenProperties, ElementOfSeq
  <1>2. SubSeq(s, 1, n) \in Seq(Entry)
    BY <1>1, SubSeqProperties
  <1>3. Len(SubSeq(s, 1, n)) = n
    BY <1>1, SubSeqProperties
  <1> QED BY <1>2, <1>3

\* A log after AppendEntries is a log.
LEMMA AppendedLogType ==
    ASSUME NEW m \in AppendRequest, NEW l \in Seq(Entry), Follows(m, l)
    PROVE  AppendedLog(m, l) \in Seq(Entry)
  <1>1. /\ m.entries \in Seq(Entry) /\ m.prev \in Nat /\ m.prev <= Len(l)
        /\ Len(m.entries) \in Nat /\ Len(l) \in Nat
    BY LenProperties DEF AppendRequest, Follows
  <1> DEFINE conflict ==
                 /\ m.entries # <<>> /\ Len(l) > m.prev
                 /\ l[Min2(Len(l), m.prev + Len(m.entries))].term #
                        m.entries[Min2(Len(l), m.prev + Len(m.entries)) - m.prev].term
             kept == IF conflict THEN SubSeq(l, 1, m.prev) ELSE l
  <1>2. kept \in Seq(Entry) /\ Len(kept) \in Nat /\ Len(kept) >= m.prev
    <2>1. CASE conflict
      BY <2>1, <1>1, PrefixType
    <2>2. CASE ~conflict
      BY <2>2, <1>1
    <2> QED BY <2>1, <2>2
  <1>3. AppendedLog(m, l) =
            IF m.prev + Len(m.entries) > Len(kept)
            THEN kept \o SubSeq(m.entries, Len(kept) - m.prev + 1, Len(m.entries))
            ELSE kept
    BY DEF AppendedLog
  <1> HIDE DEF kept
  <1>4. Len(kept) - m.prev + 1 \in Nat \ {0}
    <2>1. \A a, b \in Nat : a >= b => a - b + 1 \in Nat \ {0}
      OBVIOUS
    <2>2. m.prev \in Nat /\ Len(kept) \in Nat /\ Len(kept) >= m.prev
      BY <1>1, <1>2
    <2> QED BY <2>1, <2>2, Zenon
  <1>5. SubSeq(m.entries, Len(kept) - m.prev + 1, Len(m.entries)) \in Seq(Entry)
    BY <1>1, <1>4, SuffixType
  <1>6. kept \o SubSeq(m.entries, Len(kept) - m.prev + 1, Len(m.entries)) \in Seq(Entry)
    BY <1>2, <1>5, ConcatProperties
  <1> QED BY <1>2, <1>3, <1>6
-----------------------------------------------------------------------------
(* Type correctness: one lemma per action, one step per part of TypeOK. *)

USE DEF roleVars, durableVars, leaderVars, timerVars, electionRpc, appendRpc,
        otherVars, faultVars

\* The initial state is well typed.
LEMMA InitType == Init => TypeOK
  <1> SUFFICES ASSUME Init PROVE TypeOK
    OBVIOUS
  <1>1. NodeTypeOK
    BY ZerosType, EmptySeq DEF Init, NodeTypeOK, State, Vote
  <1>2. TimerTypeOK
    BY ZerosType, NewTimerType, TimerType DEF Init, TimerTypeOK
  <1>3. DiskTypeOK
    <2>1. Saved(<<>>, 0, None, 0) \in File
      BY SavedType, EmptySeq DEF Vote
    <2> QED BY <2>1 DEF Init, DiskTypeOK
  <1>4. CallTypeOK
    BY DEF Init, CallTypeOK
  <1>5. OtherTypeOK
    BY DEF Init, OtherTypeOK
  <1> QED BY <1>1, <1>2, <1>3, <1>4, <1>5 DEF TypeOK

\* save_state writes a file when what it writes is typed.
LEMMA SaveStateType ==
    ASSUME DiskTypeOK, NodeTypeOK', NEW i \in Node, SaveState(i)
    PROVE  DiskTypeOK'
  <1>1. Saved(log'[i], current_term'[i], voted_for'[i], commit_length'[i]) \in File
    BY SavedType DEF NodeTypeOK
  <1> QED BY <1>1 DEF SaveState, DiskTypeOK

\* step_down keeps the types of what it assigns.
LEMMA StepDownType ==
    ASSUME NodeTypeOK, TimerTypeOK, NEW i \in Node, NEW t \in Timer, StepDown(i, t)
    PROVE  /\ state' \in [Node -> State]
           /\ votes_received' \in [Node -> SUBSET Node]
           /\ sent_length' \in [Node -> [Node -> Nat]]
           /\ acked_length' \in [Node -> [Node -> Nat]]
           /\ election_timer' \in [Node -> Timer]
           /\ heartbeat_timer' \in [Node -> Timer]
           /\ lease_timer' \in [Node -> Timer]
  <1>1. /\ Restarted(election_timer[i]) \in Timer /\ Cancelled(t) \in Timer
        /\ Cancelled(heartbeat_timer[i]) \in Timer
    BY TimerType DEF TimerTypeOK
  <1>2. /\ election_timer' \in [Node -> Timer]
        /\ heartbeat_timer' \in [Node -> Timer]
        /\ lease_timer' \in [Node -> Timer]
    BY <1>1 DEF StepDown, TimerTypeOK
  <1>3. /\ state' \in [Node -> State]
        /\ votes_received' \in [Node -> SUBSET Node]
        /\ sent_length' \in [Node -> [Node -> Nat]]
        /\ acked_length' \in [Node -> [Node -> Nat]]
    BY ZerosType DEF StepDown, NodeTypeOK, State
  <1> QED BY <1>2, <1>3

\* A node stands for election.
LEMMA StartElectionType ==
    ASSUME TypeOK, NEW i \in Node, StartElection(i)
    PROVE  TypeOK'
  <1> USE DEF TypeOK
  <1>1. NodeTypeOK'
    <2>1. state' \in [Node -> State]
      BY DEF StartElection, NodeTypeOK, State
    <2>2. current_term' \in [Node -> Nat]
      BY DEF StartElection, NodeTypeOK
    <2>3. voted_for' \in [Node -> Vote]
      BY DEF StartElection, NodeTypeOK, Vote
    <2>4. votes_received' \in [Node -> SUBSET Node]
      BY DEF StartElection, NodeTypeOK
    <2> QED BY <2>1, <2>2, <2>3, <2>4 DEF StartElection, NodeTypeOK
  <1>2. TimerTypeOK'
    <2>1. PICK t \in Fired(election_timer[i]) :
              election_timer' = [election_timer EXCEPT ![i] = t]
      BY DEF StartElection
    <2>2. t \in Timer
      BY TimerType DEF TimerTypeOK
    <2> QED BY <2>1, <2>2 DEF StartElection, TimerTypeOK
  <1>3. DiskTypeOK'
    BY <1>1, SaveStateType DEF StartElection
  <1>4. CallTypeOK'
    <2>1. LastTerm(log[i]) \in Nat /\ current_term'[i] \in Nat
      BY <1>1, LastTermType DEF NodeTypeOK
    <2>2. {[from |-> i, to |-> j, round |-> current_term'[i],
            last_term |-> LastTerm(log[i])] : j \in Others(i)} \subseteq VoteTask
      BY <2>1 DEF VoteTask, Others
    <2> QED BY <2>2 DEF StartElection, CallTypeOK, appendRpc
  <1>5. OtherTypeOK'
    <2>1. current_term'[i] \in Nat
      BY <1>1 DEF NodeTypeOK
    <2> QED BY <2>1 DEF StartElection, OtherTypeOK, faultVars
  <1> QED BY <1>1, <1>2, <1>3, <1>4, <1>5

\* A vote thread sends its request.
LEMMA SendRequestVoteType ==
    ASSUME TypeOK, NEW t \in vote_tasks, SendRequestVote(t)
    PROVE  TypeOK'
  <1> USE DEF TypeOK
  <1>1. NodeTypeOK' /\ TimerTypeOK' /\ DiskTypeOK' /\ OtherTypeOK'
    BY DEF SendRequestVote, InTime, NodeTypeOK, TimerTypeOK, DiskTypeOK, OtherTypeOK
  <1>2. CallTypeOK'
    <2>1. t \in VoteTask
      BY DEF CallTypeOK
    <2>2. t.from \in Node /\ t.to \in Node /\ t.round \in Nat /\ t.last_term \in Nat
      BY <2>1 DEF VoteTask
    <2>3. current_term[t.from] \in Nat /\ Len(log[t.from]) \in Nat
      BY <2>2, LenProperties DEF NodeTypeOK
    <2>4. [from |-> t.from, to |-> t.to, round |-> t.round, live |-> TRUE,
           term |-> current_term[t.from], last_log_index |-> Len(log[t.from]),
           last_log_term |-> t.last_term] \in VoteRequest
      BY <2>2, <2>3 DEF VoteRequest
    <2> QED BY <2>4 DEF SendRequestVote, CallTypeOK
  <1> QED BY <1>1, <1>2

\* A node answers a vote request.
LEMMA HandleRequestVoteType ==
    ASSUME TypeOK, NEW m \in vote_requests, HandleRequestVote(m)
    PROVE  TypeOK'
  <1> DEFINE i == m.to
  <1> USE DEF TypeOK
  <1>1. m \in VoteRequest
    BY DEF CallTypeOK
  <1>2. /\ i \in Node /\ m.from \in Node /\ m.term \in Nat /\ m.round \in Nat
        /\ current_term[i] \in Nat /\ lease_timer[i] \in Timer
    BY <1>1 DEF VoteRequest, NodeTypeOK, TimerTypeOK
  <1> HIDE DEF i
  <1>3. /\ state' \in [Node -> State]
        /\ votes_received' \in [Node -> SUBSET Node]
        /\ sent_length' \in [Node -> [Node -> Nat]]
        /\ acked_length' \in [Node -> [Node -> Nat]]
        /\ election_timer' \in [Node -> Timer]
        /\ heartbeat_timer' \in [Node -> Timer]
        /\ lease_timer' \in [Node -> Timer]
    <2>1. StepDown(i, lease_timer[i]) \/ UNCHANGED roleVars
      BY DEF HandleRequestVote, i
    <2>2. CASE StepDown(i, lease_timer[i])
      BY <2>2, <1>2, StepDownType
    <2>3. CASE UNCHANGED roleVars
      BY <2>3 DEF NodeTypeOK, TimerTypeOK
    <2> QED BY <2>1, <2>2, <2>3
  <1>4. current_term' \in [Node -> Nat]
    BY <1>2 DEF HandleRequestVote, NodeTypeOK, Max2, i
  <1>5. voted_for' \in [Node -> Vote]
    <2>1. VoteBefore(i, m) \in Vote /\ m.from \in Vote
      BY <1>2 DEF VoteBefore, NodeTypeOK, Vote
    <2>2. (IF Grants(i, m) THEN m.from ELSE VoteBefore(i, m)) \in Vote
      BY <2>1
    <2> QED BY <2>2 DEF HandleRequestVote, NodeTypeOK, i
  <1>6. NodeTypeOK'
    BY <1>3, <1>4, <1>5 DEF HandleRequestVote, NodeTypeOK
  <1>7. TimerTypeOK'
    BY <1>3 DEF HandleRequestVote, TimerTypeOK
  <1>8. DiskTypeOK'
    <2>1. SaveState(i) \/ UNCHANGED disk
      BY DEF HandleRequestVote, i
    <2>2. CASE SaveState(i)
      BY <2>2, <1>2, <1>6, SaveStateType
    <2>3. CASE UNCHANGED disk
      BY <2>3 DEF DiskTypeOK
    <2> QED BY <2>1, <2>2, <2>3
  <1>9. CallTypeOK'
    <2>1. [from |-> i, to |-> m.from, round |-> m.round] \in VoteReply
      BY <1>2 DEF VoteReply
    <2>2. vote_replies' \subseteq
              vote_replies \cup {[from |-> i, to |-> m.from, round |-> m.round]}
      BY DEF HandleRequestVote, i
    <2>3. vote_replies' \subseteq VoteReply
      BY <2>1, <2>2 DEF CallTypeOK
    <2> QED BY <2>3 DEF HandleRequestVote, CallTypeOK
  <1>10. OtherTypeOK'
    <2>1. grants' \subseteq
              grants \cup {[voter |-> i, candidate |-> m.from, term |-> m.term]}
      BY DEF HandleRequestVote, i
    <2>2. grants' \subseteq [voter : Node, candidate : Node, term : Nat]
      BY <2>1, <1>2 DEF OtherTypeOK
    <2> QED BY <2>2 DEF HandleRequestVote, OtherTypeOK
  <1> QED BY <1>6, <1>7, <1>8, <1>9, <1>10

\* A vote is counted.
LEMMA ReceiveVoteType ==
    ASSUME TypeOK, NEW r \in vote_replies, ReceiveVote(r)
    PROVE  TypeOK'
  <1> USE DEF TypeOK
  <1>1. r.to \in Node /\ r.from \in Node
    BY DEF CallTypeOK, VoteReply
  <1>2. NodeTypeOK'
    <2>1. votes_received' = [votes_received EXCEPT ![r.to] = @ \cup {r.from}]
      BY DEF ReceiveVote
    <2>2. votes_received' \in [Node -> SUBSET Node]
      <3>1. votes_received \in [Node -> SUBSET Node]
        BY DEF NodeTypeOK
      <3> HIDE DEF TypeOK
      <3>2. votes_received[r.to] \cup {r.from} \in SUBSET Node
        BY <3>1, <1>1
      <3> QED BY <2>1, <3>1, <3>2
    <2>3. UNCHANGED <<state, sent_length, acked_length, durableVars, data_store,
                      heartbeat_success_count>>
      BY DEF ReceiveVote
    <2> QED BY <2>2, <2>3 DEF NodeTypeOK, durableVars
  <1>3. TimerTypeOK' /\ DiskTypeOK'
    BY DEF ReceiveVote, TimerTypeOK, DiskTypeOK
  <1>4. CallTypeOK'
    BY DEF ReceiveVote, CallTypeOK
  <1>5. OtherTypeOK'
    BY DEF ReceiveVote, InTime, OtherTypeOK
  <1> QED BY <1>2, <1>3, <1>4, <1>5

\* A vote call fails.
LEMMA VoteCallFailsType ==
    ASSUME TypeOK, VoteCallFails
    PROVE  TypeOK'
  <1> USE DEF TypeOK
  <1>1. NodeTypeOK' /\ TimerTypeOK' /\ DiskTypeOK' /\ OtherTypeOK'
    <2>1. UNCHANGED <<roleVars, durableVars, data_store, heartbeat_success_count,
                      checks, leader_waits, client, grants, late, crashes>>
          /\ failures' = failures + 1
      BY DEF VoteCallFails
    <2>2. NodeTypeOK'
      BY <2>1 DEF NodeTypeOK
    <2>3. TimerTypeOK'
      BY <2>1 DEF TimerTypeOK
    <2>4. DiskTypeOK' /\ OtherTypeOK'
      BY <2>1 DEF DiskTypeOK, OtherTypeOK
    <2> QED BY <2>2, <2>3, <2>4
  <1>2. vote_requests' \subseteq VoteRequest /\ vote_replies' \subseteq VoteReply
    <2>1. CASE \E m \in vote_requests :
                   /\ vote_requests' =
                          (vote_requests \ {m}) \cup {[m EXCEPT !.live = FALSE]}
                   /\ UNCHANGED vote_replies
      <3>1. \A m \in VoteRequest : [m EXCEPT !.live = FALSE] \in VoteRequest
        BY DEF VoteRequest
      <3> QED BY <2>1, <3>1 DEF CallTypeOK
    <2>2. CASE \E r \in vote_replies :
                   vote_replies' = vote_replies \ {r} /\ UNCHANGED vote_requests
      BY <2>2 DEF CallTypeOK
    <2> QED BY <2>1, <2>2 DEF VoteCallFails
  <1>3. CallTypeOK'
    BY <1>2 DEF VoteCallFails, CallTypeOK
  <1> QED BY <1>1, <1>3

\* The election is decided.
LEMMA CheckElectionType ==
    ASSUME TypeOK, NEW i \in Node, CheckElection(i)
    PROVE  TypeOK'
  <1> USE DEF TypeOK
  <1>1. DiskTypeOK' /\ CallTypeOK' /\ OtherTypeOK'
    BY DEF CheckElection, DiskTypeOK, CallTypeOK, OtherTypeOK
  <1>2. checks' \in [Node -> Nat] /\ leader_waits' \in [Node -> Nat]
    <2>1. checks[i] - 1 \in Nat
      BY DEF CheckElection, TimerTypeOK
    <2>2. checks' = [checks EXCEPT ![i] = @ - 1]
      BY DEF CheckElection
    <2>3. leader_waits' = [leader_waits EXCEPT ![i] = @ + 1] \/ UNCHANGED leader_waits
      BY DEF CheckElection
    <2>4. checks \in [Node -> Nat] /\ leader_waits \in [Node -> Nat]
      BY DEF TimerTypeOK
    <2> HIDE DEF TypeOK
    <2>5. checks' \in [Node -> Nat]
      BY <2>1, <2>2, <2>4
    <2>6. leader_waits' \in [Node -> Nat]
      BY <2>3, <2>4
    <2> QED BY <2>5, <2>6
  <1>3. CASE Elected(i)
    <2>1. NodeTypeOK'
      <3>1. [j \in Node |-> Len(log[i])] \in [Node -> Nat]
        BY LenProperties DEF NodeTypeOK
      <3>2. /\ state' = [state EXCEPT ![i] = "LEADER"]
            /\ votes_received' = [votes_received EXCEPT ![i] = {}]
            /\ sent_length' = [sent_length EXCEPT ![i] = [j \in Node |-> Len(log[i])]]
            /\ acked_length' = [acked_length EXCEPT ![i] = Zeros]
            /\ UNCHANGED <<durableVars, data_store, heartbeat_success_count>>
        BY <1>3 DEF CheckElection
      <3> QED BY <3>1, <3>2, ZerosType DEF NodeTypeOK, State
    <2>2. TimerTypeOK'
      <3>1. /\ Cancelled(election_timer[i]) \in Timer
            /\ Cancelled(heartbeat_timer[i]) \in Timer
            /\ Cancelled(lease_timer[i]) \in Timer
        BY TimerType DEF TimerTypeOK
      <3>2. /\ election_timer' = [election_timer EXCEPT ![i] = Cancelled(@)]
            /\ heartbeat_timer' = [heartbeat_timer EXCEPT ![i] = Cancelled(@)]
            /\ lease_timer' = [lease_timer EXCEPT ![i] = Cancelled(@)]
        BY <1>3 DEF CheckElection
      <3> QED BY <1>2, <3>1, <3>2 DEF TimerTypeOK
    <2> QED BY <1>1, <2>1, <2>2
  <1>4. CASE ~Elected(i)
    <2>1. NodeTypeOK'
      BY <1>4 DEF CheckElection, NodeTypeOK
    <2>2. TimerTypeOK'
      <3>1. Started(election_timer[i]) \in Timer
        BY TimerType DEF TimerTypeOK
      <3> QED BY <1>2, <1>4, <3>1 DEF CheckElection, TimerTypeOK
    <2> QED BY <1>1, <2>1, <2>2
  <1> QED BY <1>3, <1>4

\* send_heartbeats keeps the types of what it assigns.
LEMMA SendsHeartbeatsType ==
    ASSUME TypeOK, NEW i \in Node, NEW t \in Timer, NEW u \in Timer,
           SendsHeartbeats(i, t, u)
    PROVE  /\ append_tasks' \subseteq AppendTask
           /\ lease_timer' \in [Node -> Timer]
           /\ heartbeat_timer' \in [Node -> Timer]
           /\ heartbeat_success_count' \in [Node -> SUBSET Node]
  <1> USE DEF TypeOK
  <1>1. append_tasks' \subseteq AppendTask
    <2>1. \A j \in Others(i) : (CHOOSE s \in FreeSlots(i, j) : TRUE) \in 1..MaxCalls
      <3>1. \A j \in Others(i) : FreeSlots(i, j) # {}
        BY DEF SendsHeartbeats
      <3>2. \A j \in Others(i) : FreeSlots(i, j) \subseteq 1..MaxCalls
        BY DEF FreeSlots
      <3> QED BY <3>1, <3>2
    <2>2. {[from |-> i, to |-> j, slot |-> CHOOSE s \in FreeSlots(i, j) : TRUE] :
               j \in Others(i)} \subseteq AppendTask
      BY <2>1 DEF AppendTask, Others
    <2> QED BY <2>2 DEF SendsHeartbeats, CallTypeOK
  <1>2. lease_timer' \in [Node -> Timer]
    <2>1. Restarted(u) \in Timer
      BY TimerType
    <2> QED BY <2>1 DEF SendsHeartbeats, TimerTypeOK
  <1>3. heartbeat_timer' \in [Node -> Timer]
    <2>1. Started(t) \in Timer
      BY TimerType
    <2> QED BY <2>1 DEF SendsHeartbeats, TimerTypeOK
  <1>4. heartbeat_success_count' \in [Node -> SUBSET Node]
    BY DEF SendsHeartbeats, NodeTypeOK
  <1> QED BY <1>1, <1>2, <1>3, <1>4

\* A log with one more entry is a log.
LEMMA AppendType ==
    ASSUME NodeTypeOK, NEW i \in Node, NEW v \in Value \cup {None},
           log' = [log EXCEPT ![i] = Append(@, [term |-> current_term[i], value |-> v])]
    PROVE  log' \in [Node -> Seq(Entry)]
  <1>1. [term |-> current_term[i], value |-> v] \in Entry
    BY DEF NodeTypeOK, Entry
  <1>2. Append(log[i], [term |-> current_term[i], value |-> v]) \in Seq(Entry)
    BY <1>1, AppendProperties DEF NodeTypeOK
  <1> QED BY <1>2 DEF NodeTypeOK

\* A winner wakes up from the lease wait.
LEMMA AcquireLeaseType ==
    ASSUME TypeOK, NEW i \in Node, AcquireLease(i)
    PROVE  TypeOK'
  <1> USE DEF TypeOK
  <1>1. /\ append_tasks' \subseteq AppendTask
        /\ lease_timer' \in [Node -> Timer]
        /\ heartbeat_timer' \in [Node -> Timer]
        /\ heartbeat_success_count' \in [Node -> SUBSET Node]
    <2>1. Started(lease_timer[i]) \in Timer /\ heartbeat_timer[i] \in Timer
      BY TimerType DEF TimerTypeOK
    <2> QED BY <2>1, SendsHeartbeatsType DEF AcquireLease
  <1>2. NodeTypeOK'
    <2>1. log' \in [Node -> Seq(Entry)]
      BY AppendType DEF AcquireLease
    <2> QED BY <1>1, <2>1 DEF AcquireLease, NodeTypeOK
  <1>3. TimerTypeOK'
    <2>1. leader_waits[i] - 1 \in Nat
      BY DEF AcquireLease, TimerTypeOK
    <2> QED BY <1>1, <2>1 DEF AcquireLease, TimerTypeOK
  <1>4. DiskTypeOK'
    BY <1>2, SaveStateType DEF AcquireLease
  <1>5. CallTypeOK' /\ OtherTypeOK'
    BY <1>1 DEF AcquireLease, InTime, CallTypeOK, OtherTypeOK
  <1> QED BY <1>2, <1>3, <1>4, <1>5

\* A lease runs out.
LEMMA LeaseTimeoutType ==
    ASSUME TypeOK, NEW i \in Node, LeaseTimeout(i)
    PROVE  TypeOK'
  <1> USE DEF TypeOK
  <1>1. PICK t \in Fired(lease_timer[i]) : StepDown(i, t)
    BY DEF LeaseTimeout
  <1>2. t \in Timer
    BY TimerType DEF TimerTypeOK
  <1>3. /\ state' \in [Node -> State]
        /\ votes_received' \in [Node -> SUBSET Node]
        /\ sent_length' \in [Node -> [Node -> Nat]]
        /\ acked_length' \in [Node -> [Node -> Nat]]
        /\ election_timer' \in [Node -> Timer]
        /\ heartbeat_timer' \in [Node -> Timer]
        /\ lease_timer' \in [Node -> Timer]
    BY <1>1, <1>2, StepDownType
  <1>4. NodeTypeOK'
    BY <1>3 DEF LeaseTimeout, NodeTypeOK
  <1>5. TimerTypeOK'
    BY <1>3 DEF LeaseTimeout, TimerTypeOK
  <1>6. DiskTypeOK' /\ CallTypeOK' /\ OtherTypeOK'
    BY DEF LeaseTimeout, DiskTypeOK, CallTypeOK, OtherTypeOK
  <1> QED BY <1>4, <1>5, <1>6

\* A heartbeat.
LEMMA SendHeartbeatsType ==
    ASSUME TypeOK, NEW i \in Node, SendHeartbeats(i)
    PROVE  TypeOK'
  <1> USE DEF TypeOK
  <1>1. PICK t \in Fired(heartbeat_timer[i]) : SendsHeartbeats(i, t, lease_timer[i])
    BY DEF SendHeartbeats
  <1>2. t \in Timer /\ lease_timer[i] \in Timer
    BY TimerType DEF TimerTypeOK
  <1>3. /\ append_tasks' \subseteq AppendTask
        /\ lease_timer' \in [Node -> Timer]
        /\ heartbeat_timer' \in [Node -> Timer]
        /\ heartbeat_success_count' \in [Node -> SUBSET Node]
    BY <1>1, <1>2, SendsHeartbeatsType
  <1>4. NodeTypeOK'
    BY <1>3 DEF SendHeartbeats, NodeTypeOK
  <1>5. TimerTypeOK'
    BY <1>3 DEF SendHeartbeats, TimerTypeOK
  <1>6. DiskTypeOK' /\ CallTypeOK' /\ OtherTypeOK'
    BY <1>3 DEF SendHeartbeats, DiskTypeOK, CallTypeOK, OtherTypeOK
  <1> QED BY <1>4, <1>5, <1>6

\* A replication thread sends its request.
LEMMA SendAppendEntriesType ==
    ASSUME TypeOK, NEW t \in append_tasks, SendAppendEntries(t)
    PROVE  TypeOK'
  <1> USE DEF TypeOK
  <1> DEFINE i == t.from
             prefix == sent_length[i][t.to]
             request ==
                 [from |-> i, to |-> t.to, slot |-> t.slot, live |-> TRUE,
                  term |-> current_term[i], prev |-> prefix,
                  prev_term |-> IF prefix > 0 THEN log[i][prefix].term ELSE 0,
                  entries |-> SubSeq(log[i], prefix + 1, Len(log[i])),
                  commit |-> commit_length[i]]
  <1>1. NodeTypeOK' /\ TimerTypeOK' /\ DiskTypeOK' /\ OtherTypeOK'
    BY DEF SendAppendEntries, InTime, NodeTypeOK, TimerTypeOK, DiskTypeOK, OtherTypeOK
  <1>2. /\ i \in Node /\ t.to \in Node /\ t.slot \in 0..MaxCalls
        /\ log[i] \in Seq(Entry) /\ prefix \in Nat /\ current_term[i] \in Nat
        /\ commit_length[i] \in Nat
    <2>1. t \in AppendTask
      BY DEF CallTypeOK
    <2>2. i \in Node /\ t.to \in Node /\ t.slot \in 0..MaxCalls
      BY <2>1 DEF AppendTask
    <2>3. /\ log[i] \in Seq(Entry) /\ sent_length[i][t.to] \in Nat
          /\ current_term[i] \in Nat /\ commit_length[i] \in Nat
      <3>1. sent_length[i] \in [Node -> Nat]
        BY <2>2 DEF NodeTypeOK
      <3>2. sent_length[i][t.to] \in Nat
        BY <2>2, <3>1
      <3>3. log[i] \in Seq(Entry) /\ current_term[i] \in Nat /\ commit_length[i] \in Nat
        BY <2>2 DEF NodeTypeOK
      <3> QED BY <3>2, <3>3
    <2> QED BY <2>2, <2>3
  <1>3. ASSUME prefix <= Len(log[i]) PROVE request \in AppendRequest
    <2>1. (IF prefix > 0 THEN log[i][prefix].term ELSE 0) \in Nat
      <3>1. CASE prefix > 0
        <4>1. log[i][prefix] \in Entry
          BY <3>1, <1>2, <1>3, ElementOfSeq
        <4> QED BY <4>1 DEF Entry
      <3>2. CASE ~(prefix > 0)
        BY <3>2
      <3> QED BY <3>1, <3>2
    <2>2. SubSeq(log[i], prefix + 1, Len(log[i])) \in Seq(Entry)
      <3> HIDE DEF prefix, i, TypeOK
      <3>1. prefix + 1 \in Nat \ {0}
        BY <1>2
      <3> QED BY <3>1, <1>2, SuffixType
    <2> HIDE DEF prefix, i
    <2> QED BY <2>1, <2>2, <1>2 DEF AppendRequest
  <1>4. append_requests' \subseteq AppendRequest
    <2>1. append_requests' = IF prefix <= Len(log[i]) THEN append_requests \cup {request}
                             ELSE append_requests
      BY DEF SendAppendEntries
    <2> HIDE DEF request
    <2> QED BY <2>1, <1>3 DEF CallTypeOK
  <1>5. CallTypeOK'
    BY <1>4 DEF SendAppendEntries, CallTypeOK
  <1> QED BY <1>1, <1>5

\* A node answers AppendEntries.
LEMMA HandleAppendEntriesType ==
    ASSUME TypeOK, NEW m \in append_requests, HandleAppendEntries(m)
    PROVE  TypeOK'
  <1> DEFINE i == m.to
             newer == m.term > current_term[i]
             accept == m.term >= current_term[i] /\ Follows(m, log[i])
             newLog == IF accept THEN AppendedLog(m, log[i]) ELSE log[i]
             commits == accept /\ LeaderAhead(m, commit_length[i])
             raises == commits /\ m.commit > Len(newLog)
  <1> USE DEF TypeOK
  <1>1. m \in AppendRequest
    BY DEF CallTypeOK
  <1>2. /\ i \in Node /\ m.from \in Node /\ m.term \in Nat /\ m.prev \in Nat
        /\ m.commit \in Nat /\ m.slot \in 0..MaxCalls /\ m.entries \in Seq(Entry)
    BY <1>1 DEF AppendRequest
  <1>3. /\ current_term[i] \in Nat /\ commit_length[i] \in Nat /\ log[i] \in Seq(Entry)
        /\ data_store[i] \in Value \cup {None} /\ lease_timer[i] \in Timer
    BY <1>2 DEF NodeTypeOK, TimerTypeOK
  <1>4. newLog \in Seq(Entry)
    BY <1>1, <1>3, AppendedLogType
  <1>5. /\ state' \in [Node -> State]
        /\ votes_received' \in [Node -> SUBSET Node]
        /\ sent_length' \in [Node -> [Node -> Nat]]
        /\ acked_length' \in [Node -> [Node -> Nat]]
        /\ election_timer' \in [Node -> Timer]
        /\ heartbeat_timer' \in [Node -> Timer]
        /\ lease_timer' \in [Node -> Timer]
    <2>1. \/ StepDown(i, lease_timer[i])
          \/ /\ state' = [state EXCEPT ![i] = "FOLLOWER"]
             /\ election_timer' = [election_timer EXCEPT ![i] = Restarted(@)]
             /\ UNCHANGED <<leaderVars, heartbeat_timer, lease_timer>>
          \/ UNCHANGED roleVars
      BY DEF HandleAppendEntries
    <2>2. CASE StepDown(i, lease_timer[i])
      <3> HIDE DEF i
      <3> QED BY <2>2, <1>2, <1>3, StepDownType
    <2>3. CASE /\ state' = [state EXCEPT ![i] = "FOLLOWER"]
               /\ election_timer' = [election_timer EXCEPT ![i] = Restarted(@)]
               /\ UNCHANGED <<leaderVars, heartbeat_timer, lease_timer>>
      <3>1. Restarted(election_timer[i]) \in Timer
        BY <1>2, TimerType DEF TimerTypeOK
      <3> QED BY <2>3, <3>1 DEF NodeTypeOK, TimerTypeOK, State
    <2>4. CASE UNCHANGED roleVars
      BY <2>4 DEF NodeTypeOK, TimerTypeOK
    <2> QED BY <2>1, <2>2, <2>3, <2>4
  <1>6. /\ current_term' = [current_term EXCEPT ![i] = Max2(@, m.term)]
        /\ voted_for' = [voted_for EXCEPT ![i] = IF newer THEN None ELSE @]
        /\ log' = [log EXCEPT ![i] = newLog]
        /\ commit_length' = [commit_length EXCEPT ![i] =
                                 IF commits /\ ~raises THEN m.commit ELSE @]
        /\ data_store' = [data_store EXCEPT ![i] =
               IF commits THEN Applied(newLog, commit_length[i] + 1, m.commit, @) ELSE @]
        /\ UNCHANGED <<heartbeat_success_count, checks, leader_waits>>
    BY DEF HandleAppendEntries
  <1>7. \/ SaveState(i)
        \/ disk' = [disk EXCEPT ![i] = Saved(log[i], m.term, None, commit_length[i])]
        \/ UNCHANGED disk
    BY DEF HandleAppendEntries
  <1>8. /\ append_requests' = append_requests \ {m}
        /\ append_replies' \subseteq append_replies \cup
               {[from |-> i, to |-> m.from, slot |-> m.slot, term |-> m.term,
                 success |-> accept,
                 upto |-> IF accept THEN m.prev + Len(m.entries) ELSE 0]}
        /\ UNCHANGED <<electionRpc, append_tasks, otherVars>>
    BY DEF HandleAppendEntries
  <1>9. accept \in BOOLEAN /\ Len(m.entries) \in Nat
    BY <1>2, LenProperties
  <1> HIDE DEF accept, newLog, commits, raises, newer, i
  <1>10. NodeTypeOK'
    <2>1. current_term' \in [Node -> Nat]
      BY <1>2, <1>3, <1>6 DEF NodeTypeOK, Max2
    <2>2. voted_for' \in [Node -> Vote]
      BY <1>6 DEF NodeTypeOK, Vote
    <2>3. log' \in [Node -> Seq(Entry)]
      BY <1>4, <1>6 DEF NodeTypeOK
    <2>4. commit_length' \in [Node -> Nat]
      BY <1>2, <1>6 DEF NodeTypeOK
    <2>5. data_store' \in [Node -> Value \cup {None}]
      <3>1. Applied(newLog, commit_length[i] + 1, m.commit, data_store[i])
                \in Value \cup {None}
        <4>1. commit_length[i] + 1 \in Nat
          BY <1>3
        <4> QED BY <4>1, <1>2, <1>3, <1>4, AppliedType
      <3> QED BY <3>1, <1>6 DEF NodeTypeOK
    <2> QED BY <1>5, <1>6, <2>1, <2>2, <2>3, <2>4, <2>5 DEF NodeTypeOK
  <1>11. TimerTypeOK'
    BY <1>5, <1>6 DEF TimerTypeOK
  <1>12. DiskTypeOK'
    <2>1. CASE SaveState(i)
      BY <2>1, <1>2, <1>10, SaveStateType
    <2>2. CASE disk' = [disk EXCEPT ![i] = Saved(log[i], m.term, None, commit_length[i])]
      <3>1. Saved(log[i], m.term, None, commit_length[i]) \in File
        BY <1>2, <1>3, SavedType DEF Vote
      <3> QED BY <2>2, <3>1 DEF DiskTypeOK
    <2>3. CASE UNCHANGED disk
      BY <2>3 DEF DiskTypeOK
    <2> QED BY <1>7, <2>1, <2>2, <2>3
  <1>13. CallTypeOK'
    <2>1. (IF accept THEN m.prev + Len(m.entries) ELSE 0) \in Nat
      BY <1>2, <1>9
    <2>2. [from |-> i, to |-> m.from, slot |-> m.slot, term |-> m.term,
           success |-> accept,
           upto |-> IF accept THEN m.prev + Len(m.entries) ELSE 0] \in AppendReply
      BY <2>1, <1>2, <1>9 DEF AppendReply
    <2> QED BY <2>2, <1>8 DEF CallTypeOK
  <1>14. OtherTypeOK'
    BY <1>8 DEF OtherTypeOK
  <1> QED BY <1>10, <1>11, <1>12, <1>13, <1>14

\* The length a leader falls back to for a peer stays a natural number.
LEMMA BackoffType == ASSUME NEW n \in Nat PROVE Backoff(n) \in Nat
  BY DEF Backoff, Max2

\* A reply to AppendEntries arrives.
LEMMA ReceiveAppendReplyType ==
    ASSUME TypeOK, NEW r \in append_replies, ReceiveAppendReply(r)
    PROVE  TypeOK'
  <1> DEFINE i == r.to
             acked == [acked_length[i] EXCEPT ![r.from] = IF r.success THEN r.upto ELSE @]
             to == IF r.success THEN CommitTo(i, acked) ELSE {}
  <1> USE DEF TypeOK
  <1>1. /\ i \in Node /\ r.from \in Node /\ r.upto \in Nat /\ r.success \in BOOLEAN
    BY DEF CallTypeOK, AppendReply
  <1>2. /\ acked_length[i] \in [Node -> Nat] /\ sent_length[i] \in [Node -> Nat]
        /\ commit_length[i] \in Nat /\ log[i] \in Seq(Entry)
        /\ data_store[i] \in Value \cup {None}
    BY <1>1 DEF NodeTypeOK
  <1>3. acked \in [Node -> Nat]
    <2> HIDE DEF i
    <2> QED BY <1>1, <1>2
  <1>4. to \subseteq Nat
    BY DEF CommitTo, Ready
  <1>5. /\ sent_length' = [sent_length EXCEPT ![i][r.from] =
                               IF r.success THEN r.upto ELSE Backoff(@)]
        /\ acked_length' = [acked_length EXCEPT ![i] = acked]
        /\ heartbeat_success_count' =
               [heartbeat_success_count EXCEPT ![i] = @ \cup {r.from}]
        /\ UNCHANGED <<current_term, voted_for, log, state, votes_received>>
    BY DEF ReceiveAppendReply
  <1>6. \/ UNCHANGED <<commit_length, data_store, disk>>
        \/ \E k \in to :
               /\ commit_length' = [commit_length EXCEPT ![i] = k]
               /\ data_store' = [data_store EXCEPT ![i] =
                                     Applied(log[i], commit_length[i] + 1, k, @)]
               /\ SaveState(i)
    BY DEF ReceiveAppendReply
  <1> HIDE DEF i, acked, to
  <1>7. /\ commit_length' \in [Node -> Nat]
        /\ data_store' \in [Node -> Value \cup {None}]
    <2>1. CASE UNCHANGED <<commit_length, data_store, disk>>
      BY <2>1 DEF NodeTypeOK
    <2>2. ASSUME NEW k \in to,
                 commit_length' = [commit_length EXCEPT ![i] = k],
                 data_store' = [data_store EXCEPT ![i] =
                                    Applied(log[i], commit_length[i] + 1, k, @)]
          PROVE  /\ commit_length' \in [Node -> Nat]
                 /\ data_store' \in [Node -> Value \cup {None}]
      <3>1. k \in Nat
        BY <1>4
      <3>2. Applied(log[i], commit_length[i] + 1, k, data_store[i]) \in Value \cup {None}
        <4>1. commit_length[i] + 1 \in Nat
          BY <1>2
        <4> QED BY <4>1, <3>1, <1>2, AppliedType
      <3> QED BY <2>2, <3>1, <3>2 DEF NodeTypeOK
    <2> QED BY <1>6, <2>1, <2>2
  <1>8. sent_length' \in [Node -> [Node -> Nat]]
    <2>0. r.upto \in Nat /\ sent_length[i][r.from] \in Nat
      BY <1>1, <1>2
    <2>1. (IF r.success THEN r.upto ELSE Backoff(sent_length[i][r.from])) \in Nat
      <3>1. Backoff(sent_length[i][r.from]) \in Nat
        BY <2>0, BackoffType
      <3> QED BY <2>0, <3>1
    <2>2. [sent_length[i] EXCEPT ![r.from] =
               IF r.success THEN r.upto ELSE Backoff(@)] \in [Node -> Nat]
      BY <2>1, <1>1, <1>2
    <2> QED BY <2>2, <1>5 DEF NodeTypeOK
  <1>9. NodeTypeOK'
    <2>1. acked_length' \in [Node -> [Node -> Nat]]
      BY <1>3, <1>5 DEF NodeTypeOK
    <2>2. heartbeat_success_count' \in [Node -> SUBSET Node]
      BY <1>1, <1>5 DEF NodeTypeOK
    <2> QED BY <1>5, <1>7, <1>8, <2>1, <2>2 DEF NodeTypeOK
  <1>10. DiskTypeOK'
    <2>1. CASE SaveState(i)
      BY <2>1, <1>1, <1>9, SaveStateType
    <2>2. CASE UNCHANGED disk
      BY <2>2 DEF DiskTypeOK
    <2> QED BY <1>6, <2>1, <2>2
  <1>11. TimerTypeOK' /\ CallTypeOK' /\ OtherTypeOK'
    BY DEF ReceiveAppendReply, InTime, TimerTypeOK, CallTypeOK, OtherTypeOK
  <1> QED BY <1>9, <1>10, <1>11

\* A request nobody waits for any more is a request.
LEMMA DeadRequestType ==
    ASSUME NEW m \in AppendRequest
    PROVE  [m EXCEPT !.live = FALSE, !.slot = 0] \in AppendRequest
  <1>1. [m EXCEPT !.live = FALSE] \in AppendRequest
    BY DEF AppendRequest
  <1>2. 0 \in 0..MaxCalls
    BY BoundAssumption
  <1>3. \A q \in AppendRequest : [q EXCEPT !.slot = 0] \in AppendRequest
    BY <1>2 DEF AppendRequest
  <1>4. [m EXCEPT !.live = FALSE, !.slot = 0] = [[m EXCEPT !.live = FALSE] EXCEPT !.slot = 0]
    OBVIOUS
  <1> QED BY <1>1, <1>3, <1>4

\* An AppendEntries call fails.
LEMMA AppendCallFailsType ==
    ASSUME TypeOK, AppendCallFails
    PROVE  TypeOK'
  <1> USE DEF TypeOK
  <1>1. UNCHANGED <<roleVars, durableVars, data_store, heartbeat_success_count, checks,
                    leader_waits, electionRpc, append_tasks, client, grants, late,
                    crashes>>
        /\ failures' = failures + 1
    BY DEF AppendCallFails
  <1>2. NodeTypeOK'
    BY <1>1 DEF NodeTypeOK
  <1>3. TimerTypeOK' /\ DiskTypeOK'
    BY <1>1 DEF TimerTypeOK, DiskTypeOK
  <1>4. OtherTypeOK'
    BY <1>1 DEF OtherTypeOK
  <1>5. append_requests' \subseteq AppendRequest /\ append_replies' \subseteq AppendReply
    <2>1. CASE \E m \in append_requests :
                   /\ append_requests' = (append_requests \ {m}) \cup
                          {[m EXCEPT !.live = FALSE, !.slot = 0]}
                   /\ UNCHANGED append_replies
      <3>1. \A m \in AppendRequest : [m EXCEPT !.live = FALSE, !.slot = 0] \in AppendRequest
        BY DeadRequestType
      <3> QED BY <2>1, <3>1 DEF CallTypeOK
    <2>2. CASE \E r \in append_replies :
                   append_replies' = append_replies \ {r} /\ UNCHANGED append_requests
      BY <2>2 DEF CallTypeOK
    <2> QED BY <2>1, <2>2 DEF AppendCallFails
  <1>6. CallTypeOK'
    BY <1>1, <1>5 DEF CallTypeOK
  <1> QED BY <1>2, <1>3, <1>4, <1>6

\* A client's SET is appended.
LEMMA ServeClientSetType ==
    ASSUME TypeOK, NEW i \in Node, NEW v \in Value, ServeClientSet(i, v)
    PROVE  TypeOK'
  <1> USE DEF TypeOK
  <1>1. NodeTypeOK'
    <2>1. log' \in [Node -> Seq(Entry)]
      BY AppendType DEF ServeClientSet
    <2> QED BY <2>1 DEF ServeClientSet, NodeTypeOK
  <1>2. DiskTypeOK'
    BY <1>1, SaveStateType DEF ServeClientSet
  <1>3. TimerTypeOK' /\ CallTypeOK'
    BY DEF ServeClientSet, TimerTypeOK, CallTypeOK
  <1>4. OtherTypeOK'
    <2>1. current_term[i] \in Nat
      BY DEF NodeTypeOK
    <2> QED BY <2>1 DEF ServeClientSet, OtherTypeOK
  <1> QED BY <1>1, <1>2, <1>3, <1>4

\* A client is answered.
LEMMA ClientWakeType ==
    ASSUME TypeOK, NEW v \in Value, ClientWake(v)
    PROVE  TypeOK'
  <1> USE DEF TypeOK
  <1>1. NodeTypeOK' /\ TimerTypeOK' /\ DiskTypeOK' /\ CallTypeOK'
    <2>1. NodeTypeOK'
      BY DEF ClientWake, NodeTypeOK
    <2>2. TimerTypeOK' /\ DiskTypeOK'
      BY DEF ClientWake, TimerTypeOK, DiskTypeOK
    <2>3. CallTypeOK'
      BY DEF ClientWake, CallTypeOK
    <2> QED BY <2>1, <2>2, <2>3
  <1>2. PICK s \in {"ok", "failed"} : client' = [client EXCEPT ![v].status = s]
    BY DEF ClientWake
  <1>3. OtherTypeOK'
    <2>1. /\ client' \in [Value -> [status : {"new", "waiting", "ok", "failed"},
                                    node : Node \cup {None}, term : Nat]]
          /\ \A w \in Value : client'[w].status = "waiting" => client'[w].node \in Node
      BY <1>2 DEF OtherTypeOK
    <2>2. UNCHANGED <<grants, late, failures, crashes>>
      BY DEF ClientWake, faultVars
    <2> QED BY <2>1, <2>2 DEF OtherTypeOK
  <1> QED BY <1>1, <1>3

\* A node restarts from its files.
LEMMA RestartType ==
    ASSUME TypeOK, NEW i \in Node, Restart(i)
    PROVE  TypeOK'
  <1> USE DEF TypeOK
  <1> DEFINE d == disk[i]
  <1>1. d \in File
    BY DEF DiskTypeOK
  <1>2. /\ d.term \in Nat /\ d.commit \in Nat /\ d.log \in Seq(Entry) /\ d.voted \in Vote
    BY <1>1 DEF File, Vote
  <1>3. Applied(d.log, 1, d.commit, None) \in Value \cup {None}
    <2> HIDE DEF d
    <2> QED BY <1>2, AppliedType
  <1>4. NodeTypeOK'
    <2>1. /\ state' = [state EXCEPT ![i] = "FOLLOWER"]
          /\ current_term' = [current_term EXCEPT ![i] = d.term]
          /\ voted_for' = [voted_for EXCEPT ![i] = d.voted]
          /\ log' = [log EXCEPT ![i] = d.log]
          /\ commit_length' = [commit_length EXCEPT ![i] = d.commit]
          /\ data_store' =
                 [data_store EXCEPT ![i] = Applied(d.log, 1, d.commit, None)]
      BY DEF Restart
    <2>2. /\ votes_received' = [votes_received EXCEPT ![i] = {}]
          /\ sent_length' = [sent_length EXCEPT ![i] = Zeros]
          /\ acked_length' = [acked_length EXCEPT ![i] = Zeros]
          /\ heartbeat_success_count' = [heartbeat_success_count EXCEPT ![i] = {}]
      BY DEF Restart
    <2> HIDE DEF d
    <2>3. /\ state' \in [Node -> State]
          /\ current_term' \in [Node -> Nat]
          /\ voted_for' \in [Node -> Vote]
          /\ log' \in [Node -> Seq(Entry)]
          /\ commit_length' \in [Node -> Nat]
          /\ data_store' \in [Node -> Value \cup {None}]
      BY <1>2, <1>3, <2>1 DEF NodeTypeOK, State
    <2>4. /\ votes_received' \in [Node -> SUBSET Node]
          /\ sent_length' \in [Node -> [Node -> Nat]]
          /\ acked_length' \in [Node -> [Node -> Nat]]
          /\ heartbeat_success_count' \in [Node -> SUBSET Node]
      BY <2>2, ZerosType DEF NodeTypeOK
    <2> QED BY <2>3, <2>4 DEF NodeTypeOK
  <1>5. TimerTypeOK'
    <2>1. Started(NewTimer) \in Timer
      BY NewTimerType, TimerType
    <2> QED BY <2>1, NewTimerType DEF Restart, TimerTypeOK
  <1>6. DiskTypeOK'
    BY DEF Restart, DiskTypeOK
  <1>7. CallTypeOK'
    <2>1. vote_requests' \subseteq VoteRequest
      <3>1. \A m \in VoteRequest, b \in BOOLEAN : [m EXCEPT !.live = b] \in VoteRequest
        BY DEF VoteRequest
      <3>2. \A m \in VoteRequest : (m.live /\ m.from # i) \in BOOLEAN
        OBVIOUS
      <3>3. vote_requests' = {[m EXCEPT !.live = m.live /\ m.from # i] :
                                  m \in {n \in vote_requests : n.to # i}}
        BY DEF Restart
      <3>4. ASSUME NEW q \in vote_requests' PROVE q \in VoteRequest
        <4>1. PICK m \in vote_requests : q = [m EXCEPT !.live = m.live /\ m.from # i]
          BY <3>3
        <4> QED BY <4>1, <3>1, <3>2 DEF CallTypeOK
      <3> QED BY <3>4
    <2>2. append_requests' \subseteq AppendRequest
      <3>1. \A m \in AppendRequest : [m EXCEPT !.live = FALSE, !.slot = 0] \in AppendRequest
        BY DeadRequestType
      <3>2. append_requests' = {IF m.from = i THEN [m EXCEPT !.live = FALSE, !.slot = 0]
                                ELSE m : m \in {n \in append_requests : n.to # i}}
        BY DEF Restart
      <3> QED BY <3>1, <3>2 DEF CallTypeOK
    <2> QED BY <2>1, <2>2 DEF Restart, CallTypeOK
  <1>8. OtherTypeOK'
    <2>1. client' = [v \in Value |->
              IF client[v].status = "waiting" /\ client[v].node = i
              THEN [client[v] EXCEPT !.status = "failed"] ELSE client[v]]
      BY DEF Restart
    <2>2. /\ client' \in [Value -> [status : {"new", "waiting", "ok", "failed"},
                                    node : Node \cup {None}, term : Nat]]
          /\ \A v \in Value : client'[v].status = "waiting" => client'[v].node \in Node
      BY <2>1 DEF OtherTypeOK
    <2>3. crashes' = crashes + 1 /\ UNCHANGED <<grants, late, failures>>
      BY DEF Restart
    <2> QED BY <2>2, <2>3 DEF OtherTypeOK
  <1> QED BY <1>4, <1>5, <1>6, <1>7, <1>8

\* Every step keeps the types.
LEMMA NextType == TypeOK /\ [Next]_vars => TypeOK'
  <1> SUFFICES ASSUME TypeOK, [Next]_vars PROVE TypeOK'
    OBVIOUS
  <1>1. CASE UNCHANGED vars
    BY <1>1 DEF vars, TypeOK, NodeTypeOK, TimerTypeOK, DiskTypeOK, CallTypeOK, OtherTypeOK
  <1>2. CASE Next
    BY <1>2, SendRequestVoteType, SendAppendEntriesType, StartElectionType,
       CheckElectionType, AcquireLeaseType, SendHeartbeatsType, LeaseTimeoutType,
       RestartType, ServeClientSetType, HandleRequestVoteType, ReceiveVoteType,
       HandleAppendEntriesType, ReceiveAppendReplyType, ClientWakeType,
       VoteCallFailsType, AppendCallFailsType
       DEF Next
  <1> QED BY <1>1, <1>2

\* Every variable of raft.py keeps its type, in every state of every instance.
THEOREM TypeCorrect == Spec => []TypeOK
  BY InitType, NextType, PTL DEF Spec
-----------------------------------------------------------------------------
(* One vote per term. *)

\* Steps that write no file and give no vote keep VoteInv.
LEMMA VoteInvUnchanged ==
    ASSUME VoteInv,
           UNCHANGED <<current_term, voted_for, commit_length, disk, grants>>
    PROVE  VoteInv'
  BY DEF VoteInv, DiskInv, GrantInv, OneVotePerTerm

\* Steps that save a longer log or commit length, with the same term and vote.
LEMMA VoteInvSaved ==
    ASSUME TypeOK, VoteInv, NEW i \in Node, SaveState(i),
           UNCHANGED <<current_term, voted_for, grants>>,
           \A j \in Node \ {i} : commit_length'[j] = commit_length[j]
    PROVE  VoteInv'
  <1>1. DiskInv'
    BY DEF VoteInv, DiskInv, SaveState, Saved, AsText, TypeOK, DiskTypeOK
  <1>2. GrantInv' /\ OneVotePerTerm'
    BY DEF VoteInv, GrantInv, OneVotePerTerm
  <1> QED BY <1>1, <1>2 DEF VoteInv

\* A node gives its vote of its new current term t to c, having none for another
\* candidate in that term.  (c = None: it enters t without voting.)
LEMMA VoteInvVote ==
    ASSUME TypeOK, VoteInv, NEW i \in Node, NEW t \in Nat, NEW c \in Node \cup {None},
           t >= current_term[i],
           t = current_term[i] => voted_for[i] \in {c, None},
           current_term' = [current_term EXCEPT ![i] = t],
           voted_for' = [voted_for EXCEPT ![i] = c],
           disk'[i].term = t, disk'[i].voted = AsText(c),
           disk'[i].commit = commit_length'[i],
           \A j \in Node \ {i} : /\ disk'[j] = disk[j]
                                 /\ commit_length'[j] = commit_length[j],
           grants' = IF c = None THEN grants
                     ELSE grants \cup {[voter |-> i, candidate |-> c, term |-> t]}
    PROVE  VoteInv'
  <1> USE DEF VoteInv
  <1>1. DiskInv'
    BY DEF DiskInv, TypeOK, NodeTypeOK
  <1>2. \A g \in grants : g.voter \in Node /\ g.candidate \in Node /\ g.term \in Nat
    BY DEF TypeOK, OtherTypeOK
  <1>3. current_term \in [Node -> Nat] /\ voted_for \in [Node -> Vote]
    BY DEF TypeOK, NodeTypeOK
  \* What the votes i gave before say about the new one.
  <1>4. \A g \in grants : g.voter = i /\ g.term = t => c = g.candidate
    <2> SUFFICES ASSUME NEW g \in grants, g.voter = i, g.term = t PROVE c = g.candidate
      OBVIOUS
    <2>1. t = current_term[i]
      BY <1>2, <1>3 DEF GrantInv
    <2>2. voted_for[i] \in {g.candidate, Text(g.candidate)} /\ voted_for[i] \in {c, None}
      BY <2>1 DEF GrantInv
    <2>3. Text(g.candidate) # None /\ Text(g.candidate) \notin Node /\ g.candidate # None
      BY <1>2, TextAssumption DEF Text
    <2> QED BY <2>2, <2>3, <1>2
  <1>5. GrantInv'
    <2> SUFFICES ASSUME NEW g \in grants'
                 PROVE  /\ g.term <= current_term'[g.voter]
                        /\ g.term = current_term'[g.voter]
                           => voted_for'[g.voter] \in {g.candidate, Text(g.candidate)}
      BY DEF GrantInv
    <2>1. CASE g \in grants /\ g.voter # i
      BY <2>1, <1>2, <1>3 DEF GrantInv
    <2>2. CASE g \in grants /\ g.voter = i
      <3>1. g.term <= t
        BY <2>2, <1>2, <1>3 DEF GrantInv
      <3> QED BY <2>2, <3>1, <1>3, <1>4
    <2>3. CASE g \notin grants
      <3>1. g = [voter |-> i, candidate |-> c, term |-> t]
        BY <2>3
      <3> QED BY <3>1, <1>3
    <2> QED BY <2>1, <2>2, <2>3
  <1>6. OneVotePerTerm'
    <2> SUFFICES ASSUME NEW g \in grants', NEW h \in grants',
                        g.voter = h.voter, g.term = h.term
                 PROVE  g.candidate = h.candidate
      BY DEF OneVotePerTerm
    <2>1. CASE g \in grants /\ h \in grants
      BY <2>1 DEF OneVotePerTerm
    <2>2. CASE g \notin grants /\ h \in grants
      <3>1. g = [voter |-> i, candidate |-> c, term |-> t]
        BY <2>2
      <3> QED BY <2>2, <3>1, <1>4
    <2>3. CASE g \in grants /\ h \notin grants
      <3>1. h = [voter |-> i, candidate |-> c, term |-> t]
        BY <2>3
      <3> QED BY <2>3, <3>1, <1>4
    <2>4. CASE g \notin grants /\ h \notin grants
      BY <2>4
    <2> QED BY <2>1, <2>2, <2>3, <2>4
  <1> QED BY <1>1, <1>5, <1>6

\* A node stands for election and votes for itself in a term above its own.
LEMMA VoteInvStartElection ==
    ASSUME TypeOK, VoteInv, NEW i \in Node, StartElection(i)
    PROVE  VoteInv'
  <1> DEFINE t == current_term[i] + 1
  <1>1. current_term[i] \in Nat /\ t \in Nat /\ t > current_term[i]
    BY DEF TypeOK, NodeTypeOK
  <1>2. /\ current_term' = [current_term EXCEPT ![i] = t]
        /\ voted_for' = [voted_for EXCEPT ![i] = i]
        /\ UNCHANGED commit_length /\ SaveState(i)
        /\ grants' = grants \cup {[voter |-> i, candidate |-> i, term |-> current_term'[i]]}
    BY DEF StartElection
  <1>3. current_term'[i] = t /\ voted_for'[i] = i /\ i # None
    BY <1>2 DEF TypeOK, NodeTypeOK
  <1>4. /\ disk'[i].term = t /\ disk'[i].voted = AsText(i)
        /\ disk'[i].commit = commit_length'[i]
        /\ \A j \in Node \ {i} : disk'[j] = disk[j]
    BY <1>2, <1>3 DEF SaveState, Saved, AsText, TypeOK, DiskTypeOK
  <1>5. grants' = grants \cup {[voter |-> i, candidate |-> i, term |-> t]}
    BY <1>2, <1>3
  <1>6. \A j \in Node \ {i} : commit_length'[j] = commit_length[j]
    BY <1>2
  <1>7. t >= current_term[i] /\ t # current_term[i] /\ i \in Node \cup {None}
    BY <1>1
  <1> HIDE DEF t
  <1> QED BY <1>1, <1>2, <1>3, <1>4, <1>5, <1>6, <1>7, VoteInvVote

\* A node answers a vote request: it gives its vote at most once a term.
LEMMA VoteInvHandleRequestVote ==
    ASSUME TypeOK, VoteInv, NEW m \in vote_requests, HandleRequestVote(m)
    PROVE  VoteInv'
  <1> DEFINE i == m.to
             t == Max2(current_term[i], m.term)
             c == IF Grants(i, m) THEN m.from ELSE VoteBefore(i, m)
  <1>1. i \in Node /\ m.from \in Node /\ m.term \in Nat
    BY DEF TypeOK, CallTypeOK, VoteRequest
  <1>2. current_term[i] \in Nat /\ t \in Nat /\ t >= current_term[i]
    <2>1. current_term[i] \in Nat
      BY <1>1 DEF TypeOK, NodeTypeOK
    <2> QED BY <2>1, <1>1 DEF Max2
  <1>3. /\ current_term' = [current_term EXCEPT ![i] = t]
        /\ voted_for' = [voted_for EXCEPT ![i] = c]
        /\ UNCHANGED commit_length
    BY DEF HandleRequestVote
  <1>4. current_term'[i] = t /\ voted_for'[i] = c
    BY <1>1, <1>3 DEF TypeOK, NodeTypeOK
  <1>5. ASSUME SaveState(i)
        PROVE  /\ disk'[i].term = t /\ disk'[i].voted = AsText(c)
               /\ disk'[i].commit = commit_length'[i]
               /\ \A j \in Node \ {i} : disk'[j] = disk[j]
    BY <1>1, <1>4, <1>5 DEF SaveState, Saved, AsText, TypeOK, DiskTypeOK
  <1>6. CASE Grants(i, m)
    <2>1. c = m.from /\ t = m.term
      BY <1>1, <1>2, <1>6 DEF Grants, Max2
    <2>2. SaveState(i)
      BY <1>6 DEF HandleRequestVote
    <2>3. grants' = grants \cup {[voter |-> i, candidate |-> m.from, term |-> m.term]}
      BY <1>6 DEF HandleRequestVote
    <2>4. t = current_term[i] => voted_for[i] \in {m.from, None}
      BY <1>1, <1>2, <1>6, <2>1 DEF Grants, VoteBefore
    <2>5. m.from # None
      BY <1>1
    <2> HIDE DEF i, t, c
    <2> QED BY <1>1, <1>2, <1>3, <1>5, <2>1, <2>2, <2>3, <2>4, <2>5, VoteInvVote
  <1>7. CASE ~Grants(i, m) /\ m.term > current_term[i]
    <2>1. c = None
      BY <1>7 DEF VoteBefore
    <2>2. SaveState(i) /\ UNCHANGED grants
      BY <1>7 DEF HandleRequestVote
    <2>3. t # current_term[i]
      BY <1>1, <1>2, <1>7 DEF Max2
    <2> HIDE DEF i, t, c
    <2> QED BY <1>1, <1>2, <1>3, <1>5, <2>1, <2>2, <2>3, VoteInvVote
  <1>8. CASE ~Grants(i, m) /\ ~(m.term > current_term[i])
    <2>1. UNCHANGED <<disk, grants>>
      BY <1>8 DEF HandleRequestVote
    <2>2. t = current_term[i] /\ c = voted_for[i]
      BY <1>1, <1>2, <1>8 DEF Max2, VoteBefore
    <2>3. UNCHANGED <<current_term, voted_for>>
      BY <1>3, <2>2 DEF TypeOK, NodeTypeOK
    <2> QED BY <1>3, <2>1, <2>3, VoteInvUnchanged
  <1> QED BY <1>6, <1>7, <1>8

\* A node answers AppendEntries: in a newer term it has no vote yet.
LEMMA VoteInvHandleAppendEntries ==
    ASSUME TypeOK, VoteInv, NEW m \in append_requests, HandleAppendEntries(m)
    PROVE  VoteInv'
  <1> DEFINE i == m.to
             newer == m.term > current_term[i]
  <1>1. i \in Node /\ m.term \in Nat
    BY DEF TypeOK, CallTypeOK, AppendRequest
  <1>2. current_term[i] \in Nat
    BY <1>1 DEF TypeOK, NodeTypeOK
  <1>3. /\ current_term' = [current_term EXCEPT ![i] = Max2(@, m.term)]
        /\ voted_for' = [voted_for EXCEPT ![i] = IF newer THEN None ELSE @]
        /\ UNCHANGED grants
    BY DEF HandleAppendEntries
  <1>4. \A j \in Node \ {i} : commit_length'[j] = commit_length[j]
    BY DEF HandleAppendEntries, TypeOK, NodeTypeOK
  <1>5. \/ SaveState(i)
        \/ /\ newer /\ UNCHANGED commit_length
           /\ disk' = [disk EXCEPT ![i] = Saved(log[i], m.term, None, commit_length[i])]
        \/ ~newer /\ UNCHANGED <<disk, commit_length>>
    <2> DEFINE accept == m.term >= current_term[i] /\ Follows(m, log[i])
               newLog == IF accept THEN AppendedLog(m, log[i]) ELSE log[i]
               commits == accept /\ LeaderAhead(m, commit_length[i])
               raises == commits /\ m.commit > Len(newLog)
    <2>1. commit_length' = [commit_length EXCEPT ![i] =
                                IF commits /\ ~raises THEN m.commit ELSE @]
      BY DEF HandleAppendEntries
    <2>2. \/ accept /\ ~raises /\ SaveState(i)
          \/ /\ newer /\ ~(accept /\ ~raises)
             /\ disk' = [disk EXCEPT ![i] = Saved(log[i], m.term, None, commit_length[i])]
          \/ ~newer /\ ~(accept /\ ~raises) /\ UNCHANGED disk
      BY DEF HandleAppendEntries
    <2>3. ~(accept /\ ~raises) => ~(commits /\ ~raises)
      OBVIOUS
    <2> HIDE DEF accept, newLog, commits, raises
    <2>4. ~(accept /\ ~raises) => UNCHANGED commit_length
      BY <2>1, <2>3 DEF TypeOK, NodeTypeOK
    <2> QED BY <2>2, <2>4
  <1>6. CASE newer
    <2>1. /\ current_term' = [current_term EXCEPT ![i] = m.term]
          /\ voted_for' = [voted_for EXCEPT ![i] = None]
      <3>1. Max2(current_term[i], m.term) = m.term
        BY <1>1, <1>2, <1>6 DEF Max2
      <3> QED BY <1>3, <1>6, <3>1
    <2>2. current_term'[i] = m.term /\ voted_for'[i] = None
      BY <1>1, <2>1 DEF TypeOK, NodeTypeOK
    <2>3. /\ disk'[i].term = m.term /\ disk'[i].voted = AsText(None)
          /\ disk'[i].commit = commit_length'[i]
          /\ \A j \in Node \ {i} : disk'[j] = disk[j]
      <3>1. CASE SaveState(i)
        BY <3>1, <1>1, <2>2 DEF SaveState, Saved, AsText, TypeOK, DiskTypeOK
      <3>2. CASE /\ UNCHANGED commit_length
                 /\ disk' = [disk EXCEPT ![i] =
                                 Saved(log[i], m.term, None, commit_length[i])]
        BY <3>2, <1>1 DEF Saved, AsText, TypeOK, DiskTypeOK
      <3> QED BY <3>1, <3>2, <1>5, <1>6
    <2>4. m.term >= current_term[i] /\ m.term # current_term[i]
      BY <1>1, <1>2, <1>6
    <2>5. None \in Node \cup {None} /\ grants' = grants
      BY <1>3
    <2> HIDE DEF i, newer
    <2> QED BY <1>1, <1>4, <2>1, <2>3, <2>4, <2>5, VoteInvVote
  <1>7. CASE ~newer
    <2>1. UNCHANGED <<current_term, voted_for>>
      BY <1>1, <1>2, <1>3, <1>7 DEF Max2, TypeOK, NodeTypeOK
    <2>2. CASE SaveState(i)
      <3> HIDE DEF i
      <3> QED BY <1>1, <1>3, <1>4, <2>1, <2>2, VoteInvSaved
    <2>3. CASE UNCHANGED <<disk, commit_length>>
      BY <1>3, <2>1, <2>3, VoteInvUnchanged
    <2> QED BY <2>2, <2>3, <1>5, <1>7
  <1> QED BY <1>6, <1>7

\* A restarted node has the vote of its file, as text: whatever it voted before,
\* the history of votes does not contradict it.
LEMMA VoteInvRestart ==
    ASSUME TypeOK, VoteInv, NEW i \in Node, Restart(i)
    PROVE  VoteInv'
  <1>1. /\ current_term' = [current_term EXCEPT ![i] = disk[i].term]
        /\ voted_for' = [voted_for EXCEPT ![i] = disk[i].voted]
        /\ commit_length' = [commit_length EXCEPT ![i] = disk[i].commit]
        /\ disk' = disk /\ grants' = grants
    BY DEF Restart
  <1>2. /\ current_term \in [Node -> Nat] /\ voted_for \in [Node -> Vote]
        /\ commit_length \in [Node -> Nat]
    BY DEF TypeOK, NodeTypeOK
  <1>3. /\ disk[i].term = current_term[i] /\ disk[i].commit = commit_length[i]
        /\ disk[i].voted = AsText(voted_for[i])
    BY DEF VoteInv, DiskInv
  <1>4. current_term' = current_term /\ commit_length' = commit_length
    BY <1>1, <1>2, <1>3
  <1>5. /\ voted_for'[i] = AsText(voted_for[i])
        /\ \A j \in Node \ {i} : voted_for'[j] = voted_for[j]
    BY <1>1, <1>2, <1>3
  <1>6. AsText(AsText(voted_for[i])) = AsText(voted_for[i])
    BY TextAssumption DEF AsText, Text
  <1>7. DiskInv'
    BY <1>1, <1>3, <1>4, <1>5, <1>6 DEF VoteInv, DiskInv
  <1>8. GrantInv'
    <2> SUFFICES ASSUME NEW g \in grants
                 PROVE  /\ g.term <= current_term[g.voter]
                        /\ g.term = current_term[g.voter]
                           => voted_for'[g.voter] \in {g.candidate, Text(g.candidate)}
      BY <1>1, <1>4 DEF GrantInv
    <2>1. g.voter \in Node /\ g.candidate \in Node
      BY DEF TypeOK, OtherTypeOK
    <2>2. /\ g.term <= current_term[g.voter]
          /\ g.term = current_term[g.voter]
             => voted_for[g.voter] \in {g.candidate, Text(g.candidate)}
      BY DEF VoteInv, GrantInv
    <2>3. CASE g.voter = i
      <3>1. Text(g.candidate) \notin Node
        BY <2>1, TextAssumption DEF Text
      <3> QED BY <2>1, <2>2, <2>3, <3>1, <1>5 DEF AsText
    <2>4. CASE g.voter # i
      BY <2>1, <2>2, <2>4, <1>5
    <2> QED BY <2>3, <2>4
  <1>9. OneVotePerTerm'
    BY <1>1 DEF VoteInv, OneVotePerTerm
  <1> QED BY <1>7, <1>8, <1>9 DEF VoteInv

\* The three actions that save a node's state without touching term or vote.
LEMMA VoteInvAcquireLease ==
    ASSUME TypeOK, VoteInv, NEW i \in Node, AcquireLease(i)
    PROVE  VoteInv'
  <1>1. UNCHANGED <<current_term, voted_for, commit_length, grants>> /\ SaveState(i)
    BY DEF AcquireLease, otherVars
  <1> QED BY <1>1, VoteInvSaved

LEMMA VoteInvServeClientSet ==
    ASSUME TypeOK, VoteInv, NEW i \in Node, NEW v \in Value, ServeClientSet(i, v)
    PROVE  VoteInv'
  <1>1. UNCHANGED <<current_term, voted_for, commit_length, grants>> /\ SaveState(i)
    BY DEF ServeClientSet
  <1> QED BY <1>1, VoteInvSaved

LEMMA VoteInvReceiveAppendReply ==
    ASSUME TypeOK, VoteInv, NEW r \in append_replies, ReceiveAppendReply(r)
    PROVE  VoteInv'
  <1> DEFINE i == r.to
  <1>1. i \in Node
    BY DEF TypeOK, CallTypeOK, AppendReply
  <1>2. UNCHANGED <<current_term, voted_for, grants>>
    BY DEF ReceiveAppendReply, otherVars
  <1>3. \/ UNCHANGED <<commit_length, disk>>
        \/ /\ \E k : commit_length' = [commit_length EXCEPT ![i] = k]
           /\ SaveState(i)
    BY DEF ReceiveAppendReply
  <1>4. CASE UNCHANGED <<commit_length, disk>>
    BY <1>2, <1>4, VoteInvUnchanged
  <1>5. CASE /\ \E k : commit_length' = [commit_length EXCEPT ![i] = k]
             /\ SaveState(i)
    <2>1. \A j \in Node \ {i} : commit_length'[j] = commit_length[j]
      BY <1>5 DEF TypeOK, NodeTypeOK
    <2> HIDE DEF i
    <2> QED BY <1>1, <1>2, <1>5, <2>1, VoteInvSaved
  <1> QED BY <1>3, <1>4, <1>5

\* Every step keeps the strengthened vote invariant.
LEMMA NextVoteInv == TypeOK /\ VoteInv /\ [Next]_vars => VoteInv'
  <1> SUFFICES ASSUME TypeOK, VoteInv, [Next]_vars PROVE VoteInv'
    OBVIOUS
  <1>1. CASE UNCHANGED vars
    BY <1>1, VoteInvUnchanged DEF vars, durableVars, otherVars
  <1>2. ASSUME NEW t \in vote_tasks, SendRequestVote(t) PROVE VoteInv'
    BY <1>2, VoteInvUnchanged DEF SendRequestVote, durableVars, otherVars
  <1>3. ASSUME NEW t \in append_tasks, SendAppendEntries(t) PROVE VoteInv'
    BY <1>3, VoteInvUnchanged DEF SendAppendEntries, durableVars, otherVars
  <1>4. ASSUME NEW i \in Node, CheckElection(i) PROVE VoteInv'
    BY <1>4, VoteInvUnchanged DEF CheckElection, durableVars, otherVars
  <1>5. ASSUME NEW i \in Node, SendHeartbeats(i) PROVE VoteInv'
    BY <1>5, VoteInvUnchanged DEF SendHeartbeats, durableVars, otherVars
  <1>6. ASSUME NEW i \in Node, LeaseTimeout(i) PROVE VoteInv'
    BY <1>6, VoteInvUnchanged DEF LeaseTimeout, durableVars
  <1>7. ASSUME NEW r \in vote_replies, ReceiveVote(r) PROVE VoteInv'
    BY <1>7, VoteInvUnchanged DEF ReceiveVote, durableVars, otherVars
  <1>8. ASSUME NEW v \in Value, ClientWake(v) PROVE VoteInv'
    BY <1>8, VoteInvUnchanged DEF ClientWake, durableVars
  <1>9. CASE VoteCallFails
    BY <1>9, VoteInvUnchanged DEF VoteCallFails, durableVars
  <1>10. CASE AppendCallFails
    BY <1>10, VoteInvUnchanged DEF AppendCallFails, durableVars
  <1> QED
    BY <1>1, <1>2, <1>3, <1>4, <1>5, <1>6, <1>7, <1>8, <1>9, <1>10,
       VoteInvStartElection, VoteInvHandleRequestVote, VoteInvHandleAppendEntries,
       VoteInvRestart, VoteInvAcquireLease, VoteInvServeClientSet,
       VoteInvReceiveAppendReply
    DEF Next

\* The first state, with no vote given and empty files, satisfies it.
LEMMA InitVoteInv == Init => VoteInv
  <1> SUFFICES ASSUME Init PROVE VoteInv
    OBVIOUS
  <1>1. DiskInv
    BY NodeAssumption DEF Init, DiskInv, Saved, AsText, Zeros
  <1> QED BY <1>1 DEF Init, VoteInv, GrantInv, OneVotePerTerm

\* In every state of every behaviour, memory, files and the votes ever given agree.
THEOREM VotesAgree == Spec => []VoteInv
  <1>1. [](TypeOK) /\ [][Next]_vars /\ VoteInv => []VoteInv
    BY NextVoteInv, PTL
  <1> QED BY <1>1, InitVoteInv, TypeCorrect, PTL DEF Spec

\* A node never votes for two candidates in one term, whatever the timing and the
\* crashes: for any number of nodes, terms, calls and failures.
THEOREM OneVote == Spec => []OneVotePerTerm
  <1>1. VoteInv => OneVotePerTerm
    BY DEF VoteInv
  <1> QED BY <1>1, VotesAgree, PTL

\* Two majorities of the nodes share a node.
LEMMA MajoritiesMeet ==
    ASSUME NEW S \in SUBSET Node, NEW T \in SUBSET Node, Majority(S), Majority(T)
    PROVE  S \cap T # {}
  <1>1. IsFiniteSet(Node) /\ IsFiniteSet(S) /\ IsFiniteSet(T)
    BY NodeAssumption, FS_Subset
  <1>2. /\ Cardinality(S) \in Nat /\ Cardinality(T) \in Nat
        /\ Cardinality(Node) \in Nat
    BY <1>1, FS_CardinalityType
  <1>3. IsFiniteSet(S \cup T) /\ Cardinality(S \cup T) <= Cardinality(Node)
    BY <1>1, FS_Subset
  <1>4. Cardinality(S \cup T)
            = Cardinality(S) + Cardinality(T) - Cardinality(S \cap T)
    BY <1>1, FS_Union
  <1>5. Cardinality(S \cap T) \in Nat
    BY <1>1, FS_Subset, FS_CardinalityType
  <1>6. /\ 2 * Cardinality(S) > Cardinality(Node)
        /\ 2 * Cardinality(T) > Cardinality(Node)
    BY DEF Majority
  <1>7. Cardinality(S \cap T) # 0
    BY <1>2, <1>3, <1>4, <1>5, <1>6
  <1> QED BY <1>7, FS_EmptySet

\* No two candidates get the votes of a majority in one term.
THEOREM OneElected == Spec => []OneElectorate
  <1>1. TypeOK /\ OneVotePerTerm => OneElectorate
    <2> SUFFICES ASSUME TypeOK, OneVotePerTerm, NEW g \in grants, NEW h \in grants,
                        g.term = h.term,
                        Majority(Electors(g.candidate, g.term)),
                        Majority(Electors(h.candidate, h.term))
                 PROVE  g.candidate = h.candidate
      BY DEF OneElectorate
    <2>1. /\ Electors(g.candidate, g.term) \in SUBSET Node
          /\ Electors(h.candidate, h.term) \in SUBSET Node
      BY DEF Electors
    <2>2. PICK n : n \in Electors(g.candidate, g.term)
                         \cap Electors(h.candidate, h.term)
      BY <2>1, MajoritiesMeet
    <2>3. /\ [voter |-> n, candidate |-> g.candidate, term |-> g.term] \in grants
          /\ [voter |-> n, candidate |-> h.candidate, term |-> h.term] \in grants
      BY <2>2 DEF Electors
    <2> QED BY <2>3 DEF OneVotePerTerm
  <1> QED BY <1>1, TypeCorrect, OneVote, PTL

\* No step takes a node back to an earlier term.
LEMMA NextTermsRise ==
    TypeOK /\ VoteInv /\ [Next]_vars => \A i \in Node : current_term'[i] >= current_term[i]
  <1> SUFFICES ASSUME TypeOK, VoteInv, [Next]_vars, NEW n \in Node
               PROVE  current_term'[n] >= current_term[n]
    OBVIOUS
  <1>0. current_term \in [Node -> Nat]
    BY DEF TypeOK, NodeTypeOK
  <1>1. ASSUME UNCHANGED current_term PROVE current_term'[n] >= current_term[n]
    BY <1>0, <1>1
  <1>2. ASSUME NEW i \in Node, StartElection(i)
        PROVE  current_term'[n] >= current_term[n]
    BY <1>0, <1>2 DEF StartElection
  <1>3. ASSUME NEW m \in vote_requests, HandleRequestVote(m)
        PROVE  current_term'[n] >= current_term[n]
    <2>1. m.to \in Node /\ m.term \in Nat
      BY DEF TypeOK, CallTypeOK, VoteRequest
    <2>2. current_term' = [current_term EXCEPT ![m.to] = Max2(@, m.term)]
      BY <1>3 DEF HandleRequestVote
    <2> QED BY <1>0, <2>1, <2>2 DEF Max2
  <1>4. ASSUME NEW m \in append_requests, HandleAppendEntries(m)
        PROVE  current_term'[n] >= current_term[n]
    <2>1. m.to \in Node /\ m.term \in Nat
      BY DEF TypeOK, CallTypeOK, AppendRequest
    <2>2. current_term' = [current_term EXCEPT ![m.to] = Max2(@, m.term)]
      BY <1>4 DEF HandleAppendEntries
    <2> QED BY <1>0, <2>1, <2>2 DEF Max2
  <1>5. ASSUME NEW i \in Node, Restart(i)
        PROVE  current_term'[n] >= current_term[n]
    <2>1. current_term' = [current_term EXCEPT ![i] = disk[i].term]
      BY <1>5 DEF Restart
    <2>2. disk[i].term = current_term[i]
      BY DEF VoteInv, DiskInv
    <2> QED BY <1>0, <2>1, <2>2
  <1>6. CASE \/ \E t \in vote_tasks : SendRequestVote(t)
             \/ \E t \in append_tasks : SendAppendEntries(t)
             \/ \E r \in vote_replies : ReceiveVote(r)
             \/ \E r \in append_replies : ReceiveAppendReply(r)
             \/ \E v \in Value : ClientWake(v)
             \/ VoteCallFails \/ AppendCallFails
    BY <1>1, <1>6 DEF SendRequestVote, SendAppendEntries, ReceiveVote,
       ReceiveAppendReply, ClientWake, VoteCallFails, AppendCallFails, durableVars
  <1>7. CASE \E i \in Node :
                \/ CheckElection(i) \/ AcquireLease(i)
                \/ SendHeartbeats(i) \/ LeaseTimeout(i)
                \/ \E v \in Value : ServeClientSet(i, v)
    BY <1>1, <1>7 DEF CheckElection, AcquireLease, SendHeartbeats, LeaseTimeout,
       ServeClientSet, durableVars
  <1>8. CASE UNCHANGED vars
    BY <1>1, <1>8 DEF vars, durableVars
  <1> QED BY <1>2, <1>3, <1>4, <1>5, <1>6, <1>7, <1>8 DEF Next

\* A node's term never falls, not even when it crashes and is started again.
THEOREM TermsRise == Spec => TermsNeverFall
  <1>1. TypeOK /\ VoteInv /\ [Next]_vars
            => [\A i \in Node : current_term'[i] >= current_term[i]]_vars
    BY NextTermsRise
  <1> QED BY <1>1, TypeCorrect, VotesAgree, PTL DEF Spec, TermsNeverFall

\* No step takes back what a node has committed.
LEMMA NextCommitRises ==
    TypeOK /\ VoteInv /\ [Next]_vars => \A i \in Node : commit_length'[i] >= commit_length[i]
  <1> SUFFICES ASSUME TypeOK, VoteInv, [Next]_vars, NEW n \in Node
               PROVE  commit_length'[n] >= commit_length[n]
    OBVIOUS
  <1>0. commit_length \in [Node -> Nat]
    BY DEF TypeOK, NodeTypeOK
  <1>1. ASSUME UNCHANGED commit_length PROVE commit_length'[n] >= commit_length[n]
    BY <1>0, <1>1
  <1>2. ASSUME NEW r \in append_replies, ReceiveAppendReply(r)
        PROVE  commit_length'[n] >= commit_length[n]
    <2> DEFINE i == r.to
    <2>1. \/ UNCHANGED commit_length
          \/ \E k \in Nat : /\ k > commit_length[i]
                            /\ commit_length' = [commit_length EXCEPT ![i] = k]
      <3> DEFINE acked == [acked_length[i] EXCEPT
                               ![r.from] = IF r.success THEN r.upto ELSE @]
      <3>1. \/ UNCHANGED commit_length
            \/ \E k \in CommitTo(i, acked) :
                   commit_length' = [commit_length EXCEPT ![i] = k]
        BY <1>2 DEF ReceiveAppendReply
      <3> HIDE DEF acked, i
      <3>2. \A k \in CommitTo(i, acked) : k \in Nat /\ k > commit_length[i]
        BY DEF CommitTo, Ready
      <3> QED BY <3>1, <3>2
    <2>2. i \in Node
      BY DEF TypeOK, CallTypeOK, AppendReply
    <2> HIDE DEF i
    <2>3. ASSUME NEW k \in Nat, k > commit_length[i],
                 commit_length' = [commit_length EXCEPT ![i] = k]
          PROVE  commit_length'[n] >= commit_length[n]
      <3>1. commit_length[n] \in Nat
        BY <1>0
      <3>2. commit_length'[n] = IF n = i THEN k ELSE commit_length[n]
        BY <1>0, <2>2, <2>3
      <3> QED BY <2>3, <3>1, <3>2
    <2> QED BY <1>1, <2>1, <2>3
  <1>3. ASSUME NEW m \in append_requests, HandleAppendEntries(m)
        PROVE  commit_length'[n] >= commit_length[n]
    <2> DEFINE i == m.to
    <2>1. i \in Node /\ m.commit \in Nat
      BY DEF TypeOK, CallTypeOK, AppendRequest
    <2>2. \/ commit_length' = [commit_length EXCEPT ![i] = @]
          \/ /\ m.commit > commit_length[i]
             /\ commit_length' = [commit_length EXCEPT ![i] = m.commit]
      BY <1>3 DEF HandleAppendEntries, LeaderAhead
    <2> HIDE DEF i
    <2> QED BY <1>0, <2>1, <2>2
  <1>4. ASSUME NEW i \in Node, Restart(i)
        PROVE  commit_length'[n] >= commit_length[n]
    <2>1. commit_length' = [commit_length EXCEPT ![i] = disk[i].commit]
      BY <1>4 DEF Restart
    <2>2. disk[i].commit = commit_length[i]
      BY DEF VoteInv, DiskInv
    <2> QED BY <1>0, <2>1, <2>2
  <1>5. CASE \/ \E t \in vote_tasks : SendRequestVote(t)
             \/ \E t \in append_tasks : SendAppendEntries(t)
             \/ \E r \in vote_replies : ReceiveVote(r)
             \/ \E m \in vote_requests : HandleRequestVote(m)
             \/ \E v \in Value : ClientWake(v)
             \/ VoteCallFails \/ AppendCallFails
    <2>1. CASE \/ \E t \in vote_tasks : SendRequestVote(t)
               \/ \E t \in append_tasks : SendAppendEntries(t)
               \/ VoteCallFails \/ AppendCallFails
      BY <1>1, <2>1 DEF SendRequestVote, SendAppendEntries, VoteCallFails,
         AppendCallFails, durableVars
    <2>2. CASE \/ \E r \in vote_replies : ReceiveVote(r)
               \/ \E v \in Value : ClientWake(v)
      BY <1>1, <2>2 DEF ReceiveVote, ClientWake, durableVars
    <2>3. CASE \E m \in vote_requests : HandleRequestVote(m)
      BY <1>1, <2>3 DEF HandleRequestVote
    <2> QED BY <1>5, <2>1, <2>2, <2>3
  <1>6. CASE \E i \in Node :
                \/ StartElection(i) \/ CheckElection(i) \/ AcquireLease(i)
                \/ SendHeartbeats(i) \/ LeaseTimeout(i)
                \/ \E v \in Value : ServeClientSet(i, v)
    <2>1. CASE \E i \in Node : StartElection(i) \/ CheckElection(i) \/ AcquireLease(i)
      BY <1>1, <2>1 DEF StartElection, CheckElection, AcquireLease, durableVars
    <2>2. CASE \E i \in Node : SendHeartbeats(i) \/ LeaseTimeout(i)
      BY <1>1, <2>2 DEF SendHeartbeats, LeaseTimeout, durableVars
    <2>3. CASE \E i \in Node, v \in Value : ServeClientSet(i, v)
      BY <1>1, <2>3 DEF ServeClientSet
    <2> QED BY <1>6, <2>1, <2>2, <2>3
  <1>7. CASE UNCHANGED vars
    BY <1>1, <1>7 DEF vars, durableVars
  <1> QED BY <1>2, <1>3, <1>4, <1>5, <1>6, <1>7 DEF Next

\* Nor does the number of entries a node has committed.
THEOREM CommitRises == Spec => CommitNeverFalls
  <1>1. TypeOK /\ VoteInv /\ [Next]_vars
            => [\A i \in Node : commit_length'[i] >= commit_length[i]]_vars
    BY NextCommitRises
  <1> QED BY <1>1, TypeCorrect, VotesAgree, PTL DEF Spec, CommitNeverFalls

-----------------------------------------------------------------------------
(* No node is stranded. *)

\* A step that leaves something pending at one node, and does not touch what is
\* pending at the others, strands nobody.
LEMMA StrandsNobody ==
    ASSUME NeverStranded, NEW i \in Node,
           \A j \in Node \ {i} :
               /\ election_timer'[j] = election_timer[j]
               /\ heartbeat_timer'[j] = heartbeat_timer[j]
               /\ lease_timer'[j] = lease_timer[j]
               /\ checks'[j] = checks[j] /\ leader_waits'[j] = leader_waits[j],
           \/ election_timer'[i].armed \/ heartbeat_timer'[i].armed
           \/ checks'[i] > 0 \/ leader_waits'[i] > 0
    PROVE  NeverStranded'
  <1> SUFFICES ASSUME NEW j \in Node
               PROVE  \/ election_timer'[j].armed \/ election_timer'[j].orphans > 0
                      \/ checks'[j] > 0 \/ leader_waits'[j] > 0
                      \/ lease_timer'[j].armed \/ lease_timer'[j].orphans > 0
                      \/ heartbeat_timer'[j].armed \/ heartbeat_timer'[j].orphans > 0
    BY DEF NeverStranded
  <1>1. CASE j = i
    BY <1>1
  <1>2. CASE j # i
    BY <1>2 DEF NeverStranded
  <1> QED BY <1>1, <1>2

\* Nor does one that touches nothing pending.
LEMMA NobodyMoved ==
    ASSUME NeverStranded,
           UNCHANGED <<election_timer, heartbeat_timer, lease_timer, checks, leader_waits>>
    PROVE  NeverStranded'
  BY DEF NeverStranded

\* step_down leaves an election timer.
LEMMA SteppedDownAwake ==
    ASSUME TypeOK, NeverStranded, NEW i \in Node, NEW t, StepDown(i, t),
           UNCHANGED <<checks, leader_waits>>
    PROVE  NeverStranded'
  <1>1. election_timer'[i].armed
    BY DEF StepDown, TypeOK, TimerTypeOK, Restarted, Started
  <1>2. \A j \in Node \ {i} : /\ election_timer'[j] = election_timer[j]
                              /\ heartbeat_timer'[j] = heartbeat_timer[j]
                              /\ lease_timer'[j] = lease_timer[j]
    BY DEF StepDown, TypeOK, TimerTypeOK
  <1> QED BY <1>1, <1>2, StrandsNobody

\* So does every other step, one way or another.
LEMMA NextStrandsNobody == TypeOK /\ NeverStranded /\ [Next]_vars => NeverStranded'
  <1> SUFFICES ASSUME TypeOK, NeverStranded, [Next]_vars PROVE NeverStranded'
    OBVIOUS
  <1>0. /\ election_timer \in [Node -> Timer] /\ heartbeat_timer \in [Node -> Timer]
        /\ checks \in [Node -> Nat] /\ leader_waits \in [Node -> Nat]
    BY DEF TypeOK, TimerTypeOK
  <1>1. ASSUME NEW i \in Node, StartElection(i) PROVE NeverStranded'
    <2>1. /\ checks' = [checks EXCEPT ![i] = @ + 1]
          /\ \E t : election_timer' = [election_timer EXCEPT ![i] = t]
          /\ UNCHANGED <<heartbeat_timer, lease_timer, leader_waits>>
      BY <1>1 DEF StartElection
    <2> QED BY <1>0, <2>1, StrandsNobody
  <1>2. ASSUME NEW i \in Node, CheckElection(i) PROVE NeverStranded'
    <2>1. CASE Elected(i)
      <3>1. /\ leader_waits' = [leader_waits EXCEPT ![i] = @ + 1]
            /\ checks' = [checks EXCEPT ![i] = @ - 1]
            /\ \E t : election_timer' = [election_timer EXCEPT ![i] = t]
            /\ \E t : heartbeat_timer' = [heartbeat_timer EXCEPT ![i] = t]
            /\ \E t : lease_timer' = [lease_timer EXCEPT ![i] = t]
        BY <1>2, <2>1 DEF CheckElection
      <3>2. leader_waits'[i] > 0
        BY <1>0, <3>1
      <3>3. \A j \in Node \ {i} :
               /\ election_timer'[j] = election_timer[j]
               /\ heartbeat_timer'[j] = heartbeat_timer[j]
               /\ lease_timer'[j] = lease_timer[j]
               /\ checks'[j] = checks[j] /\ leader_waits'[j] = leader_waits[j]
        BY <1>0, <3>1 DEF TypeOK, TimerTypeOK
      <3> QED BY <3>2, <3>3, StrandsNobody
    <2>2. CASE ~Elected(i)
      <3>1. /\ election_timer' = [election_timer EXCEPT ![i] = Started(@)]
            /\ checks' = [checks EXCEPT ![i] = @ - 1]
            /\ UNCHANGED <<heartbeat_timer, lease_timer, leader_waits>>
        BY <1>2, <2>2 DEF CheckElection
      <3>2. election_timer'[i].armed
        BY <1>0, <3>1 DEF Started
      <3> QED BY <1>0, <3>1, <3>2, StrandsNobody
    <2> QED BY <2>1, <2>2
  <1>3. ASSUME NEW i \in Node, AcquireLease(i) PROVE NeverStranded'
    <2>1. /\ leader_waits' = [leader_waits EXCEPT ![i] = @ - 1]
          /\ heartbeat_timer' = [heartbeat_timer EXCEPT ![i] = Started(heartbeat_timer[i])]
          /\ \E t : lease_timer' = [lease_timer EXCEPT ![i] = t]
          /\ UNCHANGED <<election_timer, checks>>
      BY <1>3 DEF AcquireLease, SendsHeartbeats
    <2>2. heartbeat_timer'[i].armed
      BY <1>0, <2>1 DEF Started
    <2>3. \A j \in Node \ {i} : /\ heartbeat_timer'[j] = heartbeat_timer[j]
                                /\ lease_timer'[j] = lease_timer[j]
                                /\ leader_waits'[j] = leader_waits[j]
      BY <1>0, <2>1 DEF TypeOK, TimerTypeOK
    <2> QED BY <2>1, <2>2, <2>3, StrandsNobody
  <1>4. ASSUME NEW i \in Node, SendHeartbeats(i) PROVE NeverStranded'
    <2>1. PICK h \in Fired(heartbeat_timer[i]) :
              /\ heartbeat_timer' = [heartbeat_timer EXCEPT ![i] = Started(h)]
              /\ \E t : lease_timer' = [lease_timer EXCEPT ![i] = t]
              /\ UNCHANGED <<election_timer, checks, leader_waits>>
      BY <1>4 DEF SendHeartbeats, SendsHeartbeats
    <2>2. heartbeat_timer'[i].armed
      BY <1>0, <2>1 DEF Started
    <2>3. \A j \in Node \ {i} : /\ heartbeat_timer'[j] = heartbeat_timer[j]
                                /\ lease_timer'[j] = lease_timer[j]
      BY <1>0, <2>1 DEF TypeOK, TimerTypeOK
    <2> QED BY <2>1, <2>2, <2>3, StrandsNobody
  <1>5. ASSUME NEW i \in Node, LeaseTimeout(i) PROVE NeverStranded'
    BY <1>5, SteppedDownAwake DEF LeaseTimeout
  <1>6. ASSUME NEW i \in Node, Restart(i) PROVE NeverStranded'
    <2>1. /\ election_timer' = [election_timer EXCEPT ![i] = Started(NewTimer)]
          /\ heartbeat_timer' = [heartbeat_timer EXCEPT ![i] = NewTimer]
          /\ lease_timer' = [lease_timer EXCEPT ![i] = NewTimer]
          /\ checks' = [checks EXCEPT ![i] = 0]
          /\ leader_waits' = [leader_waits EXCEPT ![i] = 0]
      BY <1>6 DEF Restart
    <2>2. election_timer'[i].armed
      BY <1>0, <2>1 DEF Started
    <2>3. \A j \in Node \ {i} :
             /\ election_timer'[j] = election_timer[j]
             /\ heartbeat_timer'[j] = heartbeat_timer[j]
             /\ lease_timer'[j] = lease_timer[j]
             /\ checks'[j] = checks[j] /\ leader_waits'[j] = leader_waits[j]
      BY <1>0, <2>1 DEF TypeOK, TimerTypeOK
    <2> QED BY <2>2, <2>3, StrandsNobody
  <1>7. ASSUME NEW m \in vote_requests, HandleRequestVote(m) PROVE NeverStranded'
    <2>1. UNCHANGED <<checks, leader_waits>> /\ m.to \in Node
      BY <1>7 DEF HandleRequestVote, TypeOK, CallTypeOK, VoteRequest
    <2>2. StepDown(m.to, lease_timer[m.to]) \/ UNCHANGED roleVars
      BY <1>7 DEF HandleRequestVote
    <2> QED BY <2>1, <2>2, SteppedDownAwake, NobodyMoved DEF roleVars, timerVars
  <1>8. ASSUME NEW m \in append_requests, HandleAppendEntries(m) PROVE NeverStranded'
    <2>1. UNCHANGED <<checks, leader_waits>> /\ m.to \in Node
      BY <1>8 DEF HandleAppendEntries, TypeOK, CallTypeOK, AppendRequest
    <2>2. \/ StepDown(m.to, lease_timer[m.to])
          \/ /\ election_timer' = [election_timer EXCEPT ![m.to] = Restarted(@)]
             /\ UNCHANGED <<heartbeat_timer, lease_timer>>
          \/ UNCHANGED roleVars
      BY <1>8 DEF HandleAppendEntries
    <2>3. ASSUME election_timer' = [election_timer EXCEPT ![m.to] = Restarted(@)],
                 UNCHANGED <<heartbeat_timer, lease_timer>>
          PROVE  NeverStranded'
      <3>1. election_timer'[m.to].armed
        BY <1>0, <2>1, <2>3 DEF Restarted, Started
      <3> QED BY <1>0, <2>1, <2>3, <3>1, StrandsNobody
    <2> QED BY <2>1, <2>2, <2>3, SteppedDownAwake, NobodyMoved DEF roleVars, timerVars
  <1>9. CASE \/ UNCHANGED vars
             \/ \E t \in vote_tasks : SendRequestVote(t)
             \/ \E t \in append_tasks : SendAppendEntries(t)
             \/ \E i \in Node, v \in Value : ServeClientSet(i, v)
             \/ \E r \in vote_replies : ReceiveVote(r)
             \/ \E r \in append_replies : ReceiveAppendReply(r)
             \/ \E v \in Value : ClientWake(v)
             \/ VoteCallFails \/ AppendCallFails
    BY <1>9, NobodyMoved DEF vars, SendRequestVote, SendAppendEntries, ServeClientSet,
       ReceiveVote, ReceiveAppendReply, ClientWake, VoteCallFails, AppendCallFails,
       roleVars, timerVars
  <1> QED BY <1>1, <1>2, <1>3, <1>4, <1>5, <1>6, <1>7, <1>8, <1>9 DEF Next

\* Whatever handlers, timers and threads do to each other, no node ever waits for
\* calls alone: something of its own will wake it.
THEOREM NobodyStranded == Spec => []NeverStranded
  <1>1. Init => NeverStranded
    BY DEF Init, NeverStranded, Started
  <1> QED BY <1>1, NextStrandsNobody, TypeCorrect, PTL DEF Spec

-----------------------------------------------------------------------------
(* Elections and senders, under any timing: what holds until a vote is late, and  *)
(* until a node replicates that does not lead.                                     *)

\* Every vote asked for, on its way or counted is one of the term it was asked for in,
\* those counted are of the node's present term, and whoever leads has a majority.
RequestsTimely == \A m \in vote_requests : m.term = m.round
RepliesTimely == \A r \in vote_replies : r.from \in Electors(r.to, r.round)
VotesCurrent == \A i \in Node : votes_received[i] \subseteq Electors(i, current_term[i])
BallotInv == RequestsTimely /\ RepliesTimely /\ VotesCurrent /\ LeaderIsElected

\* AppendEntries are for others, and of a term the sender was elected in.
TasksAway == \A t \in append_tasks : t.to # t.from
RequestsLed ==
    \A m \in append_requests : m.to # m.from /\ Majority(Electors(m.from, m.term))

TimelyInv ==
    /\ "vote" \notin late => BallotInv
    /\ TasksAway
    /\ late \subseteq {"ack"} => RequestsLed

-----------------------------------------------------------------------------
(* Votes and majorities. *)

\* More votes leave a majority a majority.
LEMMA MajorityGrows ==
    ASSUME NEW S \in SUBSET Node, NEW T \in SUBSET Node, S \subseteq T, Majority(S)
    PROVE  Majority(T)
  <1>1. IsFiniteSet(Node) /\ IsFiniteSet(S) /\ IsFiniteSet(T)
    BY NodeAssumption, FS_Subset
  <1>2. Cardinality(S) <= Cardinality(T)
    BY <1>1, FS_Subset
  <1>3. Cardinality(S) \in Nat /\ Cardinality(T) \in Nat /\ Cardinality(Node) \in Nat
    BY <1>1, FS_CardinalityType
  <1> QED BY <1>2, <1>3 DEF Majority

\* Votes are never taken back.
LEMMA ElectorsGrow ==
    ASSUME grants \subseteq grants', NEW c \in Node, NEW t
    PROVE  /\ Electors(c, t) \subseteq Electors(c, t)'
           /\ Majority(Electors(c, t)) => Majority(Electors(c, t)')
  <1>1. Electors(c, t) \subseteq Electors(c, t)'
    BY DEF Electors
  <1>2. Electors(c, t) \in SUBSET Node /\ Electors(c, t)' \in SUBSET Node
    BY DEF Electors
  <1> QED BY <1>1, <1>2, MajorityGrows

\* A term has one winner.
LEMMA OneWinner ==
    ASSUME OneVotePerTerm, NEW c, NEW d, NEW t,
           Majority(Electors(c, t)), Majority(Electors(d, t))
    PROVE  c = d
  <1>1. Electors(c, t) \in SUBSET Node /\ Electors(d, t) \in SUBSET Node
    BY DEF Electors
  <1>2. PICK n : n \in Electors(c, t) \cap Electors(d, t)
    BY <1>1, MajoritiesMeet
  <1>3. /\ [voter |-> n, candidate |-> c, term |-> t] \in grants
        /\ [voter |-> n, candidate |-> d, term |-> t] \in grants
    BY <1>2 DEF Electors
  <1> QED BY <1>3 DEF OneVotePerTerm

\* Whoever counts enough votes of its term has a majority of the nodes behind it.
LEMMA ElectedByMajority ==
    ASSUME TypeOK, VotesCurrent, NEW i \in Node, Elected(i)
    PROVE  Majority(Electors(i, current_term[i]))
  <1>1. /\ votes_received[i] \in SUBSET Node
        /\ votes_received[i] \subseteq Electors(i, current_term[i])
        /\ Electors(i, current_term[i]) \in SUBSET Node
    BY DEF TypeOK, NodeTypeOK, VotesCurrent, Electors
  <1>2. Cardinality(votes_received[i]) >= Cardinality(Node) \div 2 + 1
    BY DEF Elected, Threshold
  <1>3. Cardinality(Node) \in Nat /\ Cardinality(votes_received[i]) \in Nat
    BY <1>1, NodeAssumption, FS_Subset, FS_CardinalityType
  <1>4. Majority(votes_received[i])
    BY <1>2, <1>3 DEF Majority
  <1> QED BY <1>1, <1>4, MajorityGrows

\* What was late stays on record, and so was what is not on record now.
LEMMA LateGrows == [Next]_vars => late \subseteq late'
  <1> SUFFICES ASSUME [Next]_vars PROVE late \subseteq late'
    OBVIOUS
  <1>1. CASE UNCHANGED vars
    BY <1>1 DEF vars, otherVars
  <1>2. ASSUME NEW t \in vote_tasks, SendRequestVote(t) PROVE late \subseteq late'
    BY <1>2 DEF SendRequestVote, InTime
  <1>3. ASSUME NEW t \in append_tasks, SendAppendEntries(t) PROVE late \subseteq late'
    BY <1>3 DEF SendAppendEntries, InTime
  <1>4. ASSUME NEW r \in vote_replies, ReceiveVote(r) PROVE late \subseteq late'
    BY <1>4 DEF ReceiveVote, InTime
  <1>5. ASSUME NEW r \in append_replies, ReceiveAppendReply(r) PROVE late \subseteq late'
    BY <1>5 DEF ReceiveAppendReply, InTime
  <1>6. ASSUME NEW i \in Node, AcquireLease(i) PROVE late \subseteq late'
    BY <1>6 DEF AcquireLease, InTime
  <1>7. ASSUME NEW i \in Node,
               StartElection(i) \/ CheckElection(i) \/ SendHeartbeats(i) \/ LeaseTimeout(i)
        PROVE  late' = late
    BY <1>7 DEF StartElection, CheckElection, SendHeartbeats, LeaseTimeout, otherVars
  <1>8. ASSUME NEW i \in Node, Restart(i) PROVE late' = late
    BY <1>8 DEF Restart
  <1>9. ASSUME NEW i \in Node, NEW v \in Value, ServeClientSet(i, v) \/ ClientWake(v)
        PROVE  late' = late
    BY <1>9 DEF ServeClientSet, ClientWake
  <1>10. ASSUME NEW m \in vote_requests, HandleRequestVote(m) PROVE late' = late
    BY <1>10 DEF HandleRequestVote
  <1>11. ASSUME NEW m \in append_requests, HandleAppendEntries(m) PROVE late' = late
    BY <1>11 DEF HandleAppendEntries, otherVars
  <1>12. CASE VoteCallFails \/ AppendCallFails
    BY <1>12 DEF VoteCallFails, AppendCallFails
  <1>13. ASSUME NEW v \in Value, ClientWake(v) PROVE late' = late
    BY <1>13 DEF ClientWake
  <1> QED BY <1>1, <1>2, <1>3, <1>4, <1>5, <1>6, <1>7, <1>8, <1>9, <1>10, <1>11, <1>12,
             <1>13 DEF Next

-----------------------------------------------------------------------------
(* Ballots. *)

\* What a step may do to ballots.
LEMMA BallotStep ==
    ASSUME TypeOK, BallotInv, grants \subseteq grants', RequestsTimely',
           \A r \in vote_replies' :
               r \in vote_replies \/ r.from \in Electors(r.to, r.round)',
           \A j \in Node :
               \/ votes_received'[j] \subseteq Electors(j, current_term[j])'
               \/ /\ votes_received'[j] \subseteq votes_received[j]
                  /\ current_term'[j] = current_term[j],
           \A j \in Node : state'[j] = "LEADER" =>
               \/ state[j] = "LEADER" /\ current_term'[j] = current_term[j]
               \/ Majority(Electors(j, current_term[j]))
                  /\ current_term'[j] = current_term[j]
    PROVE  BallotInv'
  <1>1. \A j \in Node : \A t :
            /\ Electors(j, t) \subseteq Electors(j, t)'
            /\ Majority(Electors(j, t)) => Majority(Electors(j, t)')
    BY ElectorsGrow
  <1>2. RepliesTimely'
    <2> SUFFICES ASSUME NEW r \in vote_replies', r \in vote_replies
                 PROVE  r.from \in Electors(r.to, r.round)'
      BY DEF RepliesTimely
    <2>1. r.to \in Node /\ r.from \in Electors(r.to, r.round)
      BY DEF TypeOK, CallTypeOK, VoteReply, BallotInv, RepliesTimely
    <2> QED BY <2>1, <1>1
  <1>3. VotesCurrent'
    <2> SUFFICES ASSUME NEW j \in Node,
                        votes_received'[j] \subseteq votes_received[j],
                        current_term'[j] = current_term[j]
                 PROVE  votes_received'[j] \subseteq Electors(j, current_term[j])'
      BY DEF VotesCurrent
    <2>1. votes_received[j] \subseteq Electors(j, current_term[j])
      BY DEF BallotInv, VotesCurrent
    <2>2. Electors(j, current_term[j]) \subseteq Electors(j, current_term[j])'
      BY DEF Electors
    <2> QED BY <2>1, <2>2
  <1>4. LeaderIsElected'
    <2> SUFFICES ASSUME NEW j \in Node, state'[j] = "LEADER"
                 PROVE  Majority(Electors(j, current_term[j])')
      BY DEF LeaderIsElected
    <2>1. Majority(Electors(j, current_term[j])) /\ current_term'[j] = current_term[j]
      BY DEF BallotInv, LeaderIsElected
    <2>2. Electors(j, current_term[j]) \subseteq Electors(j, current_term[j])'
      BY <2>1 DEF Electors
    <2> QED BY <2>1, <2>2, MajorityGrows DEF Electors
  <1> QED BY <1>2, <1>3, <1>4 DEF BallotInv

\* Steps that move no ballot and change no term or state.
LEMMA BallotUnchanged ==
    ASSUME BallotInv,
           UNCHANGED <<state, current_term, votes_received, vote_requests, vote_replies,
                       grants>>
    PROVE  BallotInv'
  BY DEF BallotInv, RequestsTimely, RepliesTimely, VotesCurrent, LeaderIsElected,
         Electors, Majority

LEMMA BallotSendRequestVote ==
    ASSUME TypeOK, BallotInv, NEW t \in vote_tasks, SendRequestVote(t), "vote" \notin late'
    PROVE  BallotInv'
  <1>1. UNCHANGED <<state, current_term, votes_received, vote_replies, grants>>
    BY DEF SendRequestVote, roleVars, leaderVars, durableVars
  <1>2. current_term[t.from] = t.round
    BY DEF SendRequestVote, InTime
  <1>3. RequestsTimely'
    BY <1>2 DEF BallotInv, RequestsTimely, SendRequestVote
  <1> QED BY <1>1, <1>3, BallotStep

LEMMA BallotStartElection ==
    ASSUME TypeOK, BallotInv, NEW i \in Node, StartElection(i)
    PROVE  BallotInv'
  <1>1. /\ state' = [state EXCEPT ![i] = "CANDIDATE"]
        /\ current_term' = [current_term EXCEPT ![i] = @ + 1]
        /\ votes_received' = [votes_received EXCEPT ![i] = {i}]
        /\ grants' = grants \cup
               {[voter |-> i, candidate |-> i, term |-> current_term'[i]]}
        /\ UNCHANGED <<vote_requests, vote_replies>>
    BY DEF StartElection
  <1>2. /\ state \in [Node -> State] /\ current_term \in [Node -> Nat]
        /\ votes_received \in [Node -> SUBSET Node]
    BY DEF TypeOK, NodeTypeOK
  <1>3. \A j \in Node \ {i} : /\ current_term'[j] = current_term[j]
                              /\ votes_received'[j] = votes_received[j]
                              /\ state'[j] = state[j]
    BY <1>1, <1>2
  <1>4. votes_received'[i] \subseteq Electors(i, current_term[i])' /\ state'[i] # "LEADER"
    BY <1>1, <1>2 DEF Electors
  <1>5. RequestsTimely'
    BY <1>1 DEF BallotInv, RequestsTimely
  <1> QED BY <1>1, <1>3, <1>4, <1>5, BallotStep

\* A node that steps down has counted no vote.
LEMMA BallotStepDown ==
    ASSUME TypeOK, BallotInv, NEW i \in Node, NEW lease, grants \subseteq grants',
           StepDown(i, lease), \A j \in Node \ {i} : current_term'[j] = current_term[j],
           vote_requests' \subseteq vote_requests,
           \A r \in vote_replies' :
               r \in vote_replies \/ r.from \in Electors(r.to, r.round)'
    PROVE  BallotInv'
  <1>1. /\ state' = [state EXCEPT ![i] = "FOLLOWER"]
        /\ votes_received' = [votes_received EXCEPT ![i] = {}]
    BY DEF StepDown
  <1>2. state \in [Node -> State] /\ votes_received \in [Node -> SUBSET Node]
    BY DEF TypeOK, NodeTypeOK
  <1>3. state'[i] # "LEADER" /\ votes_received'[i] = {}
    BY <1>1, <1>2
  <1>4. \A j \in Node \ {i} : /\ votes_received'[j] = votes_received[j]
                              /\ state'[j] = state[j]
    BY <1>1, <1>2
  <1>5. RequestsTimely'
    BY DEF BallotInv, RequestsTimely
  <1> QED BY <1>3, <1>4, <1>5, BallotStep

LEMMA BallotHandleRequestVote ==
    ASSUME TypeOK, BallotInv, NEW m \in vote_requests, HandleRequestVote(m)
    PROVE  BallotInv'
  <1> DEFINE i == m.to
  <1>1. /\ i \in Node /\ m.from \in Node /\ m.term \in Nat /\ m.term = m.round
        /\ current_term \in [Node -> Nat]
    BY DEF TypeOK, CallTypeOK, VoteRequest, NodeTypeOK, BallotInv, RequestsTimely
  <1>2. /\ current_term' = [current_term EXCEPT ![i] = Max2(@, m.term)]
        /\ vote_requests' = vote_requests \ {m}
        /\ grants' = IF Grants(i, m)
                     THEN grants \cup {[voter |-> i, candidate |-> m.from, term |-> m.term]}
                     ELSE grants
        /\ vote_replies' = IF Grants(i, m) /\ m.live
                           THEN vote_replies \cup
                                    {[from |-> i, to |-> m.from, round |-> m.round]}
                           ELSE vote_replies
    BY DEF HandleRequestVote
  <1>3. grants \subseteq grants'
    BY <1>2
  <1>4. \A r \in vote_replies' : r \in vote_replies \/ r.from \in Electors(r.to, r.round)'
    BY <1>1, <1>2 DEF Electors
  <1>5. CASE m.term > current_term[i]
    <2>1. StepDown(i, lease_timer[i])
      BY <1>5 DEF HandleRequestVote
    <2>2. \A j \in Node \ {i} : current_term'[j] = current_term[j]
      BY <1>1, <1>2
    <2> HIDE DEF i
    <2> QED BY <1>1, <1>2, <1>3, <1>4, <2>1, <2>2, BallotStepDown
  <1>6. CASE ~(m.term > current_term[i])
    <2>1. UNCHANGED <<current_term, votes_received, state>>
      BY <1>1, <1>2, <1>6 DEF HandleRequestVote, Max2, roleVars, leaderVars
    <2>2. RequestsTimely'
      BY <1>2 DEF BallotInv, RequestsTimely
    <2> QED BY <1>3, <1>4, <2>1, <2>2, BallotStep
  <1> QED BY <1>5, <1>6

LEMMA BallotReceiveVote ==
    ASSUME TypeOK, BallotInv, NEW r \in vote_replies, ReceiveVote(r), "vote" \notin late'
    PROVE  BallotInv'
  <1>1. /\ votes_received' = [votes_received EXCEPT ![r.to] = @ \cup {r.from}]
        /\ vote_replies' = vote_replies \ {r}
        /\ UNCHANGED <<state, current_term, vote_requests, grants>>
    BY DEF ReceiveVote, durableVars
  <1>2. r.round = current_term[r.to]
    BY DEF ReceiveVote, InTime
  <1>3. /\ r.from \in Electors(r.to, current_term[r.to])
        /\ votes_received \in [Node -> SUBSET Node]
    BY <1>2 DEF BallotInv, RepliesTimely, TypeOK, NodeTypeOK
  <1>4. VotesCurrent'
    BY <1>1, <1>3 DEF BallotInv, VotesCurrent, Electors
  <1> QED BY <1>1, <1>4
          DEF BallotInv, RequestsTimely, RepliesTimely, LeaderIsElected, Electors, Majority

LEMMA BallotVoteCallFails ==
    ASSUME TypeOK, BallotInv, VoteCallFails
    PROVE  BallotInv'
  <1>1. UNCHANGED <<state, current_term, votes_received, grants>>
    BY DEF VoteCallFails, roleVars, leaderVars, durableVars
  <1>2. vote_replies' \subseteq vote_replies
    BY DEF VoteCallFails
  <1>3. \A m \in vote_requests : [m EXCEPT !.live = FALSE].term = [m EXCEPT !.live = FALSE].round
    BY DEF TypeOK, CallTypeOK, VoteRequest, BallotInv, RequestsTimely
  <1>4. RequestsTimely'
    BY <1>3 DEF VoteCallFails, BallotInv, RequestsTimely
  <1> QED BY <1>1, <1>2, <1>4, BallotStep

LEMMA BallotCheckElection ==
    ASSUME TypeOK, BallotInv, NEW i \in Node, CheckElection(i)
    PROVE  BallotInv'
  <1>1. UNCHANGED <<current_term, vote_requests, vote_replies, grants>>
    BY DEF CheckElection, durableVars, electionRpc, otherVars
  <1>2. RequestsTimely'
    BY <1>1 DEF BallotInv, RequestsTimely
  <1>3. CASE Elected(i)
    <2>1. /\ state' = [state EXCEPT ![i] = "LEADER"]
          /\ votes_received' = [votes_received EXCEPT ![i] = {}]
      BY <1>3 DEF CheckElection
    <2>2. state \in [Node -> State] /\ votes_received \in [Node -> SUBSET Node]
      BY DEF TypeOK, NodeTypeOK
    <2>3. Majority(Electors(i, current_term[i]))
      BY <1>3, ElectedByMajority DEF BallotInv
    <2>4. \A j \in Node : /\ votes_received'[j] \subseteq votes_received[j]
                          /\ state'[j] = "LEADER" => state[j] = "LEADER" \/ j = i
      BY <2>1, <2>2
    <2> QED BY <1>1, <1>2, <2>3, <2>4, BallotStep
  <1>4. CASE ~Elected(i)
    <2>1. UNCHANGED <<state, votes_received>>
      BY <1>4 DEF CheckElection, leaderVars
    <2> QED BY <1>1, <2>1, BallotUnchanged
  <1> QED BY <1>3, <1>4

LEMMA BallotLeaseTimeout ==
    ASSUME TypeOK, BallotInv, NEW i \in Node, LeaseTimeout(i)
    PROVE  BallotInv'
  <1>1. UNCHANGED <<current_term, vote_requests, vote_replies, grants>>
    BY DEF LeaseTimeout, durableVars, electionRpc
  <1>2. PICK t \in Fired(lease_timer[i]) : StepDown(i, t)
    BY DEF LeaseTimeout
  <1> QED BY <1>1, <1>2, BallotStepDown

LEMMA BallotHandleAppendEntries ==
    ASSUME TypeOK, BallotInv, NEW m \in append_requests, HandleAppendEntries(m)
    PROVE  BallotInv'
  <1> DEFINE i == m.to
  <1>1. i \in Node /\ m.term \in Nat /\ current_term \in [Node -> Nat]
    BY DEF TypeOK, CallTypeOK, AppendRequest, NodeTypeOK
  <1>2. /\ current_term' = [current_term EXCEPT ![i] = Max2(@, m.term)]
        /\ UNCHANGED <<vote_requests, vote_replies, grants>>
    BY DEF HandleAppendEntries, electionRpc, otherVars
  <1>3. CASE m.term > current_term[i]
    <2>1. StepDown(i, lease_timer[i])
      BY <1>1, <1>3 DEF HandleAppendEntries
    <2>2. \A j \in Node \ {i} : current_term'[j] = current_term[j]
      BY <1>1, <1>2
    <2> HIDE DEF i
    <2> QED BY <1>1, <1>2, <2>1, <2>2, BallotStepDown
  <1>4. CASE ~(m.term > current_term[i])
    <2>1. UNCHANGED current_term
      BY <1>1, <1>2, <1>4 DEF Max2
    <2>2. UNCHANGED votes_received /\ (UNCHANGED state \/ state' = [state EXCEPT ![i] = "FOLLOWER"])
      BY <1>1, <1>4 DEF HandleAppendEntries, roleVars, leaderVars
    <2>3. \A j \in Node : state'[j] = "LEADER" => state[j] = "LEADER"
      BY <1>1, <2>2 DEF TypeOK, NodeTypeOK
    <2>4. RequestsTimely'
      BY <1>2 DEF BallotInv, RequestsTimely
    <2> QED BY <1>2, <2>1, <2>2, <2>3, <2>4, BallotStep
  <1> QED BY <1>3, <1>4

LEMMA BallotRestart ==
    ASSUME TypeOK, VoteInv, BallotInv, NEW i \in Node, Restart(i)
    PROVE  BallotInv'
  <1>1. /\ state' = [state EXCEPT ![i] = "FOLLOWER"]
        /\ current_term' = [current_term EXCEPT ![i] = disk[i].term]
        /\ votes_received' = [votes_received EXCEPT ![i] = {}]
        /\ vote_replies' \subseteq vote_replies
        /\ vote_requests' = {[m EXCEPT !.live = m.live /\ m.from # i] :
                                 m \in {n \in vote_requests : n.to # i}}
        /\ UNCHANGED grants
    BY DEF Restart
  <1>2. /\ state \in [Node -> State] /\ current_term \in [Node -> Nat]
        /\ votes_received \in [Node -> SUBSET Node]
    BY DEF TypeOK, NodeTypeOK
  <1>3. state'[i] # "LEADER" /\ votes_received'[i] = {}
    BY <1>1, <1>2
  <1>4. \A j \in Node \ {i} : /\ votes_received'[j] = votes_received[j]
                              /\ state'[j] = state[j]
                              /\ current_term'[j] = current_term[j]
    BY <1>1, <1>2
  <1>5. RequestsTimely'
    <2> SUFFICES ASSUME NEW n \in vote_requests
                 PROVE  LET m == [n EXCEPT !.live = n.live /\ n.from # i]
                        IN  m.term = m.round
      BY <1>1 DEF RequestsTimely
    <2> QED BY DEF TypeOK, CallTypeOK, VoteRequest, BallotInv, RequestsTimely
  <1> QED BY <1>1, <1>3, <1>4, <1>5, BallotStep

LEMMA InitBallot == Init => BallotInv
  BY DEF Init, BallotInv, RequestsTimely, RepliesTimely, VotesCurrent, LeaderIsElected

\* Every step keeps ballots in order that is no late vote.
LEMMA NextBallot ==
    ASSUME TypeOK, VoteInv, BallotInv, [Next]_vars, "vote" \notin late'
    PROVE  BallotInv'
  <1>1. CASE UNCHANGED vars
    BY <1>1, BallotUnchanged
       DEF vars, roleVars, leaderVars, durableVars, electionRpc, otherVars
  <1>2. ASSUME NEW t \in append_tasks, SendAppendEntries(t) PROVE BallotInv'
    BY <1>2, BallotUnchanged
       DEF SendAppendEntries, roleVars, leaderVars, durableVars, electionRpc
  <1>3. ASSUME NEW i \in Node, AcquireLease(i) PROVE BallotInv'
    BY <1>3, BallotUnchanged DEF AcquireLease, leaderVars, electionRpc
  <1>4. ASSUME NEW i \in Node, SendHeartbeats(i) PROVE BallotInv'
    BY <1>4, BallotUnchanged
       DEF SendHeartbeats, leaderVars, durableVars, electionRpc, otherVars
  <1>5. ASSUME NEW i \in Node, NEW v \in Value, ServeClientSet(i, v) PROVE BallotInv'
    BY <1>5, BallotUnchanged DEF ServeClientSet, roleVars, leaderVars, electionRpc
  <1>6. ASSUME NEW v \in Value, ClientWake(v) PROVE BallotInv'
    BY <1>6, BallotUnchanged DEF ClientWake, roleVars, leaderVars, durableVars, electionRpc
  <1>7. ASSUME NEW r \in append_replies, ReceiveAppendReply(r) PROVE BallotInv'
    BY <1>7, BallotUnchanged DEF ReceiveAppendReply, electionRpc
  <1>8. CASE AppendCallFails
    BY <1>8, BallotUnchanged
       DEF AppendCallFails, roleVars, leaderVars, durableVars, electionRpc
  <1> QED BY <1>1, <1>2, <1>3, <1>4, <1>5, <1>6, <1>7, <1>8, BallotSendRequestVote,
             BallotStartElection, BallotCheckElection, BallotLeaseTimeout, BallotRestart,
             BallotHandleRequestVote, BallotReceiveVote, BallotHandleAppendEntries,
             BallotVoteCallFails DEF Next

-----------------------------------------------------------------------------
(* Who sends AppendEntries. *)

\* A request m of now is one of before, up to whether anybody waits for it.
SameRequest(m, n) == m.from = n.from /\ m.to = n.to /\ m.term = n.term

\* Votes given and requests handled or given up change no sender.
LEMMA RequestsLedKept ==
    ASSUME TypeOK, RequestsLed, grants \subseteq grants',
           \A m \in append_requests' : \E n \in append_requests : SameRequest(m, n)
    PROVE  RequestsLed'
  <1> SUFFICES ASSUME NEW m \in append_requests'
               PROVE  m.to # m.from /\ Majority(Electors(m.from, m.term)')
    BY DEF RequestsLed
  <1>1. PICK n \in append_requests : SameRequest(m, n)
    OBVIOUS
  <1>2. n.to # n.from /\ Majority(Electors(n.from, n.term)) /\ n.from \in Node
    BY DEF RequestsLed, TypeOK, CallTypeOK, AppendRequest
  <1>3. Majority(Electors(n.from, n.term)')
    BY <1>2, ElectorsGrow
  <1> QED BY <1>1, <1>2, <1>3 DEF SameRequest, Electors

\* Every step but a sending one leaves the requests as they are, up to that.
NothingSent ==
    /\ grants \subseteq grants'
    /\ \A m \in append_requests' : \E n \in append_requests : SameRequest(m, n)
LEMMA RequestsStay ==
    ASSUME TypeOK, Next, ~ \E t \in append_tasks : SendAppendEntries(t)
    PROVE  NothingSent
  <1>1. ASSUME append_requests' \subseteq append_requests, grants \subseteq grants'
        PROVE  NothingSent
    BY <1>1 DEF SameRequest, NothingSent
  <1>2. \A m \in append_requests :
            /\ SameRequest(m, m)
            /\ SameRequest([m EXCEPT !.live = FALSE, !.slot = 0], m)
    BY DEF TypeOK, CallTypeOK, AppendRequest, SameRequest
  <1>3. ASSUME NEW i \in Node, Restart(i) PROVE NothingSent
    <2>1. /\ append_requests' = {IF m.from = i THEN [m EXCEPT !.live = FALSE, !.slot = 0]
                                 ELSE m : m \in {n \in append_requests : n.to # i}}
          /\ UNCHANGED grants
      BY <1>3 DEF Restart
    <2> QED BY <2>1, <1>2 DEF NothingSent
  <1>4. CASE AppendCallFails
    <2>1. UNCHANGED grants /\ (\/ append_requests' = append_requests
                               \/ \E m \in append_requests :
                                      append_requests' = (append_requests \ {m}) \cup
                                          {[m EXCEPT !.live = FALSE, !.slot = 0]})
      BY <1>4 DEF AppendCallFails
    <2> QED BY <2>1, <1>2 DEF NothingSent
  <1>5. ASSUME NEW m \in append_requests, HandleAppendEntries(m) PROVE NothingSent
    BY <1>1, <1>5 DEF HandleAppendEntries, otherVars
  <1>6. ASSUME NEW r \in append_replies, ReceiveAppendReply(r) PROVE NothingSent
    BY <1>1, <1>6 DEF ReceiveAppendReply
  <1>7. ASSUME NEW m \in vote_requests, HandleRequestVote(m) PROVE NothingSent
    BY <1>1, <1>7 DEF HandleRequestVote, appendRpc
  <1>8. ASSUME NEW r \in vote_replies, ReceiveVote(r) PROVE NothingSent
    BY <1>1, <1>8 DEF ReceiveVote, appendRpc
  <1>9. ASSUME NEW t \in vote_tasks, SendRequestVote(t) PROVE NothingSent
    BY <1>1, <1>9 DEF SendRequestVote, appendRpc
  <1>10. ASSUME NEW i \in Node, StartElection(i) \/ CheckElection(i) PROVE NothingSent
    BY <1>1, <1>10 DEF StartElection, CheckElection, appendRpc, otherVars
  <1>11. ASSUME NEW i \in Node, AcquireLease(i) \/ SendHeartbeats(i) \/ LeaseTimeout(i)
         PROVE  NothingSent
    BY <1>1, <1>11 DEF AcquireLease, SendHeartbeats, LeaseTimeout, appendRpc, otherVars
  <1>12. ASSUME NEW i \in Node, NEW v \in Value, ServeClientSet(i, v) PROVE NothingSent
    BY <1>1, <1>12 DEF ServeClientSet, appendRpc
  <1>13. ASSUME NEW v \in Value, ClientWake(v) PROVE NothingSent
    BY <1>1, <1>13 DEF ClientWake, appendRpc
  <1>14. CASE VoteCallFails
    BY <1>1, <1>14 DEF VoteCallFails, appendRpc
  <1> QED BY <1>3, <1>4, <1>5, <1>6, <1>7, <1>8, <1>9, <1>10, <1>11, <1>12, <1>13, <1>14
          DEF Next

\* A leader that sends was elected in the term its request is of.
LEMMA LedSendAppendEntries ==
    ASSUME TypeOK, BallotInv, TasksAway, RequestsLed, NEW t \in append_tasks,
           SendAppendEntries(t), "lead" \notin late'
    PROVE  RequestsLed'
  <1>1. /\ UNCHANGED <<state, grants>>
        /\ \A m \in append_requests' :
               \/ m \in append_requests
               \/ m.from = t.from /\ m.to = t.to /\ m.term = current_term[t.from]
    BY DEF SendAppendEntries, roleVars
  <1>2. state[t.from] = "LEADER"
    BY DEF SendAppendEntries, InTime
  <1>3. /\ t.from \in Node /\ t.to # t.from
        /\ Majority(Electors(t.from, current_term[t.from]))
    BY <1>2 DEF TypeOK, CallTypeOK, AppendTask, TasksAway, BallotInv, LeaderIsElected
  <1> QED BY <1>1, <1>3 DEF RequestsLed, Electors, Majority

\* Nobody is told to send to itself.
LEMMA NextTasksAway == ASSUME TasksAway, [Next]_vars PROVE TasksAway'
  <1>1. ASSUME append_tasks' \subseteq append_tasks PROVE TasksAway'
    BY <1>1 DEF TasksAway
  <1>2. ASSUME NEW i \in Node, NEW heartbeat, NEW lease, SendsHeartbeats(i, heartbeat, lease)
        PROVE  TasksAway'
    BY <1>2 DEF SendsHeartbeats, TasksAway, Others
  <1>3. CASE UNCHANGED vars
    BY <1>1, <1>3 DEF vars, appendRpc
  <1>4. ASSUME NEW i \in Node, AcquireLease(i) \/ SendHeartbeats(i) PROVE TasksAway'
    BY <1>2, <1>4 DEF AcquireLease, SendHeartbeats
  <1>5. ASSUME NEW i \in Node,
               StartElection(i) \/ CheckElection(i) \/ LeaseTimeout(i) \/ Restart(i)
        PROVE  TasksAway'
    BY <1>1, <1>5 DEF StartElection, CheckElection, LeaseTimeout, Restart, appendRpc
  <1>6. ASSUME NEW t, SendRequestVote(t) \/ SendAppendEntries(t) PROVE TasksAway'
    BY <1>1, <1>6 DEF SendRequestVote, SendAppendEntries, appendRpc
  <1>7. ASSUME NEW m, HandleRequestVote(m) \/ HandleAppendEntries(m) PROVE TasksAway'
    BY <1>1, <1>7 DEF HandleRequestVote, HandleAppendEntries, appendRpc
  <1>8. ASSUME NEW r, ReceiveVote(r) \/ ReceiveAppendReply(r) PROVE TasksAway'
    BY <1>1, <1>8 DEF ReceiveVote, ReceiveAppendReply, appendRpc
  <1>9. ASSUME NEW i, NEW v, ServeClientSet(i, v) \/ ClientWake(v) PROVE TasksAway'
    BY <1>1, <1>9 DEF ServeClientSet, ClientWake, appendRpc
  <1>10. CASE VoteCallFails \/ AppendCallFails
    BY <1>1, <1>10 DEF VoteCallFails, AppendCallFails, appendRpc
  <1> QED BY <1>3, <1>4, <1>5, <1>6, <1>7, <1>8, <1>9, <1>10 DEF Next

-----------------------------------------------------------------------------
(* Leaders. *)

LEMMA InitTimely == Init => TimelyInv
  BY InitBallot DEF TimelyInv, Init, TasksAway, RequestsLed

\* Every step keeps ballots and senders in order, but a late vote or a late sender.
LEMMA NextTimely == ASSUME TypeOK, VoteInv, TimelyInv, [Next]_vars PROVE TimelyInv'
  <1> USE DEF TimelyInv
  <1>1. late \subseteq late'
    BY LateGrows
  <1>2. "vote" \notin late' => BallotInv'
    BY <1>1, NextBallot
  <1>3. TasksAway'
    BY NextTasksAway
  <1>4. ASSUME late' \subseteq {"ack"} PROVE RequestsLed'
    <2>1. BallotInv /\ RequestsLed
      BY <1>1, <1>4
    <2>2. CASE \E t \in append_tasks : SendAppendEntries(t)
      BY <2>1, <2>2, <1>4, LedSendAppendEntries
    <2>3. CASE UNCHANGED vars
      BY <2>1, <2>3 DEF vars, appendRpc, otherVars, RequestsLed, Electors, Majority
    <2>4. CASE Next /\ ~ \E t \in append_tasks : SendAppendEntries(t)
      BY <2>1, <2>4, RequestsStay, RequestsLedKept DEF NothingSent
    <2> QED BY <2>2, <2>3, <2>4
  <1> QED BY <1>2, <1>3, <1>4

\* Under any timing, until a vote is late the votes counted are of the counting node's
\* present term and whoever leads was elected in it; until a node replicates that does
\* not lead, every AppendEntries comes from a node a majority elected in its term.
THEOREM BallotsKept == Spec => []TimelyInv
  <1>1. TypeOK /\ VoteInv /\ TimelyInv /\ [Next]_vars => TimelyInv'
    BY NextTimely
  <1> QED BY <1>1, InitTimely, TypeCorrect, VotesAgree, PTL DEF Spec

\* A term has at most one LEADER, for any number of nodes, calls, failures and crashes
\* and however slow the calls and threads are, unless a vote was late.
THEOREM OneLeader == Spec => []ElectionSafety
  <1>1. OneVotePerTerm /\ TimelyInv => ElectionSafety
    BY OneWinner DEF TimelyInv, BallotInv, LeaderIsElected, ElectionSafety
  <1> QED BY <1>1, BallotsKept, OneVote, PTL
=============================================================================
