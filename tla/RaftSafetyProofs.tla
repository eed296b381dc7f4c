-------------------------- MODULE RaftSafetyProofs --------------------------
(***************************************************************************)
(* Proofs that what Raft commits stays committed, that stores follow the   *)
(* log and that nodes implement ReplicatedLog, for every set of nodes and  *)
(* values, every bound and every timing, as long as nothing is late: no    *)
(* vote is asked for or counted, no acknowledgement counted and no entry   *)
(* written or sent for a role or a term that is over by then.              *)
(*                                                                         *)
(* Requests may be handled late and in any order, calls may be under way   *)
(* when the sender's term changes, and a leader may be deposed at any time *)
(* so long as its thread at raft.py:203 wakes up to a leader.              *)
(*                                                                         *)
(* To the set T of the logs ever written RaftLogProofs speaks of, the      *)
(* invariants add the set A of all acknowledgements: that a node, in a     *)
(* term, had the log of the term's leader up to a length.                  *)
(***************************************************************************)
EXTENDS RaftLogProofs
-----------------------------------------------------------------------------
(* Acknowledgements. *)

Ack == [node : Node, term : Nat, upto : Nat]

\* n acknowledged at least the first k entries of the leader of term t.
Has(A, n, t, k) == \E a \in A : a.node = n /\ a.term = t /\ a.upto >= k

\* So did a majority; or a majority has not and never will, being in later terms.
Chosen(A, t, k) == Majority({n \in Node : Has(A, n, t, k)})
Blocked(A, t, k) == Majority({n \in Node : current_term[n] > t /\ ~Has(A, n, t, k)})

\* M has the first j entries of L, unless the last of these cannot be chosen.
Kept(A, L, j, M) == Agree(L, M, j) \/ Blocked(A, L[j].term, j)

\* The first k entries of M were chosen, in a term up to t.
ChosenUpTo(T, A, M, k, t) ==
    \/ k = 0
    \/ \E L \in T : \E j \in 1..Len(L) :
           Chosen(A, L[j].term, j) /\ L[j].term <= t /\ k <= j /\ Agree(L, M, k)

\* No entry of L is of a term later than t.
Below(L, t) == \A k \in 1..Len(L) : L[k].term <= t

-----------------------------------------------------------------------------
(* The inductive invariant. *)

\* Acknowledgements are of terms that were won, and lie in the past.
AcksWon(A) ==
    \A a \in A : a.term <= current_term[a.node] /\ \E c \in Node : Majority(Electors(c, a.term))

\* Logs with entries of later terms have all that can still be chosen of earlier ones.
Complete(T, A) ==
    \A L, M \in T : \A j \in 1..Len(L), k \in 1..Len(M) :
        L[j].term < M[k].term => Kept(A, L, j, M)

\* The last term of a log is its latest, and no log is ahead of its node's term.
Sorted(T) == \A L \in T : Below(L, LastTerm(L))
Reached == \A i \in Node : Below(log[i], current_term[i])

\* What a node acknowledged it still has, if it can still be chosen.
Retained(T, A) ==
    \A a \in A, L \in T : \A j \in 1..Len(L) :
        L[j].term = a.term /\ j <= a.upto => Kept(A, L, j, log[a.node])

\* The winner of a term has itself all that is acknowledged in it.
Own(A) ==
    \A i \in Node : Winner(i) =>
        /\ \A a \in A : a.term = current_term[i] => a.upto <= Len(log[i])
        /\ \A k \in 1..Len(log[i]) :
               log[i][k].term = current_term[i] => Has(A, i, current_term[i], k)

AckInv(T, A) ==
    /\ AcksWon(A) /\ Complete(T, A) /\ Sorted(T) /\ Reached /\ Retained(T, A) /\ Own(A)

\* A voter of a candidate in its present term had nothing the candidate lacks.
Backed(T, A, g) ==
    \/ OtherWinner(g.candidate)
    \/ \A L \in T : \A j \in 1..Len(L) :
           L[j].term < g.term /\ Has(A, g.voter, L[j].term, j)
           => Kept(A, L, j, log[g.candidate])
Votes(T, A) == \A g \in grants : g.term = current_term[g.candidate] => Backed(T, A, g)

\* A RequestVote describes a log P the candidate has, perhaps with more by now.
Describes(m, P) ==
    /\ Len(P) = m.last_log_index /\ LastTerm(P) = m.last_log_term
    /\ Agree(P, log[m.from], Len(P))
Asked(T) ==
    \A m \in vote_requests : m.term = current_term[m.from] =>
        OtherWinner(m.from) \/ \E P \in T : Describes(m, P)
Tasks ==
    \A t \in vote_tasks :
        /\ t.round <= current_term[t.from]
        /\ state[t.from] = "CANDIDATE" /\ current_term[t.from] = t.round
           => t.last_term = LastTerm(log[t.from])

BallotsInv(T, A) == Votes(T, A) /\ Asked(T) /\ Tasks

\* A request carries the log X of the winner of its term, as it was.
Sent(T, A, m, X) ==
    /\ Carries(m, X) /\ Below(X, m.term)
    /\ \A L \in T : \A j \in 1..Len(L) :
           /\ L[j].term = m.term => Agree(L, X, Min2(j, Len(X)))
           /\ L[j].term < m.term => Kept(A, L, j, X)
    /\ m.term = current_term[m.from] => Agree(X, log[m.from], Len(X))
    /\ ChosenUpTo(T, A, X, m.commit, m.term)
RequestsInv(T, A) == \A m \in append_requests : \E X \in T : Sent(T, A, m, X)

\* What is committed was chosen, and what is in memory is on disk.
Committed(T, A) ==
    \A i \in Node : ChosenUpTo(T, A, log[i], commit_length[i], current_term[i])
OnDisk == \A i \in Node : disk[i].log = log[i]

\* A node that has AppendEntries calls of its term under way, or may have some.
Calling(i) ==
    \/ \E m \in append_requests : m.live /\ m.from = i /\ m.term = current_term[i]
    \/ \E r \in append_replies : r.to = i /\ r.term = current_term[i]
Open(i) == state[i] = "LEADER" \/ Calling(i)

\* A reply is of a term its receiver was elected in, and what a node counts was
\* acknowledged in its term.
RepliesTrue(A) ==
    \A r \in append_replies :
        /\ Majority(Electors(r.to, r.term))
        /\ r.success => r.from # r.to /\ Has(A, r.from, r.term, r.upto)
CountsTrue(A) ==
    \A i \in Node : Open(i) =>
        /\ Winner(i)
        /\ \A j \in Node : acked_length[i][j] > 0 =>
               j # i /\ Has(A, j, current_term[i], acked_length[i][j])
CallsInv(A) == RepliesTrue(A) /\ CountsTrue(A)

\* A SET that was answered with success was chosen.
ClientInv(T, A) ==
    \A v \in Value : client[v].status = "ok" =>
        \E L \in T : \E j \in 1..Len(L) : \E k \in 1..j :
            /\ Chosen(A, L[j].term, j)
            /\ L[k] = [term |-> client[v].term, value |-> v]

SafeWith(T, A) ==
    /\ TreeInv(T) /\ AckInv(T, A) /\ BallotsInv(T, A) /\ RequestsInv(T, A)
    /\ Committed(T, A) /\ OnDisk /\ CallsInv(A) /\ ClientInv(T, A)
SafeInv == late = {} => \E T \in SUBSET Seq(Entry), A \in SUBSET Ack : SafeWith(T, A)

\* What the steps are taken from: elections and senders are in order.
Orderly == BallotInv /\ TasksAway /\ RequestsLed

-----------------------------------------------------------------------------
(* What a step keeps of acknowledgements. *)

USE NodeAssumption

\* What is known of every step.
Moves ==
    /\ TypeOK /\ TypeOK' /\ VoteInv /\ VoteInv' /\ Candidates /\ Candidates'
    /\ grants \subseteq grants'
    /\ \A i \in Node : current_term'[i] >= current_term[i]

\* Nodes acknowledge entries of the term they are in.
AcksGrow(A, B) ==
    A \subseteq B /\ \A b \in B : b \in A \/ b.term = current_term'[b.node]

KeptNext(B, L, j, M) == Agree(L, M, j) \/ Blocked(B, L[j].term, j)'

\* What is chosen stays chosen.
LEMMA ChosenGrows ==
    ASSUME NEW A, NEW B, A \subseteq B, NEW t, NEW k, Chosen(A, t, k)
    PROVE  Chosen(B, t, k)
  <1>1. {n \in Node : Has(A, n, t, k)} \subseteq {n \in Node : Has(B, n, t, k)}
    BY DEF Has
  <1> QED BY <1>1, MajorityGrows DEF Chosen

LEMMA ChosenUpToGrows ==
    ASSUME NEW T, NEW U, T \subseteq U, NEW A, NEW B, A \subseteq B, NEW M,
           NEW k, NEW t \in Nat, NEW u \in Nat, t <= u, T \in SUBSET Seq(Entry),
           ChosenUpTo(T, A, M, k, t)
    PROVE  ChosenUpTo(U, B, M, k, u)
  <1>1. CASE k = 0
    BY <1>1 DEF ChosenUpTo
  <1>2. CASE k # 0
    <2>1. PICK L \in T : \E j \in 1..Len(L) :
              Chosen(A, L[j].term, j) /\ L[j].term <= t /\ k <= j /\ Agree(L, M, k)
      BY <1>2 DEF ChosenUpTo
    <2>2. PICK j \in 1..Len(L) :
              Chosen(A, L[j].term, j) /\ L[j].term <= t /\ k <= j /\ Agree(L, M, k)
      BY <2>1
    <2>3. L[j].term \in Nat
      BY LogFacts
    <2>4. L[j].term <= u
      BY <2>2, <2>3
    <2> QED BY <2>2, <2>4, ChosenGrows DEF ChosenUpTo
  <1> QED BY <1>1, <1>2

\* Nobody goes back to an earlier term to acknowledge what it did not.
LEMMA BlockedGrows ==
    ASSUME Moves, NEW A \in SUBSET Ack, NEW B \in SUBSET Ack, AcksGrow(A, B),
           NEW t \in Nat, NEW k, Blocked(A, t, k)
    PROVE  Blocked(B, t, k)'
  <1> DEFINE S == {n \in Node : current_term[n] > t /\ ~Has(A, n, t, k)}
             R == {n \in Node : current_term'[n] > t /\ ~Has(B, n, t, k)}
  <1>1. S \subseteq R
    <2> SUFFICES ASSUME NEW n \in Node, current_term[n] > t, ~Has(A, n, t, k)
                 PROVE  current_term'[n] > t /\ ~Has(B, n, t, k)
      OBVIOUS
    <2>1. current_term[n] \in Nat /\ current_term'[n] \in Nat
      BY DEF Moves, TypeOK, NodeTypeOK
    <2>2. current_term'[n] > t
      BY <2>1 DEF Moves
    <2> QED BY <2>1, <2>2 DEF Has, AcksGrow
  <1>2. Majority(S)
    BY DEF Blocked
  <1>3. Majority(R)
    BY <1>1, <1>2, MajorityGrows
  <1> QED BY <1>3 DEF Blocked, Has, Majority

LEMMA KeptGrows ==
    ASSUME Moves, NEW A \in SUBSET Ack, NEW B \in SUBSET Ack, AcksGrow(A, B),
           NEW L \in Seq(Entry), NEW j \in 1..Len(L), NEW M, Kept(A, L, j, M)
    PROVE  KeptNext(B, L, j, M)
  <1>1. L[j].term \in Nat
    BY LogFacts
  <1> QED BY <1>1, BlockedGrows DEF Kept, KeptNext

\* What was chosen is kept.
LEMMA ChosenKept ==
    ASSUME NEW A, NEW L, NEW j, NEW M, Chosen(A, L[j].term, j), Kept(A, L, j, M)
    PROVE  Agree(L, M, j)
  <1> SUFFICES ASSUME Blocked(A, L[j].term, j) PROVE FALSE
    BY DEF Kept
  <1> DEFINE S == {n \in Node : Has(A, n, L[j].term, j)}
             R == {n \in Node : current_term[n] > L[j].term /\ ~Has(A, n, L[j].term, j)}
  <1>1. S \cap R # {}
    BY MajoritiesMeet DEF Chosen, Blocked
  <1> QED BY <1>1

\* Who voted in a later term will not acknowledge an entry any more.
LEMMA LaterBlocks ==
    ASSUME TypeOK, GrantInv, NEW A \in SUBSET Ack, NEW t \in Nat, NEW k,
           NEW c \in Node, NEW u \in Nat, Majority(Electors(c, u)), u > t,
           \A n \in Electors(c, u) : ~Has(A, n, t, k)
    PROVE  Blocked(A, t, k)
  <1> DEFINE Q == Electors(c, u)
             R == {n \in Node : current_term[n] > t /\ ~Has(A, n, t, k)}
  <1>1. Q \subseteq R
    <2> SUFFICES ASSUME NEW n \in Q PROVE n \in R
      OBVIOUS
    <2>1. n \in Node /\ current_term[n] \in Nat /\ u <= current_term[n]
      BY DEF Electors, GrantInv, TypeOK, NodeTypeOK
    <2> QED BY <2>1
  <1>2. Q \in SUBSET Node
    BY DEF Electors
  <1> HIDE DEF Q
  <1>3. Majority(R)
    BY <1>1, <1>2, MajorityGrows DEF Q
  <1> QED BY <1>3 DEF Blocked

-----------------------------------------------------------------------------
(* Acknowledgements in a step that changes no log. *)

\* A winner of now of a term that was won before is the winner it was.
LEMMA WonBefore ==
    ASSUME Moves, NEW i \in Node, Winner(i)',
           NEW c \in Node, Majority(Electors(c, current_term'[i]))
    PROVE  Winner(i) /\ current_term'[i] = current_term[i]
  <1>1. OneVotePerTerm' /\ current_term'[i] >= current_term[i]
    BY DEF Moves, VoteInv
  <1>2. TypeOK /\ TypeOK' /\ Candidates /\ grants \subseteq grants'
    BY DEF Moves
  <1> QED BY <1>1, <1>2, SameWinner

\* Terms that were won stay won, and terms rise.
LEMMA AcksWonGrows ==
    ASSUME Moves, NEW A \in SUBSET Ack, NEW B \in SUBSET Ack, AcksWon(A), AcksGrow(A, B),
           \A b \in B \ A : \E c \in Node : Majority(Electors(c, b.term)')
    PROVE  AcksWon(B)'
  <1> SUFFICES ASSUME NEW b \in B
               PROVE  /\ b.term <= current_term'[b.node]
                      /\ \E c \in Node : Majority(Electors(c, b.term)')
    BY DEF AcksWon, Electors, Majority
  <1>1. b.node \in Node /\ b.term \in Nat
    BY DEF Ack
  <1>2. current_term[b.node] \in Nat /\ current_term'[b.node] \in Nat
    BY <1>1 DEF Moves, TypeOK, NodeTypeOK
  <1>3. CASE b \in A
    <2>1. b.term <= current_term[b.node] /\ current_term'[b.node] >= current_term[b.node]
      BY <1>1, <1>3 DEF AcksWon, Moves
    <2>2. PICK c \in Node : Majority(Electors(c, b.term))
      BY <1>3 DEF AcksWon
    <2>3. Majority(Electors(c, b.term)')
      BY <2>2, ElectorsGrow DEF Moves
    <2> QED BY <1>1, <1>2, <2>1, <2>3
  <1>4. CASE b \notin A
    <2>1. b.term = current_term'[b.node]
      BY <1>4 DEF AcksGrow
    <2> QED BY <1>1, <1>2, <1>4, <2>1
  <1> QED BY <1>3, <1>4

LEMMA BelowLater ==
    ASSUME NEW L \in Seq(Entry), NEW t \in Nat, NEW u \in Nat, Below(L, t), t <= u
    PROVE  Below(L, u)
  <1> SUFFICES ASSUME NEW k \in 1..Len(L) PROVE L[k].term <= u
    BY DEF Below
  <1>1. L[k].term \in Nat /\ L[k].term <= t
    BY LogFacts DEF Below
  <1> QED BY <1>1

LEMMA AckStill ==
    ASSUME Moves, NEW T \in SUBSET Seq(Entry), NEW A \in SUBSET Ack,
           TreeInv(T), AckInv(T, A), UNCHANGED log
    PROVE  AckInv(T, A)'
  <1>1. AcksGrow(A, A)
    BY DEF AcksGrow
  <1>2. AcksWon(A)'
    BY <1>1, AcksWonGrows DEF AckInv
  <1>3. Complete(T, A)'
    <2> SUFFICES ASSUME NEW L \in T, NEW M \in T, NEW j \in 1..Len(L), NEW k \in 1..Len(M),
                        L[j].term < M[k].term
                 PROVE  KeptNext(A, L, j, M)
      BY DEF Complete, Kept, KeptNext, Agree
    <2>1. Kept(A, L, j, M)
      BY DEF AckInv, Complete
    <2> QED BY <1>1, <2>1, KeptGrows
  <1>4. Sorted(T)'
    BY DEF AckInv, Sorted, Below, LastTerm
  <1>5. Reached'
    <2> SUFFICES ASSUME NEW i \in Node PROVE Below(log[i], current_term'[i])
      BY DEF Reached, Below
    <2>1. /\ log[i] \in Seq(Entry) /\ current_term[i] \in Nat /\ current_term'[i] \in Nat
          /\ current_term[i] <= current_term'[i]
      BY DEF Moves, TypeOK, NodeTypeOK
    <2>2. Below(log[i], current_term[i])
      BY DEF AckInv, Reached
    <2> QED BY <2>1, <2>2, BelowLater
  <1>6. Retained(T, A)'
    <2> SUFFICES ASSUME NEW a \in A, NEW L \in T, NEW j \in 1..Len(L),
                        L[j].term = a.term, j <= a.upto
                 PROVE  KeptNext(A, L, j, log[a.node])
      BY DEF Retained, Kept, KeptNext, Agree
    <2>1. Kept(A, L, j, log[a.node])
      BY DEF AckInv, Retained
    <2> QED BY <1>1, <2>1, KeptGrows
  <1>7. Own(A)'
    <2> SUFFICES ASSUME NEW i \in Node, Winner(i)'
                 PROVE  /\ \A a \in A : a.term = current_term'[i] => a.upto <= Len(log[i])
                        /\ \A k \in 1..Len(log[i]) : log[i][k].term = current_term'[i]
                               => Has(A, i, current_term'[i], k)
      BY DEF Own, Has
    <2>1. ASSUME NEW a \in A, a.term = current_term'[i] PROVE a.upto <= Len(log[i])
      <3>1. PICK c \in Node : Majority(Electors(c, a.term))
        BY DEF AckInv, AcksWon
      <3>2. Winner(i) /\ current_term'[i] = current_term[i]
        BY <2>1, <3>1, WonBefore
      <3> QED BY <2>1, <3>2 DEF AckInv, Own
    <2>2. ASSUME NEW k \in 1..Len(log[i]), log[i][k].term = current_term'[i]
          PROVE  Has(A, i, current_term'[i], k)
      <3>1. PICK c \in Node : Majority(Electors(c, log[i][k].term))
        BY DEF TreeInv, LogsHeld, Won
      <3>2. Winner(i) /\ current_term'[i] = current_term[i]
        BY <2>2, <3>1, WonBefore
      <3> QED BY <2>2, <3>2 DEF AckInv, Own
    <2> QED BY <2>1, <2>2
  <1> QED BY <1>2, <1>3, <1>4, <1>5, <1>6, <1>7 DEF AckInv

-----------------------------------------------------------------------------
(* Acknowledgements when the winner of a term writes an entry: it has that  *)
(* entry, which is its own acknowledgement.                                 *)

\* The winner of a term has all that can still be chosen of earlier terms.
LEMMA WinnerKeeps ==
    ASSUME TypeOK, VoteInv, NEW T \in SUBSET Seq(Entry), NEW A \in SUBSET Ack, Votes(T, A),
           NEW i \in Node, Winner(i), NEW L \in T, NEW j \in 1..Len(L),
           L[j].term < current_term[i]
    PROVE  Kept(A, L, j, log[i])
  <1>1. L[j].term \in Nat /\ current_term[i] \in Nat
    BY LogFacts DEF TypeOK, NodeTypeOK
  <1>2. ~OtherWinner(i)
    BY NoRival DEF OtherWinner, VoteInv
  <1>3. CASE \E n \in Electors(i, current_term[i]) : Has(A, n, L[j].term, j)
    <2>1. PICK n \in Electors(i, current_term[i]) : Has(A, n, L[j].term, j)
      BY <1>3
    <2>2. PICK g \in grants : g.voter = n /\ g.candidate = i /\ g.term = current_term[i]
      BY <2>1 DEF Electors
    <2> QED BY <1>2, <2>1, <2>2 DEF Votes, Backed
  <1>4. CASE \A n \in Electors(i, current_term[i]) : ~Has(A, n, L[j].term, j)
    <2>1. GrantInv /\ Majority(Electors(i, current_term[i]))
      BY DEF VoteInv, Winner
    <2>2. Blocked(A, L[j].term, j)
      BY <1>1, <1>4, <2>1, LaterBlocks
    <2> QED BY <2>2 DEF Kept
  <1> QED BY <1>3, <1>4

\* An entry not written yet is not chosen when a later term is won already.
LEMMA UnwrittenBlocked ==
    ASSUME TypeOK, VoteInv, NEW A \in SUBSET Ack, Own(A), NEW i \in Node, Winner(i),
           NEW c \in Node, NEW u \in Nat, Majority(Electors(c, u)), u > current_term[i]
    PROVE  Blocked(A, current_term[i], Len(log[i]) + 1)
  <1>1. current_term[i] \in Nat /\ Len(log[i]) \in Nat
    BY LogFacts DEF TypeOK, NodeTypeOK
  <1>2. \A n \in Electors(c, u) : ~Has(A, n, current_term[i], Len(log[i]) + 1)
    <2> SUFFICES ASSUME NEW a \in A, a.term = current_term[i], a.upto >= Len(log[i]) + 1
                 PROVE  FALSE
      BY DEF Has
    <2>1. a.upto <= Len(log[i]) /\ a.upto \in Nat
      BY DEF Own, Ack
    <2> QED BY <1>1, <2>1
  <1> QED BY <1>1, <1>2, LaterBlocks DEF VoteInv

\* The log N that is written.
LEMMA NewLog ==
    ASSUME TypeOK, NEW i \in Node, NEW v \in Value \cup {None}, Appends(i, v),
           NEW N, N = log'[i]
    PROVE  /\ N \in Seq(Entry) /\ log[i] \in Seq(Entry) /\ Len(N) = Len(log[i]) + 1
           /\ Len(N) \in Nat /\ Len(log[i]) \in Nat /\ current_term[i] \in Nat
           /\ N[Len(N)].term = current_term[i]
           /\ \A k \in 1..Len(N) : \/ k \in 1..Len(log[i]) /\ N[k] = log[i][k]
                                   \/ k = Len(N)
           /\ \A M \in Seq(Entry), k \in Nat : /\ Agree(M, log[i], k) => Agree(M, N, k)
                                               /\ Agree(log[i], M, k) => Agree(N, M, k)
           /\ Agree(N, N, Len(N))
           /\ UNCHANGED <<current_term, grants, append_requests>>
           /\ \A j \in Node \ {i} : log'[j] = log[j] /\ disk'[j] = disk[j]
           /\ disk'[i].log = N
  <1>1. /\ N \in Seq(Entry) /\ Len(N) = Len(log[i]) + 1
        /\ N[Len(log[i]) + 1] = [term |-> current_term[i], value |-> v]
        /\ \A k \in 1..Len(log[i]) : N[k] = log[i][k]
        /\ log[i] \in Seq(Entry) /\ Len(log[i]) \in Nat /\ disk'[i].log = N
        /\ \A j \in Node \ {i} : log'[j] = log[j] /\ disk'[j] = disk[j]
    BY AppendsWhat
  <1>2. UNCHANGED <<current_term, grants, append_requests>> /\ current_term[i] \in Nat
    BY DEF Appends, TypeOK, NodeTypeOK
  <1>3. /\ \A M \in Seq(Entry), k \in Nat : /\ Agree(M, log[i], k) => Agree(M, N, k)
                                            /\ Agree(log[i], M, k) => Agree(N, M, k)
        /\ Agree(N, N, Len(N))
    BY <1>1, AgreeLonger
  <1>4. \A k \in 1..Len(N) : \/ k \in 1..Len(log[i]) /\ N[k] = log[i][k]
                             \/ k = Len(N)
    BY <1>1
  <1>5. N[Len(N)].term = current_term[i] /\ Len(N) \in Nat
    BY <1>1
  <1> QED BY <1>1, <1>2, <1>3, <1>4, <1>5

\* What is kept in the log before is kept in the one that is written, and what is
\* kept of it is kept of that.
LEMMA NewLogKeeps ==
    ASSUME TypeOK, NEW i \in Node, NEW v \in Value \cup {None}, Appends(i, v),
           NEW N, N = log'[i], NEW A
    PROVE  /\ \A L \in Seq(Entry) : \A j \in 1..Len(L) :
                  Kept(A, L, j, log[i]) => Kept(A, L, j, N)
           /\ \A M \in Seq(Entry) : \A j \in 1..Len(log[i]) :
                  Kept(A, log[i], j, M) => Kept(A, N, j, M)
  <1>1. ASSUME NEW L \in Seq(Entry), NEW j \in 1..Len(L), Kept(A, L, j, log[i])
        PROVE  Kept(A, L, j, N)
    <2>1. j \in Nat
      BY LogFacts
    <2> QED BY <1>1, <2>1, NewLog DEF Kept
  <1>2. /\ log[i] \in Seq(Entry) /\ Len(log[i]) \in Nat
        /\ \A k \in 1..Len(log[i]) : N[k] = log[i][k]
    BY AppendsWhat
  <1>3. ASSUME NEW M \in Seq(Entry), NEW j \in 1..Len(log[i]), Kept(A, log[i], j, M)
        PROVE  Kept(A, N, j, M)
    <2>1. j \in Nat /\ N[j] = log[i][j]
      BY <1>2
    <2> QED BY <1>3, <2>1, NewLog DEF Kept
  <1> QED BY <1>1, <1>3

LEMMA CompleteWrites ==
    ASSUME TypeOK, VoteInv, NEW T \in SUBSET Seq(Entry), NEW A \in SUBSET Ack,
           TreeInv(T), AckInv(T, A), Votes(T, A),
           NEW i \in Node, NEW v \in Value \cup {None}, Winner(i), Appends(i, v),
           NEW N, N = log'[i]
    PROVE  Complete(T \cup {N}, A) /\ Sorted(T \cup {N})
  <1>1. /\ N \in Seq(Entry) /\ log[i] \in Seq(Entry) /\ Len(N) = Len(log[i]) + 1
        /\ Len(N) \in Nat /\ Len(log[i]) \in Nat /\ current_term[i] \in Nat
        /\ N[Len(N)].term = current_term[i]
        /\ \A k \in 1..Len(N) : \/ k \in 1..Len(log[i]) /\ N[k] = log[i][k]
                                \/ k = Len(N)
        /\ Agree(N, N, Len(N))
    BY NewLog
  <1>2. log[i] \in T
    BY DEF TreeInv, LogsHeld
  <1>3. Complete(T \cup {N}, A)
    <2> SUFFICES ASSUME NEW L \in T \cup {N}, NEW M \in T \cup {N},
                        NEW j \in 1..Len(L), NEW k \in 1..Len(M), L[j].term < M[k].term
                 PROVE  Kept(A, L, j, M)
      BY DEF Complete
    <2>1. CASE L \in T /\ M \in T
      BY <2>1 DEF AckInv, Complete
    <2>2. CASE L = N /\ M \in T
      <3>1. CASE j \in 1..Len(log[i]) /\ N[j] = log[i][j]
        <4>1. Kept(A, log[i], j, M)
          BY <1>2, <2>2, <3>1 DEF AckInv, Complete
        <4> QED BY <2>2, <3>1, <4>1, NewLogKeeps
      <3>2. CASE j = Len(N)
        <4>1. PICK c \in Node : Majority(Electors(c, M[k].term))
          BY <2>2 DEF TreeInv, Won
        <4>2. M[k].term \in Nat /\ M[k].term > current_term[i]
          BY <1>1, <2>2, <3>2, LogFacts
        <4>3. Blocked(A, current_term[i], Len(log[i]) + 1)
          BY <4>1, <4>2, UnwrittenBlocked DEF AckInv
        <4> QED BY <1>1, <2>2, <3>2, <4>3 DEF Kept
      <3> QED BY <1>1, <2>2, <3>1, <3>2
    <2>3. CASE L \in T /\ M = N
      <3>1. CASE k \in 1..Len(log[i]) /\ N[k] = log[i][k]
        <4>1. Kept(A, L, j, log[i])
          BY <1>2, <2>3, <3>1 DEF AckInv, Complete
        <4> QED BY <2>3, <4>1, NewLogKeeps
      <3>2. CASE k = Len(N)
        <4>1. Kept(A, L, j, log[i])
          BY <1>1, <2>3, <3>2, WinnerKeeps
        <4> QED BY <2>3, <4>1, NewLogKeeps
      <3> QED BY <1>1, <2>3, <3>1, <3>2
    <2>4. CASE L = N /\ M = N
      BY <1>1, <2>4 DEF Kept, Agree
    <2> QED BY <2>1, <2>2, <2>3, <2>4
  <1>4. Below(N, LastTerm(N))
    <2>1. LastTerm(N) = current_term[i]
      BY <1>1, EmptySeq DEF LastTerm
    <2> SUFFICES ASSUME NEW k \in 1..Len(N) PROVE N[k].term <= current_term[i]
      BY <2>1 DEF Below
    <2>2. Below(log[i], current_term[i])
      BY DEF AckInv, Reached
    <2>3. CASE k \in 1..Len(log[i]) /\ N[k] = log[i][k]
      BY <2>2, <2>3 DEF Below
    <2>4. CASE k = Len(N)
      BY <1>1, <2>4
    <2> QED BY <1>1, <2>3, <2>4
  <1>5. Sorted(T \cup {N})
    BY <1>4 DEF AckInv, Sorted
  <1> QED BY <1>3, <1>5

\* The new acknowledgement.
OwnAck(i, N) == [node |-> i, term |-> current_term[i], upto |-> Len(N)]

LEMMA OwnAckIs ==
    ASSUME NEW A \in SUBSET Ack, NEW i \in Node, NEW N, Len(N) \in Nat,
           current_term[i] \in Nat, UNCHANGED current_term
    PROVE  /\ A \cup {OwnAck(i, N)} \in SUBSET Ack
           /\ AcksGrow(A, A \cup {OwnAck(i, N)})
  BY DEF OwnAck, Ack, AcksGrow

LEMMA RetainedWrites ==
    ASSUME TypeOK, VoteInv, NEW T \in SUBSET Seq(Entry), NEW A \in SUBSET Ack,
           TreeInv(T), AckInv(T, A),
           NEW i \in Node, NEW v \in Value \cup {None}, Winner(i), Appends(i, v),
           NEW N, N = log'[i], NEW b \in A \cup {OwnAck(i, N)}, NEW L \in T \cup {N},
           NEW j \in 1..Len(L), L[j].term = b.term, j <= b.upto
    PROVE  Kept(A, L, j, log'[b.node])
  <1>1. /\ N \in Seq(Entry) /\ log[i] \in Seq(Entry) /\ Len(N) = Len(log[i]) + 1
        /\ Len(N) \in Nat /\ Len(log[i]) \in Nat /\ current_term[i] \in Nat
        /\ N[Len(N)].term = current_term[i]
        /\ \A k \in 1..Len(N) : \/ k \in 1..Len(log[i]) /\ N[k] = log[i][k]
                                \/ k = Len(N)
        /\ \A M \in Seq(Entry), k \in Nat : Agree(M, log[i], k) => Agree(M, N, k)
        /\ Agree(N, N, Len(N))
        /\ \A w \in Node \ {i} : log'[w] = log[w]
    BY NewLog
  <1>2. log[i] \in T
    BY DEF TreeInv, LogsHeld
  <1>3. ASSUME NEW M \in Seq(Entry), NEW k \in 1..Len(M), NEW w \in Node, Kept(A, M, k, log[w])
        PROVE  Kept(A, M, k, log'[w])
    <2>1. CASE w = i
      BY <1>3, <2>1, NewLogKeeps
    <2> QED BY <1>1, <1>3, <2>1
  <1>4. CASE b \in A
    <2>1. b.node \in Node /\ b.upto \in Nat /\ log[b.node] \in Seq(Entry)
      BY <1>4 DEF Ack, TypeOK, NodeTypeOK
    <2>2. CASE L \in T
      <3>1. Kept(A, L, j, log[b.node])
        BY <1>4, <2>2 DEF AckInv, Retained
      <3> QED BY <1>3, <2>1, <2>2, <3>1
    <2>3. CASE L = N /\ j \in 1..Len(log[i]) /\ N[j] = log[i][j]
      <3>1. Kept(A, log[i], j, log[b.node])
        BY <1>2, <1>4, <2>3 DEF AckInv, Retained
      <3>2. Kept(A, N, j, log[b.node])
        BY <2>1, <2>3, <3>1, NewLogKeeps
      <3> QED BY <1>1, <1>3, <2>1, <2>3, <3>2
    <2>4. CASE L = N /\ j = Len(N)
      <3>1. b.upto <= Len(log[i])
        BY <1>1, <1>4, <2>4 DEF AckInv, Own
      <3> QED BY <1>1, <2>1, <2>4, <3>1
    <2> QED BY <1>1, <2>2, <2>3, <2>4
  <1>5. CASE b = OwnAck(i, N)
    <2>1. b.node = i /\ b.term = current_term[i]
      BY <1>5 DEF OwnAck
    <2>2. CASE L \in T
      <3>1. Agree(L, log[i], j) /\ j \in Nat
        BY <2>1, <2>2 DEF TreeInv, Leading
      <3> QED BY <1>1, <2>1, <2>2, <3>1 DEF Kept
    <2>3. CASE L = N
      BY <1>1, <2>1, <2>3 DEF Kept, Agree
    <2> QED BY <2>2, <2>3
  <1> QED BY <1>4, <1>5

LEMMA AckWrites ==
    ASSUME Moves, NEW T \in SUBSET Seq(Entry), NEW A \in SUBSET Ack,
           TreeInv(T), AckInv(T, A), Votes(T, A),
           NEW i \in Node, NEW v \in Value \cup {None}, Winner(i), Appends(i, v),
           NEW N, N = log'[i], NEW a, a = OwnAck(i, N)
    PROVE  AckInv(T \cup {N}, A \cup {a})'
  <1> DEFINE U == T \cup {N}
             B == A \cup {a}
  <1>1. /\ N \in Seq(Entry) /\ Len(N) = Len(log[i]) + 1
        /\ Len(N) \in Nat /\ Len(log[i]) \in Nat /\ current_term[i] \in Nat
        /\ N[Len(N)].term = current_term[i]
        /\ \A k \in 1..Len(N) : \/ k \in 1..Len(log[i]) /\ N[k] = log[i][k]
                                \/ k = Len(N)
        /\ UNCHANGED <<current_term, grants>>
        /\ \A w \in Node \ {i} : log'[w] = log[w]
    BY NewLog DEF Moves
  <1>2. /\ B \in SUBSET Ack /\ AcksGrow(A, B) /\ U \in SUBSET Seq(Entry)
        /\ a.node = i /\ a.term = current_term[i] /\ a.upto = Len(N)
    <2>2. a.node = i /\ a.term = current_term[i] /\ a.upto = Len(N)
      BY DEF OwnAck
    <2>3. B \in SUBSET Ack /\ AcksGrow(A, B)
      BY <1>1, OwnAckIs
    <2> QED BY <1>1, <2>2, <2>3
  <1>3. \A w \in Node, t \in Nat : Electors(w, t)' = Electors(w, t)
    BY <1>1 DEF Electors
  <1>4. Winner(i)'
    BY <1>1 DEF Winner, Electors, Majority
  <1>5. AcksWon(B)'
    <2>1. Majority(Electors(i, a.term)')
      BY <1>1, <1>2 DEF Winner, Electors, Majority
    <2>2. \A b \in B \ A : \E c \in Node : Majority(Electors(c, b.term)')
      BY <2>1
    <2> QED BY <1>2, <2>2, AcksWonGrows DEF AckInv
  <1>6. Complete(U, A) /\ Sorted(U)
    BY CompleteWrites DEF Moves
  <1> HIDE DEF B
  <1>7. Complete(U, B)'
    <2> SUFFICES ASSUME NEW L \in U, NEW M \in U, NEW j \in 1..Len(L), NEW k \in 1..Len(M),
                        L[j].term < M[k].term
                 PROVE  KeptNext(B, L, j, M)
      BY DEF Complete, Kept, KeptNext, Agree
    <2>1. Kept(A, L, j, M)
      BY <1>6 DEF Complete
    <2> QED BY <1>2, <2>1, KeptGrows
  <1>8. Sorted(U)'
    BY <1>6 DEF Sorted, Below, LastTerm
  <1>9. Reached'
    <2> SUFFICES ASSUME NEW w \in Node PROVE Below(log'[w], current_term[w])
      BY <1>1 DEF Reached, Below
    <2>1. Below(log[w], current_term[w])
      BY DEF AckInv, Reached
    <2>2. CASE w = i
      <3> SUFFICES ASSUME NEW k \in 1..Len(N) PROVE N[k].term <= current_term[i]
        BY <2>2 DEF Below
      <3>1. CASE k \in 1..Len(log[i]) /\ N[k] = log[i][k]
        BY <2>1, <2>2, <3>1 DEF Below
      <3>2. CASE k = Len(N)
        BY <1>1, <3>2
      <3> QED BY <1>1, <3>1, <3>2
    <2> QED BY <1>1, <2>1, <2>2
  <1>10. Retained(U, B)'
    <2> SUFFICES ASSUME NEW b \in B, NEW L \in U, NEW j \in 1..Len(L),
                        L[j].term = b.term, j <= b.upto
                 PROVE  KeptNext(B, L, j, log'[b.node])
      BY DEF Retained, Kept, KeptNext, Agree
    <2>1. PICK K : K = log'[b.node]
      OBVIOUS
    <2>2. Kept(A, L, j, K)
      BY <2>1, RetainedWrites DEF Moves, B
    <2>3. KeptNext(B, L, j, K)
      BY <1>2, <2>2, KeptGrows
    <2> QED BY <2>1, <2>3
  <1>11. Own(B)'
    <2> SUFFICES ASSUME NEW w \in Node, Winner(w)
                 PROVE  /\ \A b \in B : b.term = current_term[w] => b.upto <= Len(log'[w])
                        /\ \A k \in 1..Len(log'[w]) : log'[w][k].term = current_term[w]
                               => Has(B, w, current_term[w], k)
      BY <1>1 DEF Own, Has, Winner, Electors, Majority
    <2>1. \A b \in A : b.upto \in Nat
      BY DEF Ack
    <2>2. CASE w = i
      <3>1. \A b \in A : b.term = current_term[i] => b.upto <= Len(N)
        <4>1. \A b \in A : b.term = current_term[i] => b.upto <= Len(log[i])
          BY DEF AckInv, Own
        <4> QED BY <1>1, <2>1, <4>1
      <3>2. \A k \in 1..Len(N) : Has(B, i, current_term[i], k)
        BY <1>1, <1>2 DEF Has, B
      <3>3. \A b \in B : b.term = current_term[i] => b.upto <= Len(N)
        BY <1>1, <1>2, <3>1 DEF B
      <3>4. w = i /\ log'[w] = N
        BY <2>2
      <3> HIDE DEF B
      <3> QED BY <3>2, <3>3, <3>4
    <2>3. CASE w # i
      <3>1. current_term[w] # current_term[i]
        BY <2>3, NoRival DEF Winner, Moves, VoteInv
      <3>2. log'[w] = log[w]
        BY <1>1, <2>3
      <3> QED BY <1>2, <3>1, <3>2 DEF AckInv, Own, Has, B
    <2> QED BY <2>2, <2>3
  <1> HIDE DEF U
  <1>12. AckInv(U, B)'
    BY <1>5, <1>7, <1>8, <1>9, <1>10, <1>11 DEF AckInv
  <1> QED BY <1>12 DEF U, B

-----------------------------------------------------------------------------
(* Acknowledgements when a node accepts AppendEntries. *)

\* The log after it, in terms of the log X the request carries.
LEMMA ReceivedSent ==
    ASSUME TypeOK, NEW T \in SUBSET Seq(Entry), NEW A, TreeInv(T),
           NEW m \in append_requests, NEW X \in T, Sent(T, A, m, X), Accepts(m)
    PROVE  /\ m.to \in Node /\ log[m.to] \in T /\ Received(m) \in T
           /\ Received(m) \in {log[m.to], X} /\ Agree(Received(m), X, Len(X))
           /\ Agree(log[m.to], X, Len(X)) => Received(m) = log[m.to]
  <1>1. m.to \in Node
    BY DEF TypeOK, CallTypeOK, AppendRequest
  <1>2. log[m.to] \in T /\ Lineage(T)
    BY <1>1 DEF TreeInv, LogsHeld
  <1>3. Match(log[m.to], X)
    BY <1>2, TreeMatches
  <1>4. Carries(m, X) /\ X \in Seq(Entry)
    BY DEF Sent
  <1>5. /\ Received(m) \in {log[m.to], X} /\ Agree(Received(m), X, Len(X))
        /\ Agree(log[m.to], X, Len(X)) => Received(m) = log[m.to]
    BY <1>3, <1>4, ReceivedIs
  <1> QED BY <1>1, <1>2, <1>5

\* What may be chosen and was in the log is in the log still.
LEMMA ReceivedKeeps ==
    ASSUME TypeOK, NEW T \in SUBSET Seq(Entry), NEW A, TreeInv(T),
           NEW m \in append_requests, NEW X \in T, Sent(T, A, m, X), Accepts(m),
           NEW L \in T, NEW j \in 1..Len(L), L[j].term <= m.term,
           ~Blocked(A, L[j].term, j), NEW p \in Nat, p <= j, Agree(L, log[m.to], p)
    PROVE  Agree(L, Received(m), p)
  <1> DEFINE l == log[m.to]
  <1>1. /\ l \in T /\ Received(m) \in {l, X}
        /\ Agree(l, X, Len(X)) => Received(m) = l
    BY ReceivedSent
  <1>2. /\ Len(L) \in Nat /\ Len(X) \in Nat /\ L[j].term \in Nat /\ m.term \in Nat
        /\ l \in Seq(Entry) /\ L \in Seq(Entry) /\ X \in Seq(Entry) /\ j \in Nat
    <2>1. Len(L) \in Nat /\ L[j].term \in Nat /\ L \in Seq(Entry)
      BY LogFacts
    <2>2. Len(X) \in Nat /\ X \in Seq(Entry)
      BY LogFacts
    <2>3. m.term \in Nat
      BY DEF TypeOK, CallTypeOK, AppendRequest
    <2>4. l \in Seq(Entry) /\ j \in Nat
      BY <1>1, <2>1
    <2> QED BY <2>1, <2>2, <2>3, <2>4
  <1> SUFFICES ASSUME ~Agree(l, X, Len(X)) PROVE Agree(L, X, p)
    BY <1>1
  <1> HIDE DEF l
  <1>3. CASE L[j].term < m.term
    <2>1. Agree(L, X, j)
      BY <1>3 DEF Sent, Kept
    <2> QED BY <1>2, <2>1, AgreeParts
  <1>4. CASE L[j].term = m.term
    <2>1. Agree(L, X, Min2(j, Len(X)))
      BY <1>4 DEF Sent
    <2>2. CASE p <= Len(X)
      <3>1. p <= Min2(j, Len(X)) /\ Min2(j, Len(X)) \in Nat
        BY <1>2, <2>2 DEF Min2
      <3> QED BY <1>2, <2>1, <3>1, AgreeParts
    <2>3. CASE p > Len(X)
      <3>1. Min2(j, Len(X)) = Len(X) /\ Len(X) <= p
        BY <1>2, <2>3 DEF Min2
      <3>2. Agree(L, l, p)
        BY DEF l
      <3>3. Agree(l, L, Len(X))
        BY <1>2, <3>1, <3>2, AgreeParts
      <3>4. Agree(l, X, Len(X))
        BY <2>1, <3>1, <3>3, AgreeChain
      <3> QED BY <3>4
    <2> QED BY <1>2, <2>2, <2>3
  <1> QED BY <1>2, <1>3, <1>4

\* The acknowledgement a reply to m is.
GivenAck(m, X) == [node |-> m.to, term |-> m.term, upto |-> Len(X)]

LEMMA RetainedReceives ==
    ASSUME TypeOK, NEW T \in SUBSET Seq(Entry), NEW A \in SUBSET Ack,
           TreeInv(T), AckInv(T, A),
           NEW m \in append_requests, HandleAppendEntries(m), Accepts(m),
           NEW X \in T, Sent(T, A, m, X), NEW b \in A \cup {GivenAck(m, X)},
           NEW L \in T, NEW j \in 1..Len(L), L[j].term = b.term, j <= b.upto
    PROVE  Kept(A, L, j, log'[b.node])
  <1>1. /\ m.to \in Node /\ log'[m.to] = Received(m) /\ m.term \in Nat
        /\ \A w \in Node \ {m.to} : log'[w] = log[w]
    BY ReceivesWhat
  <1>2. /\ Len(X) \in Nat /\ L \in Seq(Entry) /\ L[j].term \in Nat /\ j \in Nat
        /\ current_term[m.to] \in Nat
    <2>1. L \in Seq(Entry) /\ L[j].term \in Nat /\ j \in Nat
      BY LogFacts
    <2>2. Len(X) \in Nat
      BY LogFacts
    <2>3. current_term[m.to] \in Nat
      BY <1>1 DEF TypeOK, NodeTypeOK
    <2> QED BY <2>1, <2>2, <2>3
  <1>3. CASE b \in A
    <2>1. Kept(A, L, j, log[b.node]) /\ b.node \in Node
      BY <1>3 DEF AckInv, Retained, Ack
    <2>2. CASE b.node = m.to /\ ~Blocked(A, L[j].term, j)
      <3>1. b.term <= current_term[m.to] /\ current_term[m.to] <= m.term
        BY <1>3, <2>2 DEF AckInv, AcksWon, Accepts
      <3>2. L[j].term <= m.term
        BY <1>1, <1>2, <3>1
      <3>3. Agree(L, log[m.to], j) /\ j <= j
        BY <1>2, <2>1, <2>2 DEF Kept
      <3>4. Agree(L, Received(m), j)
        BY <1>2, <2>2, <3>2, <3>3, ReceivedKeeps
      <3> QED BY <1>1, <2>2, <3>4 DEF Kept
    <2> QED BY <1>1, <2>1, <2>2 DEF Kept
  <1>4. CASE b = GivenAck(m, X)
    <2>1. b.node = m.to /\ L[j].term = m.term /\ j <= Len(X)
      BY <1>4 DEF GivenAck
    <2>2. Min2(j, Len(X)) = j
      BY <1>2, <2>1 DEF Min2
    <2>3. Agree(L, X, j)
      BY <2>1, <2>2 DEF Sent
    <2>4. Agree(Received(m), X, Len(X)) /\ Received(m) \in Seq(Entry)
      BY ReceivedSent
    <2>5. Agree(X, Received(m), j)
      BY <1>2, <2>1, <2>4 DEF Agree
    <2>6. Agree(L, Received(m), j)
      BY <2>3, <2>5, AgreeChain
    <2> QED BY <1>1, <2>1, <2>6 DEF Kept
  <1> QED BY <1>3, <1>4

LEMMA AckReceives ==
    ASSUME Moves, RequestsLed, NEW T \in SUBSET Seq(Entry), NEW A \in SUBSET Ack,
           TreeInv(T), AckInv(T, A),
           NEW m \in append_requests, HandleAppendEntries(m), Accepts(m),
           NEW X \in T, Sent(T, A, m, X), NEW a, a = GivenAck(m, X)
    PROVE  /\ A \cup {a} \in SUBSET Ack /\ AcksGrow(A, A \cup {a})
           /\ AckInv(T, A \cup {a})'
  <1> DEFINE i == m.to
             B == A \cup {a}
  <1>0. TypeOK /\ TypeOK' /\ OneVotePerTerm /\ OneVotePerTerm'
    BY DEF Moves, VoteInv
  <1>1. /\ i \in Node /\ log'[i] = Received(m) /\ m.term \in Nat /\ m.from \in Node
        /\ \A w \in Node \ {i} : log'[w] = log[w] /\ current_term'[w] = current_term[w]
        /\ current_term'[i] = m.term /\ UNCHANGED grants
    BY <1>0, ReceivesWhat
  <1>2. /\ a.node = i /\ a.term = m.term /\ a.upto = Len(X)
        /\ B \in SUBSET Ack /\ AcksGrow(A, B)
    <2>1. Len(X) \in Nat
      BY LogFacts
    <2> QED BY <1>1, <2>1 DEF GivenAck, Ack, AcksGrow
  <1>3. m.from # i /\ Majority(Electors(m.from, m.term)) /\ Majority(Electors(m.from, m.term)')
    BY <1>1 DEF RequestsLed, Electors, Majority
  <1> HIDE DEF B
  <1>4. AcksWon(B)'
    <2>1. \A b \in B \ A : \E c \in Node : Majority(Electors(c, b.term)')
      BY <1>1, <1>2, <1>3 DEF B
    <2> QED BY <1>2, <2>1, AcksWonGrows DEF AckInv
  <1>5. Complete(T, B)'
    <2> SUFFICES ASSUME NEW L \in T, NEW M \in T, NEW j \in 1..Len(L), NEW k \in 1..Len(M),
                        L[j].term < M[k].term
                 PROVE  KeptNext(B, L, j, M)
      BY DEF Complete, Kept, KeptNext, Agree
    <2>1. Kept(A, L, j, M)
      BY DEF AckInv, Complete
    <2> QED BY <1>2, <2>1, KeptGrows
  <1>6. Sorted(T)'
    BY DEF AckInv, Sorted, Below, LastTerm
  <1>7. Reached'
    <2> SUFFICES ASSUME NEW w \in Node PROVE Below(log'[w], current_term'[w])
      BY DEF Reached, Below
    <2>1. Below(log[w], current_term[w])
      BY DEF AckInv, Reached
    <2>2. CASE w = i
      <3>1. Received(m) \in {log[i], X} /\ log[i] \in T /\ X \in Seq(Entry)
        BY <1>0, ReceivedSent
      <3>2. Below(X, m.term)
        BY DEF Sent
      <3>3. Below(log[i], m.term)
        <4>1. /\ current_term[i] \in Nat /\ current_term[i] <= m.term
              /\ log[i] \in Seq(Entry)
          BY <1>0, <1>1, <3>1 DEF TypeOK, NodeTypeOK, Accepts
        <4> QED BY <1>1, <2>1, <2>2, <4>1, BelowLater
      <3> QED BY <1>1, <2>2, <3>1, <3>2, <3>3
    <2> QED BY <1>1, <2>1, <2>2
  <1>8. Retained(T, B)'
    <2> SUFFICES ASSUME NEW b \in B, NEW L \in T, NEW j \in 1..Len(L),
                        L[j].term = b.term, j <= b.upto
                 PROVE  KeptNext(B, L, j, log'[b.node])
      BY DEF Retained, Kept, KeptNext, Agree
    <2>1. PICK K : K = log'[b.node]
      OBVIOUS
    <2>2. Kept(A, L, j, K)
      BY <1>0, <2>1, RetainedReceives DEF B
    <2>3. KeptNext(B, L, j, K)
      BY <1>2, <2>2, KeptGrows
    <2> QED BY <2>1, <2>3
  <1>9. Own(B)'
    <2> SUFFICES ASSUME NEW w \in Node, Winner(w)'
                 PROVE  /\ \A b \in B : b.term = current_term'[w] => b.upto <= Len(log'[w])
                        /\ \A k \in 1..Len(log'[w]) : log'[w][k].term = current_term'[w]
                               => Has(B, w, current_term'[w], k)
      BY DEF Own, Has
    <2>1. w # i
      <3> SUFFICES ASSUME w = i PROVE FALSE
        OBVIOUS
      <3>1. PICK t \in Nat : t = current_term'[i] /\ t = m.term
        BY <1>1
      <3>2. Majority(Electors(i, t)') /\ Majority(Electors(m.from, t)')
        BY <1>3, <3>1 DEF Winner, Electors
      <3>3. m.from = i
        BY <1>0, <1>1, <3>2, OneWinnerNext
      <3> QED BY <1>3, <3>3
    <2>2. log'[w] = log[w] /\ current_term'[w] = current_term[w]
      BY <1>1, <2>1
    <2>3. Winner(w)
      BY <1>1, <2>2 DEF Winner, Electors, Majority
    <2>4. a.term = current_term[w] => a.upto <= Len(log[w])
      <3> SUFFICES ASSUME m.term = current_term[w] PROVE Len(X) <= Len(log[w])
        BY <1>2
      <3>1. m.from = w
        BY <1>0, <1>3, <2>3, NoRival
      <3>2. Agree(X, log[w], Len(X))
        BY <3>1 DEF Sent
      <3> QED BY <3>2 DEF Agree
    <2>5. /\ \A b \in A : b.term = current_term[w] => b.upto <= Len(log[w])
          /\ \A k \in 1..Len(log[w]) : log[w][k].term = current_term[w]
                 => Has(A, w, current_term[w], k)
      BY <2>3 DEF AckInv, Own
    <2> QED BY <2>2, <2>4, <2>5 DEF Has, B
  <1>10. B \in SUBSET Ack /\ AcksGrow(A, B) /\ AckInv(T, B)'
    BY <1>2, <1>4, <1>5, <1>6, <1>7, <1>8, <1>9 DEF AckInv
  <1> QED BY <1>10 DEF B

-----------------------------------------------------------------------------
(* Ballots. *)

BackedNext(U, B, g) ==
    \/ OtherWinner(g.candidate)'
    \/ \A L \in U : \A j \in 1..Len(L) :
           L[j].term < g.term /\ Has(B, g.voter, L[j].term, j)
           => KeptNext(B, L, j, log'[g.candidate])

\* A vote given before is one of the candidate's present term now only if it was.
LEMMA VotesKept ==
    ASSUME Moves, NEW T, NEW A, NEW U, NEW B, Votes(T, A),
           \A g \in grants' \ grants : g.term = current_term'[g.candidate] => BackedNext(U, B, g),
           \A g \in grants :
               /\ g.term = current_term[g.candidate]
               /\ current_term'[g.candidate] = current_term[g.candidate]
               /\ Backed(T, A, g)
               => BackedNext(U, B, g)
    PROVE  Votes(U, B)'
  <1> SUFFICES ASSUME NEW g \in grants', g.term = current_term'[g.candidate]
               PROVE  BackedNext(U, B, g)
    BY DEF Votes, Backed, BackedNext, Kept, KeptNext, Agree
  <1>1. CASE g \in grants
    <2>1. g.candidate \in Node /\ g.term \in Nat
      BY <1>1 DEF Moves, TypeOK, OtherTypeOK
    <2>2. current_term[g.candidate] \in Nat /\ current_term'[g.candidate] \in Nat
      BY <2>1 DEF Moves, TypeOK, NodeTypeOK
    <2>3. g.term <= current_term[g.candidate]
      BY <1>1 DEF Moves, Candidates
    <2>4. current_term'[g.candidate] >= current_term[g.candidate]
      BY <2>1 DEF Moves
    <2>5. g.term = current_term[g.candidate]
      BY <2>2, <2>3, <2>4
    <2> QED BY <1>1, <2>5 DEF Votes
  <1> QED BY <1>1

LEMMA BackedGrows ==
    ASSUME Moves, NEW T \in SUBSET Seq(Entry), NEW A \in SUBSET Ack, NEW B \in SUBSET Ack,
           AcksGrow(A, B), NEW g \in grants,
           current_term'[g.candidate] = current_term[g.candidate], Backed(T, A, g),
           log'[g.candidate] = log[g.candidate],
           \A b \in B \ A : b.node = g.voter => b.term >= g.term
    PROVE  BackedNext(T, B, g)
  <1>1. g.candidate \in Node /\ g.term \in Nat
    BY DEF Moves, TypeOK, OtherTypeOK
  <1>2. CASE OtherWinner(g.candidate)
    BY <1>1, <1>2, WinnerStays DEF Moves, BackedNext
  <1>3. CASE ~OtherWinner(g.candidate)
    <2> SUFFICES ASSUME NEW L \in T, NEW j \in 1..Len(L), L[j].term < g.term,
                        Has(B, g.voter, L[j].term, j)
                 PROVE  KeptNext(B, L, j, log'[g.candidate])
      BY DEF BackedNext
    <2>1. L[j].term \in Nat
      BY LogFacts
    <2>2. Has(A, g.voter, L[j].term, j)
      BY <1>1, <2>1 DEF Has
    <2>3. Kept(A, L, j, log[g.candidate])
      BY <1>3, <2>2 DEF Backed
    <2>4. KeptNext(B, L, j, log[g.candidate])
      BY <2>3, KeptGrows
    <2> QED BY <2>4
  <1> QED BY <1>2, <1>3

\* Votes in a step that gives none and changes no log.
LEMMA VotesStill ==
    ASSUME Moves, NEW T \in SUBSET Seq(Entry), NEW A \in SUBSET Ack, Votes(T, A),
           UNCHANGED log,
           \A g \in grants' \ grants : g.term = current_term'[g.candidate] => BackedNext(T, A, g)
    PROVE  Votes(T, A)'
  <1>1. AcksGrow(A, A)
    BY DEF AcksGrow
  <1>2. \A g \in grants :
            /\ g.term = current_term[g.candidate]
            /\ current_term'[g.candidate] = current_term[g.candidate]
            /\ Backed(T, A, g)
            => BackedNext(T, A, g)
    BY <1>1, BackedGrows
  <1> QED BY <1>2, VotesKept

\* A candidate has, as a voter, all it acknowledged itself.
LEMMA VotesStartElection ==
    ASSUME Moves, NEW T \in SUBSET Seq(Entry), NEW A \in SUBSET Ack,
           AckInv(T, A), Votes(T, A), NEW i \in Node, StartElection(i)
    PROVE  Votes(T, A)'
  <1>1. UNCHANGED log
    BY DEF StartElection
  <1> SUFFICES ASSUME NEW g \in grants' \ grants PROVE BackedNext(T, A, g)
    BY <1>1, VotesStill
  <1>2. g.voter = i /\ g.candidate = i
    BY DEF StartElection
  <1> SUFFICES ASSUME NEW L \in T, NEW j \in 1..Len(L), Has(A, i, L[j].term, j)
               PROVE  KeptNext(A, L, j, log[i])
    BY <1>1, <1>2 DEF BackedNext
  <1>3. Kept(A, L, j, log[i])
    BY DEF AckInv, Retained, Has
  <1> QED BY <1>3, KeptGrows DEF AcksGrow

\* Whose log is at least as good as l has all l has that can still be chosen.
LEMMA BetterLog ==
    ASSUME NEW T \in SUBSET Seq(Entry), NEW A, Lineage(T), Complete(T, A), Sorted(T),
           NEW m \in VoteRequest, NEW l \in T, NEW P \in T, NEW M \in Seq(Entry),
           Len(P) = m.last_log_index, LastTerm(P) = m.last_log_term, Agree(P, M, Len(P)),
           LogOk(m, l), NEW L \in T, NEW j \in 1..Len(L), Kept(A, L, j, l)
    PROVE  Kept(A, L, j, M)
  <1> SUFFICES ASSUME Agree(L, l, j) PROVE Kept(A, L, j, M)
    BY DEF Kept
  <1>1. /\ L \in Seq(Entry) /\ Len(L) \in Nat /\ j \in Nat /\ L[j].term \in Nat
    BY LogFacts
  <1>2. l \in Seq(Entry) /\ Len(l) \in Nat /\ LastTerm(l) \in Nat
    BY LogFacts, LastTermType
  <1>3. P \in Seq(Entry) /\ Len(P) \in Nat /\ LastTerm(P) \in Nat
    BY LogFacts, LastTermType
  <1>4. j <= Len(l) /\ l[j] = L[j] /\ j >= 1
    BY <1>1 DEF Agree
  <1>5. CASE m.last_log_term > LastTerm(l)
    <2>1. l[j].term <= LastTerm(l)
      BY <1>2, <1>4 DEF Sorted, Below
    <2>2. P # <<>>
      BY <1>2, <1>3, <1>5 DEF LastTerm
    <2>3. Len(P) >= 1 /\ P[Len(P)].term = LastTerm(P)
      BY <1>3, <2>2, EmptySeq DEF LastTerm
    <2>4. L[j].term < P[Len(P)].term
      BY <1>1, <1>2, <1>3, <1>4, <1>5, <2>1, <2>3
    <2>5. Kept(A, L, j, P)
      <3>1. Len(P) \in 1..Len(P)
        BY <1>3, <2>3
      <3> QED BY <2>4, <3>1 DEF Complete
    <2>6. CASE Agree(L, P, j)
      <3>1. j <= Len(P)
        BY <2>6 DEF Agree
      <3>2. Agree(P, M, j)
        BY <1>1, <1>3, <3>1, AgreeParts
      <3> QED BY <2>6, <3>2, AgreeChain DEF Kept
    <2> QED BY <2>5, <2>6 DEF Kept
  <1>6. CASE m.last_log_term = LastTerm(l) /\ m.last_log_index >= Len(l)
    <2>1. l # <<>> /\ P # <<>>
      BY <1>2, <1>3, <1>4, <1>6, EmptySeq
    <2>2. l[Len(l)].term = P[Len(P)].term
      BY <1>6, <2>1 DEF LastTerm
    <2>3. Len(l) \in 1..Len(l) /\ Len(P) \in 1..Len(P) /\ Len(l) <= Len(P)
      BY <1>2, <1>3, <1>4, <1>6
    <2>4. Agree(l, P, Len(l))
      BY <2>2, <2>3 DEF Lineage
    <2>5. Agree(l, P, j)
      <3>1. j \in Int /\ Len(l) \in Int /\ j <= Len(l)
        BY <1>1, <1>2, <1>4
      <3> QED BY <1>2, <1>3, <2>4, <3>1, AgreeParts
    <2>6. Agree(P, M, j)
      BY <1>1, <1>2, <1>3, <1>4, <2>3, AgreeParts
    <2> QED BY <2>5, <2>6, AgreeChain DEF Kept
  <1> QED BY <1>5, <1>6 DEF LogOk

\* A vote is given to a candidate that has all the voter acknowledged.
LEMMA VotesHandleRequestVote ==
    ASSUME Moves, NEW T \in SUBSET Seq(Entry), NEW A \in SUBSET Ack,
           TreeInv(T), AckInv(T, A), Votes(T, A), Asked(T),
           NEW m \in vote_requests, HandleRequestVote(m)
    PROVE  Votes(T, A)'
  <1>1. UNCHANGED log
    BY DEF HandleRequestVote
  <1>2. m \in VoteRequest /\ m.from \in Node /\ m.to \in Node /\ m.term \in Nat
    BY DEF Moves, TypeOK, CallTypeOK, VoteRequest
  <1> SUFFICES ASSUME NEW g \in grants' \ grants, g.term = current_term'[g.candidate]
               PROVE  BackedNext(T, A, g)
    BY <1>1, VotesStill
  <1>3. g.voter = m.to /\ g.candidate = m.from /\ g.term = m.term /\ LogOk(m, log[m.to])
    BY DEF HandleRequestVote, Grants
  <1>4. m.term = current_term[m.from] /\ current_term'[m.from] = current_term[m.from]
    <2>1. current_term[m.from] \in Nat /\ current_term'[m.from] \in Nat
      BY <1>2 DEF Moves, TypeOK, NodeTypeOK
    <2>2. m.term <= current_term[m.from] /\ current_term'[m.from] >= current_term[m.from]
      BY <1>2 DEF Moves, Candidates
    <2> QED BY <1>2, <1>3, <2>1, <2>2
  <1>5. CASE OtherWinner(m.from)
    BY <1>2, <1>3, <1>4, <1>5, WinnerStays DEF Moves, BackedNext
  <1>6. CASE ~OtherWinner(m.from)
    <2>1. PICK P \in T : Describes(m, P)
      BY <1>4, <1>6 DEF Asked
    <2> SUFFICES ASSUME NEW L \in T, NEW j \in 1..Len(L), Has(A, m.to, L[j].term, j)
                 PROVE  KeptNext(A, L, j, log[m.from])
      BY <1>1, <1>3 DEF BackedNext
    <2>2. Kept(A, L, j, log[m.to])
      BY DEF AckInv, Retained, Has
    <2>3. log[m.to] \in T /\ log[m.from] \in Seq(Entry)
      BY <1>2 DEF TreeInv, LogsHeld
    <2>4. Lineage(T) /\ Complete(T, A) /\ Sorted(T)
      BY DEF TreeInv, AckInv
    <2>5. /\ Len(P) = m.last_log_index /\ LastTerm(P) = m.last_log_term
          /\ Agree(P, log[m.from], Len(P))
      BY <2>1 DEF Describes
    <2>6. Kept(A, L, j, log[m.from])
      BY <1>2, <1>3, <2>2, <2>3, <2>4, <2>5, BetterLog
    <2> QED BY <2>6, KeptGrows DEF AcksGrow
  <1> QED BY <1>5, <1>6

\* Votes when the winner of a term writes an entry.
LEMMA VotesWrite ==
    ASSUME Moves, NEW T \in SUBSET Seq(Entry), NEW A \in SUBSET Ack,
           TreeInv(T), AckInv(T, A), Votes(T, A),
           NEW i \in Node, NEW v \in Value \cup {None}, Winner(i), Appends(i, v),
           NEW N, N = log'[i], NEW a, a = OwnAck(i, N)
    PROVE  Votes(T \cup {N}, A \cup {a})'
  <1>u. PICK U : U = T \cup {N}
    OBVIOUS
  <1>b. PICK B : B = A \cup {a}
    OBVIOUS
  <1>1. /\ N \in Seq(Entry) /\ Len(N) = Len(log[i]) + 1 /\ Len(log[i]) \in Nat
        /\ Len(N) \in Nat /\ current_term[i] \in Nat
        /\ N[Len(N)].term = current_term[i] /\ UNCHANGED <<current_term, grants>>
        /\ \A k \in 1..Len(N) : \/ k \in 1..Len(log[i]) /\ N[k] = log[i][k]
                                \/ k = Len(N)
        /\ \A w \in Node \ {i} : log'[w] = log[w]
    BY NewLog DEF Moves
  <1>2. TypeOK /\ AcksGrow(A, B) /\ B \in SUBSET Ack
    <2>1. TypeOK
      BY DEF Moves
    <2>2. B \in SUBSET Ack /\ AcksGrow(A, B)
      BY <1>b, <1>1, OwnAckIs
    <2> QED BY <2>1, <2>2
  <1> SUFFICES ASSUME NEW g \in grants, g.term = current_term[g.candidate], Backed(T, A, g)
               PROVE  BackedNext(U, B, g)
    <2>1. grants' \ grants = {}
      BY <1>1
    <2>2. (\A g \in grants : /\ g.term = current_term[g.candidate]
                             /\ current_term'[g.candidate] = current_term[g.candidate]
                             /\ Backed(T, A, g)
                             => BackedNext(U, B, g))
          => Votes(U, B)'
      BY <2>1, VotesKept
    <2> QED BY <1>u, <1>b, <2>2
  <1>3. g.candidate \in Node /\ g.voter \in Node /\ g.term \in Nat
    BY DEF Moves, TypeOK, OtherTypeOK
  <1>4. CASE OtherWinner(g.candidate)
    BY <1>1, <1>3, <1>4, WinnerStays DEF BackedNext
  <1>5. CASE ~OtherWinner(g.candidate)
    <2> SUFFICES ASSUME NEW L \in U, NEW j \in 1..Len(L), L[j].term < g.term,
                        Has(B, g.voter, L[j].term, j)
                 PROVE  KeptNext(B, L, j, log'[g.candidate])
      BY DEF BackedNext
    <2>1. L \in Seq(Entry) /\ L[j].term \in Nat
      BY <1>u, <1>1, LogFacts
    <2>2. Has(A, g.voter, L[j].term, j)
      <3>1. g.term <= current_term[g.voter]
        BY DEF Moves, VoteInv, GrantInv
      <3>2. g.voter = i => current_term[i] # L[j].term
        BY <1>1, <1>3, <2>1, <3>1
      <3>3. OwnAck(i, N).node = i /\ OwnAck(i, N).term = current_term[i]
        BY DEF OwnAck
      <3> QED BY <1>b, <3>2, <3>3 DEF Has
    <2>3. Kept(A, L, j, log[g.candidate])
      <3>1. CASE L \in T
        BY <1>5, <2>2, <3>1 DEF Backed
      <3>2. CASE L = N /\ j \in 1..Len(log[i]) /\ N[j] = log[i][j]
        <4>1. log[i] \in T
          BY DEF TreeInv, LogsHeld
        <4>2. Kept(A, log[i], j, log[g.candidate])
          BY <1>5, <2>2, <3>2, <4>1 DEF Backed
        <4>3. log[g.candidate] \in Seq(Entry)
          BY <1>2, <1>3 DEF TypeOK, NodeTypeOK
        <4> QED BY <1>2, <3>2, <4>2, <4>3, NewLogKeeps
      <3>3. CASE L = N /\ j = Len(N)
        <4>1. PICK e \in A : e.term = current_term[i] /\ e.upto >= Len(N)
          BY <1>1, <2>2, <3>3 DEF Has
        <4>2. e.upto <= Len(log[i]) /\ e.upto \in Nat
          BY <4>1 DEF AckInv, Own, Ack
        <4> QED BY <1>1, <4>1, <4>2
      <3> QED BY <1>u, <1>1, <3>1, <3>2, <3>3
    <2>4. Kept(A, L, j, log'[g.candidate])
      <3>1. CASE g.candidate = i
        BY <1>2, <2>1, <2>3, <3>1, NewLogKeeps
      <3> QED BY <1>1, <1>3, <2>3, <3>1
    <2>5. PICK K : K = log'[g.candidate]
      OBVIOUS
    <2>6. KeptNext(B, L, j, K)
      BY <1>2, <2>1, <2>4, <2>5, KeptGrows
    <2> QED BY <2>5, <2>6
  <1> QED BY <1>4, <1>5

\* Who accepts AppendEntries has lost the election of its term, if it was in one.
LEMMA VotesReceive ==
    ASSUME Moves, RequestsLed, NEW T \in SUBSET Seq(Entry), NEW A \in SUBSET Ack,
           NEW B \in SUBSET Ack, AcksGrow(A, B), Votes(T, A),
           NEW m \in append_requests, HandleAppendEntries(m), Accepts(m),
           \A b \in B \ A : b.node = m.to /\ b.term = m.term
    PROVE  Votes(T, B)'
  <1>1. TypeOK /\ TypeOK'
    BY DEF Moves
  <1>2. /\ m.to \in Node /\ m.from \in Node /\ m.term \in Nat /\ UNCHANGED grants
        /\ \A w \in Node \ {m.to} : log'[w] = log[w]
        /\ current_term'[m.to] = m.term
    BY <1>1, ReceivesWhat
  <1> SUFFICES ASSUME NEW g \in grants, g.term = current_term[g.candidate], Backed(T, A, g),
                      current_term'[g.candidate] = current_term[g.candidate]
               PROVE  BackedNext(T, B, g)
    BY <1>2, VotesKept
  <1>3. g.candidate \in Node /\ g.voter \in Node /\ g.term \in Nat
    BY <1>1 DEF TypeOK, OtherTypeOK
  <1>4. CASE g.candidate = m.to
    <2>1. m.from # m.to /\ Majority(Electors(m.from, m.term)')
      BY <1>2 DEF RequestsLed, Electors, Majority
    <2>2. OtherWinner(m.to)'
      BY <1>2, <2>1 DEF OtherWinner, Electors
    <2> QED BY <1>4, <2>2 DEF BackedNext
  <1>5. CASE g.candidate # m.to
    <2>1. \A b \in B \ A : b.node = g.voter => b.term >= g.term
      <3> SUFFICES ASSUME g.voter = m.to PROVE m.term >= g.term
        OBVIOUS
      <3>1. g.term <= current_term[m.to] /\ current_term[m.to] <= m.term
        BY DEF Moves, VoteInv, GrantInv, Accepts
      <3>2. current_term[m.to] \in Nat
        BY <1>1, <1>2 DEF TypeOK, NodeTypeOK
      <3> QED BY <1>2, <1>3, <3>1, <3>2
    <2> QED BY <1>2, <1>3, <1>5, <2>1, BackedGrows
  <1> QED BY <1>4, <1>5

\* A request to vote of now asks what one of before did.
SameAsk(m, n) ==
    /\ m.from = n.from /\ m.term = n.term
    /\ m.last_log_index = n.last_log_index /\ m.last_log_term = n.last_log_term

\* A RequestVote describes its candidate's log still, if that log only grew or the
\* candidate has lost.
LEMMA AskedKept ==
    ASSUME Moves, NEW T \in SUBSET Seq(Entry), NEW U, T \subseteq U, Asked(T),
           \A m \in vote_requests' \ vote_requests :
               \/ \E n \in vote_requests : SameAsk(m, n)
               \/ \E P \in U : /\ Len(P) = m.last_log_index /\ LastTerm(P) = m.last_log_term
                               /\ Agree(P, log'[m.from], Len(P)),
           \A c \in Node, P \in T :
               \/ OtherWinner(c)'
               \/ Agree(P, log[c], Len(P)) => Agree(P, log'[c], Len(P))
    PROVE  Asked(U)'
  <1> SUFFICES ASSUME NEW m \in vote_requests', m.term = current_term'[m.from],
                      ~OtherWinner(m.from)'
               PROVE  \E P \in U : /\ Len(P) = m.last_log_index
                                   /\ LastTerm(P) = m.last_log_term
                                   /\ Agree(P, log'[m.from], Len(P))
    BY DEF Asked, Describes, LastTerm, Agree
  <1>1. CASE \E n \in vote_requests : SameAsk(m, n)
    <2>1. PICK n \in vote_requests : SameAsk(m, n)
      BY <1>1
    <2>2. n.from \in Node /\ n.term \in Nat /\ m.from = n.from /\ m.term = n.term
      BY <2>1 DEF Moves, TypeOK, CallTypeOK, VoteRequest, SameAsk
    <2>3. current_term[n.from] \in Nat /\ current_term'[n.from] \in Nat
      BY <2>2 DEF Moves, TypeOK, NodeTypeOK
    <2>4. n.term <= current_term[n.from] /\ current_term'[n.from] >= current_term[n.from]
      BY <2>2 DEF Moves, Candidates
    <2>5. n.term = current_term[n.from] /\ current_term'[n.from] = current_term[n.from]
      BY <2>2, <2>3, <2>4
    <2>6. ~OtherWinner(n.from)
      BY <2>2, <2>5, WinnerStays DEF Moves
    <2>7. PICK P \in T : Describes(n, P)
      BY <2>5, <2>6 DEF Asked
    <2>8. Agree(P, log'[n.from], Len(P))
      BY <2>2, <2>7 DEF Describes
    <2> QED BY <2>1, <2>2, <2>7, <2>8 DEF Describes, SameAsk
  <1>2. CASE m \in vote_requests
    BY <1>1, <1>2 DEF SameAsk
  <1> QED BY <1>1, <1>2

LEMMA AskedStill ==
    ASSUME Moves, NEW T \in SUBSET Seq(Entry), Asked(T), UNCHANGED log,
           \A m \in vote_requests' : \E n \in vote_requests : SameAsk(m, n)
    PROVE  Asked(T)'
  BY AskedKept

LEMMA AskedSends ==
    ASSUME Moves, NEW T \in SUBSET Seq(Entry), TreeInv(T), Asked(T), Tasks,
           NEW t \in vote_tasks, SendRequestVote(t), "vote" \notin late'
    PROVE  Asked(T)'
  <1>1. UNCHANGED log
    BY DEF SendRequestVote, durableVars
  <1>p. state[t.from] = "CANDIDATE" /\ current_term[t.from] = t.round
    BY DEF SendRequestVote, InTime
  <1>2. t.from \in Node /\ t.last_term = LastTerm(log[t.from]) /\ log[t.from] \in T
    BY <1>p DEF Moves, TypeOK, CallTypeOK, VoteTask, Tasks, TreeInv, LogsHeld
  <1>3. \A m \in vote_requests' \ vote_requests :
            /\ m.from = t.from /\ m.last_log_index = Len(log[t.from])
            /\ m.last_log_term = t.last_term
    BY DEF SendRequestVote
  <1>4. Len(log[t.from]) \in Nat
    BY <1>2, LogFacts
  <1>5. Agree(log[t.from], log[t.from], Len(log[t.from]))
    BY <1>4 DEF Agree
  <1>6. \A m \in vote_requests' \ vote_requests :
            \E P \in T : /\ Len(P) = m.last_log_index /\ LastTerm(P) = m.last_log_term
                         /\ Agree(P, log'[m.from], Len(P))
    BY <1>1, <1>2, <1>3, <1>5
  <1> QED BY <1>1, <1>6, AskedKept

LEMMA AskedWrites ==
    ASSUME Moves, NEW T \in SUBSET Seq(Entry), Asked(T),
           NEW i \in Node, NEW v \in Value \cup {None}, Appends(i, v), UNCHANGED vote_requests,
           NEW N, N = log'[i]
    PROVE  Asked(T \cup {N})'
  <1>1. /\ \A M \in Seq(Entry), k \in Nat : Agree(M, log[i], k) => Agree(M, N, k)
        /\ \A w \in Node \ {i} : log'[w] = log[w]
    BY NewLog DEF Moves
  <1>2. ASSUME NEW c \in Node, NEW P \in T, Agree(P, log[c], Len(P))
        PROVE  Agree(P, log'[c], Len(P))
    <2>1. CASE c = i
      BY <1>1, <1>2, <2>1, LogFacts
    <2> QED BY <1>1, <1>2, <2>1
  <1>3. PICK U : U = T \cup {N}
    OBVIOUS
  <1>4. Asked(U)'
    BY <1>2, <1>3, AskedKept
  <1> QED BY <1>3, <1>4

LEMMA AskedReceives ==
    ASSUME Moves, RequestsLed, NEW T \in SUBSET Seq(Entry), Asked(T),
           NEW m \in append_requests, HandleAppendEntries(m), Accepts(m)
    PROVE  Asked(T)'
  <1>1. TypeOK
    BY DEF Moves
  <1>2. /\ m.to \in Node /\ m.from \in Node /\ m.term \in Nat /\ UNCHANGED grants
        /\ \A w \in Node \ {m.to} : log'[w] = log[w]
        /\ current_term'[m.to] = m.term
    BY <1>1, ReceivesWhat
  <1>3. UNCHANGED vote_requests
    BY DEF HandleAppendEntries, electionRpc
  <1>4. OtherWinner(m.to)'
    <2>1. m.from # m.to /\ Majority(Electors(m.from, m.term)')
      BY <1>2 DEF RequestsLed, Electors, Majority
    <2> QED BY <1>2, <2>1 DEF OtherWinner, Electors
  <1> QED BY <1>2, <1>3, <1>4, AskedKept

\* A candidate was one already, or stands in a term it was not in.
Stands ==
    \A j \in Node :
        state'[j] = "CANDIDATE" =>
            \/ state[j] = "CANDIDATE" /\ log'[j] = log[j]
            \/ current_term'[j] > current_term[j]
NewTasks ==
    \A t \in vote_tasks' :
        \/ t \in vote_tasks
        \/ t.round = current_term'[t.from] /\ t.last_term = LastTerm(log'[t.from])

\* Threads that are to ask for votes know the last term of their candidate's log.
LEMMA TasksKept ==
    ASSUME Moves, Tasks, Stands, NewTasks
    PROVE  Tasks'
  <1> SUFFICES ASSUME NEW t \in vote_tasks'
               PROVE  /\ t.round <= current_term'[t.from]
                      /\ state'[t.from] = "CANDIDATE" /\ current_term'[t.from] = t.round
                         => t.last_term = LastTerm(log'[t.from])
    BY DEF Tasks, LastTerm
  <1>1. t.from \in Node /\ t.round \in Nat
    BY DEF Moves, TypeOK, CallTypeOK, VoteTask
  <1>2. current_term[t.from] \in Nat /\ current_term'[t.from] \in Nat
    BY <1>1 DEF Moves, TypeOK, NodeTypeOK
  <1>3. CASE t \in vote_tasks
    <2>1. /\ t.round <= current_term[t.from]
          /\ state[t.from] = "CANDIDATE" /\ current_term[t.from] = t.round
             => t.last_term = LastTerm(log[t.from])
      BY <1>3 DEF Tasks
    <2>2. current_term'[t.from] >= current_term[t.from]
      BY <1>1 DEF Moves
    <2>3. t.round <= current_term'[t.from]
      BY <1>1, <1>2, <2>1, <2>2
    <2>4. ASSUME state'[t.from] = "CANDIDATE", current_term'[t.from] = t.round
          PROVE  t.last_term = LastTerm(log'[t.from])
      <3>1. current_term'[t.from] = current_term[t.from]
        BY <1>1, <1>2, <2>1, <2>2, <2>4
      <3>2. state[t.from] = "CANDIDATE" /\ log'[t.from] = log[t.from]
        BY <1>1, <1>2, <2>4, <3>1 DEF Stands
      <3> QED BY <2>1, <2>4, <3>1, <3>2
    <2> QED BY <2>3, <2>4
  <1>4. CASE t.round = current_term'[t.from] /\ t.last_term = LastTerm(log'[t.from])
    BY <1>2, <1>4
  <1> QED BY <1>3, <1>4 DEF NewTasks

-----------------------------------------------------------------------------
(* Requests. *)

\* What a request carries still satisfies what it did: n of before is m of now, and
\* the logs in U are those in T or satisfy it too.
LEMMA SentKept ==
    ASSUME Moves, RequestsLed, NEW T \in SUBSET Seq(Entry), NEW U \in SUBSET Seq(Entry),
           T \subseteq U, NEW A \in SUBSET Ack, NEW B \in SUBSET Ack, AcksGrow(A, B),
           NEW n \in append_requests, NEW m, SameCall(m, n), NEW X \in T, Sent(T, A, n, X),
           \A L \in U \ T : \A j \in 1..Len(L) :
               /\ L[j].term = n.term => Agree(L, X, Min2(j, Len(X)))
               /\ L[j].term < n.term => Kept(A, L, j, X),
           /\ n.term = current_term[n.from] /\ current_term'[n.from] = current_term[n.from]
           /\ Agree(X, log[n.from], Len(X))
           => Agree(X, log'[n.from], Len(X))
    PROVE  Sent(U, B, m, X)'
  <1>1. n.from \in Node /\ n.term \in Nat /\ n.commit \in Nat
    BY DEF Moves, TypeOK, CallTypeOK, AppendRequest
  <1>2. /\ m.from = n.from /\ m.term = n.term /\ m.commit = n.commit
        /\ m.prev = n.prev /\ m.prev_term = n.prev_term /\ m.entries = n.entries
    BY DEF SameCall, SameRequest
  <1>3. Carries(m, X)
    BY <1>2 DEF Sent, Carries
  <1>4. Below(X, m.term)
    BY <1>2 DEF Sent
  <1>5. \A L \in U : \A j \in 1..Len(L) :
            /\ L[j].term = m.term => Agree(L, X, Min2(j, Len(X)))
            /\ L[j].term < m.term => Kept(A, L, j, X)
    BY <1>2 DEF Sent
  <1>6. \A L \in U : \A j \in 1..Len(L) :
            /\ L[j].term = m.term => Agree(L, X, Min2(j, Len(X)))
            /\ L[j].term < m.term => KeptNext(B, L, j, X)
    BY <1>5, KeptGrows
  <1>7. m.term = current_term'[m.from] => Agree(X, log'[m.from], Len(X))
    <2> SUFFICES ASSUME n.term = current_term'[n.from]
                 PROVE  Agree(X, log'[n.from], Len(X))
      BY <1>2
    <2>1. current_term[n.from] \in Nat /\ current_term'[n.from] \in Nat
      BY <1>1 DEF Moves, TypeOK, NodeTypeOK
    <2>2. Majority(Electors(n.from, n.term)) /\ Candidates
      BY DEF RequestsLed, Moves
    <2>3. n.term <= current_term[n.from]
      BY <1>1, <2>2, WinnerReached
    <2>4. current_term'[n.from] >= current_term[n.from]
      BY <1>1 DEF Moves
    <2>5. n.term = current_term[n.from] /\ current_term'[n.from] = current_term[n.from]
      BY <1>1, <2>1, <2>3, <2>4
    <2>6. Agree(X, log[n.from], Len(X))
      BY <2>5 DEF Sent
    <2> QED BY <2>5, <2>6
  <1>8. ChosenUpTo(U, B, X, m.commit, m.term)
    <2>1. ChosenUpTo(T, A, X, n.commit, n.term) /\ A \subseteq B
      BY DEF Sent, AcksGrow
    <2> QED BY <1>1, <1>2, <2>1, ChosenUpToGrows
  <1> QED BY <1>3, <1>4, <1>6, <1>7, <1>8
        DEF Sent, Kept, KeptNext, Agree, Carries, Ends, Below, Min2, ChosenUpTo, Chosen, Has,
            Majority

LEMMA RequestsStill ==
    ASSUME Moves, RequestsLed, NEW T \in SUBSET Seq(Entry), NEW A \in SUBSET Ack,
           RequestsInv(T, A), UNCHANGED log,
           \A m \in append_requests' : \E n \in append_requests : SameCall(m, n)
    PROVE  RequestsInv(T, A)'
  <1> SUFFICES ASSUME NEW m \in append_requests' PROVE \E X \in T : Sent(T, A, m, X)'
    BY DEF RequestsInv
  <1>1. PICK n \in append_requests : SameCall(m, n)
    OBVIOUS
  <1>2. PICK X \in T : Sent(T, A, n, X)
    BY DEF RequestsInv
  <1>3. AcksGrow(A, A)
    BY DEF AcksGrow
  <1>4. Sent(T, A, m, X)'
    BY <1>1, <1>2, <1>3, SentKept
  <1> QED BY <1>4

\* A request is sent with the log its sender has.
LEMMA RequestsSend ==
    ASSUME Moves, RequestsLed, LeaderIsElected, "lead" \notin late',
           NEW T \in SUBSET Seq(Entry), NEW A \in SUBSET Ack,
           TreeInv(T), AckInv(T, A), Votes(T, A), RequestsInv(T, A), Committed(T, A),
           NEW t \in append_tasks, SendAppendEntries(t)
    PROVE  RequestsInv(T, A)'
  <1> SUFFICES ASSUME NEW m \in append_requests' PROVE \E X \in T : Sent(T, A, m, X)'
    BY DEF RequestsInv
  <1>1. UNCHANGED <<log, current_term>>
    BY DEF SendAppendEntries, durableVars
  <1>2. AcksGrow(A, A)
    BY DEF AcksGrow
  <1>3. CASE m \in append_requests
    <2>1. PICK X \in T : Sent(T, A, m, X)
      BY <1>3 DEF RequestsInv
    <2>2. SameCall(m, m)
      BY DEF SameCall, SameRequest
    <2>3. Sent(T, A, m, X)'
      BY <1>1, <1>2, <1>3, <2>1, <2>2, SentKept
    <2> QED BY <2>3
  <1>4. CASE m \notin append_requests
    <2> DEFINE i == t.from
    <2>1. /\ m.from = i /\ m.term = current_term[i] /\ m.commit = commit_length[i]
          /\ Carries(m, log[i])
      BY <1>4, SendsOwnLog DEF Moves
    <2>2. i \in Node /\ Winner(i)
      BY DEF Moves, TypeOK, CallTypeOK, AppendTask, SendAppendEntries, InTime,
             LeaderIsElected, Winner
    <2>3. log[i] \in T /\ Len(log[i]) \in Nat
      BY <2>2, LogFacts DEF TreeInv, LogsHeld
    <2> HIDE DEF i
    <2>4. Below(log[i], m.term)
      BY <2>1, <2>2 DEF AckInv, Reached
    <2>5. ASSUME NEW L \in T, NEW j \in 1..Len(L), L[j].term = m.term
          PROVE  Agree(L, log[i], Min2(j, Len(log[i])))
      <3>1. Agree(L, log[i], j)
        BY <2>1, <2>2, <2>5 DEF TreeInv, Leading
      <3>2. Len(L) \in Nat
        BY LogFacts
      <3>3. Min2(j, Len(log[i])) = j
        BY <2>3, <3>1, <3>2 DEF Agree, Min2
      <3> QED BY <3>1, <3>3
    <2>6. ASSUME NEW L \in T, NEW j \in 1..Len(L), L[j].term < m.term
          PROVE  Kept(A, L, j, log[i])
      BY <2>1, <2>2, <2>6, WinnerKeeps DEF Moves
    <2>7. Agree(log[i], log[m.from], Len(log[i]))
      BY <2>1, <2>3 DEF Agree
    <2>8. ChosenUpTo(T, A, log[i], m.commit, m.term)
      BY <2>1, <2>2 DEF Committed
    <2>9. PICK X \in T : X = log[i]
      BY <2>3
    <2>10. Sent(T, A, m, X)
      BY <2>1, <2>4, <2>5, <2>6, <2>7, <2>8, <2>9 DEF Sent
    <2>11. Carries(m, X)' /\ Below(X, m.term)' /\ ChosenUpTo(T, A, X, m.commit, m.term)'
      BY <2>10 DEF Sent
    <2>12. \A L \in T : \A j \in 1..Len(L) : Kept(A, L, j, X) => Kept(A, L, j, X)'
      BY <1>1 DEF Kept, Blocked
    <2>13. Sent(T, A, m, X)'
      BY <1>1, <2>10, <2>11, <2>12 DEF Sent
    <2> QED BY <2>13
  <1> QED BY <1>3, <1>4

LEMMA RequestsWrite ==
    ASSUME Moves, RequestsLed, NEW T \in SUBSET Seq(Entry), NEW A \in SUBSET Ack,
           TreeInv(T), AckInv(T, A), RequestsInv(T, A),
           NEW i \in Node, NEW v \in Value \cup {None}, Winner(i), Appends(i, v),
           NEW N, N = log'[i], NEW a, a = OwnAck(i, N)
    PROVE  RequestsInv(T \cup {N}, A \cup {a})'
  <1>u. PICK U : U = T \cup {N}
    OBVIOUS
  <1>b. PICK B : B = A \cup {a}
    OBVIOUS
  <1>0. TypeOK /\ VoteInv /\ OneVotePerTerm
    BY DEF Moves, VoteInv
  <1>1. /\ N \in Seq(Entry) /\ Len(N) = Len(log[i]) + 1 /\ Len(log[i]) \in Nat
        /\ Len(N) \in Nat /\ current_term[i] \in Nat
        /\ N[Len(N)].term = current_term[i] /\ UNCHANGED <<current_term, append_requests>>
        /\ \A k \in 1..Len(N) : \/ k \in 1..Len(log[i]) /\ N[k] = log[i][k]
                                \/ k = Len(N)
        /\ \A M \in Seq(Entry), k \in Nat : /\ Agree(M, log[i], k) => Agree(M, N, k)
                                            /\ Agree(log[i], M, k) => Agree(N, M, k)
        /\ \A w \in Node \ {i} : log'[w] = log[w]
    BY <1>0, NewLog
  <1>2. B \in SUBSET Ack /\ AcksGrow(A, B)
    BY <1>b, <1>1, OwnAckIs
  <1>3. log[i] \in T /\ U \in SUBSET Seq(Entry) /\ T \subseteq U
    BY <1>u, <1>1 DEF TreeInv, LogsHeld
  <1>4. ASSUME NEW m \in append_requests PROVE \E X \in U : Sent(U, B, m, X)'
    <2>1. PICK X \in T : Sent(T, A, m, X)
      BY DEF RequestsInv
    <2>2. X \in Seq(Entry) /\ Len(X) \in Nat
      BY LogFacts
    <2>3. m.from \in Node /\ m.term \in Nat /\ Majority(Electors(m.from, m.term))
      BY <1>0 DEF TypeOK, CallTypeOK, AppendRequest, RequestsLed
    <2>4. /\ \A j \in 1..Len(log[i]) :
                 /\ log[i][j].term = m.term => Agree(log[i], X, Min2(j, Len(X)))
                 /\ log[i][j].term < m.term => Kept(A, log[i], j, X)
          /\ m.term = current_term[m.from] => Agree(X, log[m.from], Len(X))
      BY <1>3, <2>1 DEF Sent
    <2>5. ASSUME NEW j \in 1..Len(N), N[j].term = m.term
          PROVE  Agree(N, X, Min2(j, Len(X)))
      <3>1. j \in Nat /\ Min2(j, Len(X)) \in Nat
        BY <2>2 DEF Min2
      <3>2. CASE j \in 1..Len(log[i]) /\ N[j] = log[i][j]
        BY <1>1, <2>2, <2>4, <2>5, <3>1, <3>2
      <3>3. CASE j = Len(N)
        <4>1. m.from = i
          BY <1>0, <1>1, <2>3, <2>5, <3>3, NoRival
        <4>2. Agree(X, log[i], Len(X))
          BY <1>1, <2>4, <2>5, <3>3, <4>1
        <4>3. Min2(j, Len(X)) = Len(X)
          BY <1>1, <2>2, <3>3, <4>2 DEF Agree, Min2
        <4>4. log[i] \in Seq(Entry)
          BY <1>3
        <4>5. Agree(log[i], X, Len(X))
          BY <2>2, <4>2, <4>4, AgreeParts
        <4> QED BY <1>1, <2>2, <4>3, <4>5
      <3> QED BY <1>1, <3>2, <3>3
    <2>6. ASSUME NEW j \in 1..Len(N), N[j].term < m.term
          PROVE  Kept(A, N, j, X)
      <3>1. CASE j \in 1..Len(log[i]) /\ N[j] = log[i][j]
        <4>1. Kept(A, log[i], j, X)
          BY <2>4, <2>6, <3>1
        <4> QED BY <1>0, <2>2, <3>1, <4>1, NewLogKeeps
      <3>2. CASE j = Len(N)
        <4>1. m.term > current_term[i]
          BY <1>1, <2>3, <2>6, <3>2
        <4>2. Blocked(A, current_term[i], Len(log[i]) + 1)
          BY <1>0, <2>3, <4>1, UnwrittenBlocked DEF AckInv
        <4> QED BY <1>1, <3>2, <4>2 DEF Kept
      <3> QED BY <1>1, <3>1, <3>2
    <2>7. Agree(X, log[m.from], Len(X)) => Agree(X, log'[m.from], Len(X))
      BY <1>1, <2>2, <2>3
    <2>8. \A L \in U \ T : \A j \in 1..Len(L) :
              /\ L[j].term = m.term => Agree(L, X, Min2(j, Len(X)))
              /\ L[j].term < m.term => Kept(A, L, j, X)
      BY <1>u, <2>5, <2>6
    <2>9. SameCall(m, m)
      BY DEF SameCall, SameRequest
    <2>10. Sent(U, B, m, X)'
      BY <1>2, <1>3, <2>1, <2>7, <2>8, <2>9, SentKept
    <2> QED BY <1>3, <2>10
  <1>5. RequestsInv(U, B)'
    BY <1>1, <1>4 DEF RequestsInv
  <1> QED BY <1>u, <1>b, <1>5

\* Who accepts AppendEntries of a term has sent none in it.
LEMMA RequestsReceive ==
    ASSUME Moves, RequestsLed, NEW T \in SUBSET Seq(Entry), NEW A \in SUBSET Ack,
           NEW B \in SUBSET Ack, AcksGrow(A, B), RequestsInv(T, A),
           NEW r \in append_requests, HandleAppendEntries(r), Accepts(r)
    PROVE  RequestsInv(T, B)'
  <1>0. TypeOK /\ OneVotePerTerm
    BY DEF Moves, VoteInv
  <1>1. /\ r.to \in Node /\ r.from \in Node
        /\ \A w \in Node \ {r.to} : log'[w] = log[w]
        /\ current_term'[r.to] = r.term /\ append_requests' = append_requests \ {r}
    BY <1>0, ReceivesWhat
  <1> SUFFICES ASSUME NEW m \in append_requests' PROVE \E X \in T : Sent(T, B, m, X)'
    BY DEF RequestsInv
  <1>2. m \in append_requests /\ m.from \in Node
    BY <1>0, <1>1 DEF TypeOK, CallTypeOK, AppendRequest
  <1>3. PICK X \in T : Sent(T, A, m, X)
    BY <1>2 DEF RequestsInv
  <1>4. SameCall(m, m)
    BY DEF SameCall, SameRequest
  <1>5. m.term = current_term'[m.from] => m.from # r.to
    <2> SUFFICES ASSUME m.term = r.term, m.from = r.to PROVE FALSE
      BY <1>1
    <2>1. /\ Majority(Electors(m.from, m.term)) /\ Majority(Electors(r.from, m.term))
          /\ r.from # r.to
      BY <1>2 DEF RequestsLed
    <2>2. m.from = r.from
      BY <1>0, <2>1, OneWinner
    <2> QED BY <2>1, <2>2
  <1>6. /\ m.term = current_term[m.from] /\ current_term'[m.from] = current_term[m.from]
        /\ Agree(X, log[m.from], Len(X))
        => Agree(X, log'[m.from], Len(X))
    BY <1>1, <1>2, <1>5
  <1>7. Sent(T, B, m, X)'
    BY <1>2, <1>3, <1>4, <1>6, SentKept
  <1> QED BY <1>7

-----------------------------------------------------------------------------
(* What is committed. *)

\* Committed entries stay chosen when the log keeps them.
LEMMA CommittedKept ==
    ASSUME Moves, NEW T \in SUBSET Seq(Entry), NEW U \in SUBSET Seq(Entry), T \subseteq U,
           NEW A, NEW B, A \subseteq B, Committed(T, A),
           \A i \in Node :
               \/ ChosenUpTo(U, B, log'[i], commit_length'[i], current_term'[i])
               \/ /\ commit_length'[i] = commit_length[i]
                  /\ \A L \in T : Agree(L, log[i], commit_length[i])
                                  => Agree(L, log'[i], commit_length[i])
    PROVE  Committed(U, B)'
  <1> SUFFICES ASSUME NEW i \in Node,
                      commit_length'[i] = commit_length[i],
                      \A L \in T : Agree(L, log[i], commit_length[i])
                                   => Agree(L, log'[i], commit_length[i])
               PROVE  ChosenUpTo(U, B, log'[i], commit_length'[i], current_term'[i])
    BY DEF Committed, ChosenUpTo, Chosen, Has, Agree, Majority
  <1>1. PICK k : k = commit_length[i]
    OBVIOUS
  <1>2. PICK M : M = log'[i]
    OBVIOUS
  <1>3. ChosenUpTo(T, A, log[i], k, current_term[i])
    BY <1>1 DEF Committed
  <1>4. ChosenUpTo(T, A, M, k, current_term[i])
    BY <1>1, <1>2, <1>3 DEF ChosenUpTo
  <1>5. /\ current_term[i] \in Nat /\ current_term'[i] \in Nat
        /\ current_term[i] <= current_term'[i]
    BY DEF Moves, TypeOK, NodeTypeOK
  <1>6. ChosenUpTo(U, B, M, k, current_term'[i])
    BY <1>4, <1>5, ChosenUpToGrows
  <1> QED BY <1>1, <1>2, <1>6

LEMMA CommittedStill ==
    ASSUME Moves, NEW T \in SUBSET Seq(Entry), NEW A, Committed(T, A),
           UNCHANGED <<log, commit_length>>
    PROVE  Committed(T, A)'
  BY CommittedKept

LEMMA CommittedWrites ==
    ASSUME Moves, NEW T \in SUBSET Seq(Entry), NEW A, Committed(T, A),
           NEW i \in Node, NEW v \in Value \cup {None}, Appends(i, v), UNCHANGED commit_length,
           NEW N, N = log'[i], NEW a
    PROVE  Committed(T \cup {N}, A \cup {a})'
  <1>u. PICK U : U = T \cup {N}
    OBVIOUS
  <1>b. PICK B : B = A \cup {a}
    OBVIOUS
  <1>1. /\ \A M \in Seq(Entry), k \in Nat : Agree(M, log[i], k) => Agree(M, N, k)
        /\ \A w \in Node \ {i} : log'[w] = log[w]
        /\ N \in Seq(Entry) /\ commit_length[i] \in Nat
    <2>1. TypeOK
      BY DEF Moves
    <2>2. commit_length[i] \in Nat
      BY <2>1 DEF TypeOK, NodeTypeOK
    <2> QED BY <2>1, <2>2, NewLog
  <1>2. \A w \in Node : \A L \in T : Agree(L, log[w], commit_length[w])
                                     => Agree(L, log'[w], commit_length[w])
    BY <1>1
  <1>3. U \in SUBSET Seq(Entry) /\ T \subseteq U /\ A \subseteq B
    BY <1>u, <1>b, <1>1
  <1>4. Committed(U, B)'
    BY <1>2, <1>3, CommittedKept
  <1> QED BY <1>u, <1>b, <1>4

\* What is committed stays in a log that accepts AppendEntries, and what it commits
\* then was chosen.
LEMMA CommittedReceives ==
    ASSUME Moves, NEW T \in SUBSET Seq(Entry), NEW A \in SUBSET Ack, NEW B, A \subseteq B,
           TreeInv(T), Committed(T, A),
           NEW m \in append_requests, HandleAppendEntries(m), Accepts(m),
           NEW X \in T, Sent(T, A, m, X)
    PROVE  Committed(T, B)' /\ disk'[m.to].log = log'[m.to]
  <1> DEFINE i == m.to
  <1>0. TypeOK
    BY DEF Moves
  <1>1. /\ i \in Node /\ log'[i] = Received(m) /\ m.term \in Nat
        /\ \A w \in Node \ {i} : log'[w] = log[w]
        /\ current_term'[i] = m.term
        /\ \/ disk'[i].log = log'[i]
           \/ m.commit > Len(log'[i])
    BY <1>0, ReceivesWhat
  <1>2. /\ commit_length[i] \in Nat /\ current_term[i] \in Nat /\ m.commit \in Nat
        /\ current_term[i] <= m.term
    BY <1>0, <1>1 DEF TypeOK, NodeTypeOK, CallTypeOK, AppendRequest, Accepts
  <1>3. /\ \A w \in Node \ {i} : commit_length'[w] = commit_length[w]
        /\ commit_length'[i] \in {commit_length[i], m.commit}
    BY <1>0, <1>1 DEF HandleAppendEntries, TypeOK, NodeTypeOK
  <1> HIDE DEF i
  <1>4. /\ Received(m) \in Seq(Entry) /\ Agree(Received(m), X, Len(X))
        /\ Len(X) \in Nat /\ X \in Seq(Entry)
    BY <1>0, ReceivedSent, LogFacts
  <1>5. ChosenUpTo(T, A, Received(m), m.commit, m.term) /\ m.commit <= Len(Received(m))
    <2>1. ChosenUpTo(T, A, X, m.commit, m.term)
      BY DEF Sent
    <2>2. CASE m.commit = 0
      BY <1>4, <2>2, LogFacts DEF ChosenUpTo
    <2>3. CASE m.commit # 0
      <3>1. PICK L \in T : \E j \in 1..Len(L) :
                /\ Chosen(A, L[j].term, j) /\ L[j].term <= m.term /\ m.commit <= j
                /\ Agree(L, X, m.commit)
        BY <2>1, <2>3 DEF ChosenUpTo
      <3>2. m.commit <= Len(X)
        BY <3>1 DEF Agree
      <3>3. Agree(X, Received(m), m.commit)
        BY <1>2, <1>4, <3>2, AgreeParts
      <3>4. Agree(L, Received(m), m.commit)
        BY <3>1, <3>3, AgreeChain
      <3>5. m.commit <= Len(Received(m))
        BY <3>4 DEF Agree
      <3> QED BY <3>1, <3>4, <3>5 DEF ChosenUpTo
    <2> QED BY <2>2, <2>3
  <1>6. ChosenUpTo(T, A, Received(m), commit_length[i], m.term)
    <2> SUFFICES ASSUME commit_length[i] # 0 PROVE ChosenUpTo(T, A, Received(m), commit_length[i], m.term)
      BY DEF ChosenUpTo
    <2>1. ChosenUpTo(T, A, log[i], commit_length[i], current_term[i])
      BY <1>1 DEF Committed
    <2>2. PICK L \in T : \E j \in 1..Len(L) :
              /\ Chosen(A, L[j].term, j) /\ L[j].term <= current_term[i]
              /\ commit_length[i] <= j /\ Agree(L, log[i], commit_length[i])
      BY <2>1 DEF ChosenUpTo
    <2>3. PICK j \in 1..Len(L) :
              /\ Chosen(A, L[j].term, j) /\ L[j].term <= current_term[i]
              /\ commit_length[i] <= j /\ Agree(L, log[i], commit_length[i])
      BY <2>2
    <2>4. L[j].term \in Nat
      BY LogFacts
    <2>5. L[j].term <= m.term
      BY <1>1, <1>2, <2>3, <2>4
    <2>6. ~Blocked(A, L[j].term, j)
      <3> SUFFICES ASSUME Blocked(A, L[j].term, j) PROVE FALSE
        OBVIOUS
      <3> DEFINE S == {n \in Node : Has(A, n, L[j].term, j)}
                 R == {n \in Node : current_term[n] > L[j].term /\ ~Has(A, n, L[j].term, j)}
      <3>1. S \cap R # {}
        BY <2>3, MajoritiesMeet DEF Chosen, Blocked
      <3> QED BY <3>1
    <2>7. Agree(L, Received(m), commit_length[i])
      BY <1>0, <1>2, <2>3, <2>5, <2>6, ReceivedKeeps DEF i
    <2> QED BY <2>3, <2>5, <2>7 DEF ChosenUpTo
  <1>7. PICK M : M = Received(m)
    OBVIOUS
  <1>8. PICK k : k = commit_length'[i]
    OBVIOUS
  <1>9. ChosenUpTo(T, A, M, k, m.term)
    BY <1>3, <1>5, <1>6, <1>7, <1>8
  <1>10. ChosenUpTo(T, B, M, k, m.term)
    BY <1>1, <1>9, ChosenUpToGrows
  <1>11. Committed(T, B)'
    <2>1. \A w \in Node : \/ ChosenUpTo(T, B, log'[w], commit_length'[w], current_term'[w])
                          \/ /\ commit_length'[w] = commit_length[w]
                             /\ \A L \in T : Agree(L, log[w], commit_length[w])
                                             => Agree(L, log'[w], commit_length[w])
      BY <1>1, <1>3, <1>7, <1>8, <1>10
    <2> QED BY <2>1, CommittedKept
  <1>12. Len(Received(m)) \in Nat
    BY <1>4, LogFacts
  <1>13. disk'[i].log = log'[i]
    BY <1>1, <1>2, <1>5, <1>12
  <1> QED BY <1>11, <1>13 DEF i

\* A leader commits what a majority has acknowledged in its term, itself included.
LEMMA CommittedReply ==
    ASSUME Moves, NEW T \in SUBSET Seq(Entry), NEW A \in SUBSET Ack,
           TreeInv(T), AckInv(T, A), CallsInv(A), Committed(T, A),
           NEW r \in append_replies, ReceiveAppendReply(r), "ack" \notin late'
    PROVE  Committed(T, A)'
  <1> DEFINE i == r.to
             acked == [acked_length[i] EXCEPT ![r.from] = IF r.success THEN r.upto ELSE @]
  <1>0. TypeOK
    BY DEF Moves
  <1>1. i \in Node /\ r.from \in Node /\ r.upto \in Nat
    BY <1>0 DEF TypeOK, CallTypeOK, AppendReply
  <1>2. UNCHANGED <<log, current_term>>
    BY DEF ReceiveAppendReply
  <1>3. /\ \A w \in Node \ {i} : commit_length'[w] = commit_length[w]
        /\ \/ commit_length'[i] = commit_length[i]
           \/ r.success /\ commit_length'[i] \in CommitTo(i, acked)
    BY <1>0, <1>1 DEF ReceiveAppendReply, TypeOK, NodeTypeOK
  <1>4. ASSUME NEW k \in CommitTo(i, acked), r.success
        PROVE  ChosenUpTo(T, A, log[i], k, current_term[i])
    <2>1. /\ k \in 1..Len(log[i]) /\ log[i][k].term = current_term[i]
          /\ Cardinality({j \in Node : acked[j] >= k}) >= Threshold
      BY DEF CommitTo, Ready
    <2>2. /\ acked_length[i] \in [Node -> Nat] /\ log[i] \in Seq(Entry)
          /\ current_term[i] \in Nat
      BY <1>0, <1>1 DEF TypeOK, NodeTypeOK
    <2>3. Len(log[i]) \in Nat /\ k \in Nat /\ k >= 1
      BY <2>1, <2>2, LogFacts
    <2>p. r.term = current_term[i]
      BY <1>4 DEF ReceiveAppendReply, InTime
    <2>4. Open(i)
      BY <2>p DEF Open, Calling
    <2>5. /\ Winner(i) /\ r.from # i /\ Has(A, r.from, current_term[i], r.upto)
          /\ \A j \in Node : acked_length[i][j] > 0 =>
                 j # i /\ Has(A, j, current_term[i], acked_length[i][j])
      BY <1>1, <1>4, <2>p, <2>4 DEF CallsInv, CountsTrue, RepliesTrue
    <2> DEFINE S == {j \in Node : acked[j] >= k}
               Q == {n \in Node : Has(A, n, current_term[i], k)}
    <2>6. \A j \in Node : \A u \in Nat : Has(A, j, current_term[i], u) /\ u >= k
                                         => Has(A, j, current_term[i], k)
      <3>1. \A a \in A : a.upto \in Nat
        BY DEF Ack
      <3> QED BY <2>3, <3>1 DEF Has
    <2>7. ASSUME NEW j \in S PROVE j \in Q /\ j # i
      <3>1. CASE j = r.from
        <4>1. r.upto >= k
          BY <1>1, <1>4, <2>2, <3>1
        <4> QED BY <1>1, <2>5, <2>6, <3>1, <4>1
      <3>2. CASE j # r.from
        <4>1. acked_length[i][j] >= k /\ acked_length[i][j] \in Nat
          BY <1>1, <2>2, <3>2
        <4>2. acked_length[i][j] > 0
          BY <2>3, <4>1
        <4> QED BY <2>5, <2>6, <4>1, <4>2
      <3> QED BY <3>1, <3>2
    <2>8. i \in Q
      BY <1>1, <2>1, <2>5 DEF AckInv, Own
    <2>9. Cardinality(S) >= Cardinality(Node) \div 2
      BY <2>1 DEF Threshold
    <2>10. S \in SUBSET Node /\ Q \in SUBSET Node
      OBVIOUS
    <2> HIDE DEF S, Q, acked, i
    <2>11. /\ IsFiniteSet(S) /\ Cardinality(S) \in Nat
           /\ Cardinality(Node) \in Nat
      BY <2>10, NodeAssumption, FS_Subset, FS_CardinalityType
    <2>12. Cardinality(S \cup {i}) = Cardinality(S) + 1
      <3>1. i \notin S
        BY <2>7
      <3> QED BY <2>11, <3>1, FS_AddElement
    <2>13. Majority(S \cup {i})
      BY <2>9, <2>11, <2>12 DEF Majority
    <2>14. S \cup {i} \subseteq Q /\ S \cup {i} \in SUBSET Node
      BY <1>1, <2>7, <2>8, <2>10
    <2>15. Majority(Q)
      BY <2>10, <2>13, <2>14, MajorityGrows
    <2>16. Chosen(A, log[i][k].term, k)
      BY <2>1, <2>15 DEF Chosen, Q
    <2>17. log[i] \in T /\ Agree(log[i], log[i], k)
      BY <1>1, <2>1, <2>3 DEF TreeInv, LogsHeld, Agree
    <2>18. log[i][k].term <= current_term[i] /\ k <= k
      BY <2>1, <2>2, <2>3
    <2> QED BY <2>1, <2>16, <2>17, <2>18 DEF ChosenUpTo
  <1> HIDE DEF acked
  <1>5. \A w \in Node : \/ ChosenUpTo(T, A, log'[w], commit_length'[w], current_term'[w])
                        \/ commit_length'[w] = commit_length[w]
    BY <1>1, <1>2, <1>3, <1>4
  <1> QED BY <1>2, <1>5, CommittedKept

-----------------------------------------------------------------------------
(* Calls under way. *)

\* What a step may do to AppendEntries calls and to what leaders count: B are the
\* acknowledgements after it.
CallsMove(B) ==
    /\ \A m \in append_requests' : m.live =>
           \/ \E n \in append_requests : SameCall(m, n) /\ n.live
           \/ /\ m.from \in Node /\ m.term = current_term[m.from]
              /\ state[m.from] = "LEADER" /\ UNCHANGED <<current_term, acked_length>>
    /\ \A r \in append_replies' \ append_replies :
           \E m \in append_requests :
               /\ m.live /\ m.from = r.to /\ m.term = r.term
               /\ r.success => r.from # r.to /\ Has(B, r.from, m.term, r.upto)
    /\ \A i \in Node : state'[i] = "LEADER" =>
           \/ state[i] = "LEADER" /\ current_term'[i] = current_term[i]
           \/ Winner(i)' /\ acked_length'[i] = Zeros
    /\ \A i, j \in Node : \/ acked_length'[i][j] \in {acked_length[i][j], 0}
                          \/ j # i /\ Has(B, j, current_term[i], acked_length'[i][j])

LEMMA CallsKept ==
    ASSUME Moves, RequestsLed, NEW A, NEW B, A \subseteq B, CallsInv(A), CallsMove(B)
    PROVE  CallsInv(B)'
  <1>0. \A n, t, k : Has(A, n, t, k) => Has(B, n, t, k)
    BY DEF Has
  <1>t. /\ \A m \in append_requests : m.from \in Node /\ m.term \in Nat
        /\ \A m \in append_requests' : m.from \in Node
        /\ \A r \in append_replies : r.to \in Node /\ r.term \in Nat
        /\ \A r \in append_replies' : r.from \in Node /\ r.to \in Node
    BY DEF Moves, TypeOK, CallTypeOK, AppendRequest, AppendReply
  <1>1. ASSUME NEW i \in Node, NEW t \in Nat, Majority(Electors(i, t)), t = current_term'[i]
        PROVE  current_term'[i] = current_term[i]
    <2>1. Candidates /\ current_term'[i] >= current_term[i]
      BY DEF Moves
    <2>2. t <= current_term[i]
      BY <1>1, <2>1, WinnerReached
    <2>3. current_term[i] \in Nat /\ current_term'[i] \in Nat
      BY DEF Moves, TypeOK, NodeTypeOK
    <2> QED BY <1>1, <2>1, <2>2, <2>3
  <1>2. \A m \in append_requests : Majority(Electors(m.from, m.term))
    BY DEF RequestsLed
  <1>c. ASSUME NEW n \in append_requests, n.live, n.term = current_term'[n.from]
        PROVE  Calling(n.from) /\ current_term'[n.from] = current_term[n.from]
    <2>1. current_term'[n.from] = current_term[n.from]
      BY <1>c, <1>t, <1>1, <1>2
    <2> QED BY <1>c, <2>1 DEF Calling
  <1>3. ASSUME NEW m \in append_requests', m.live, m.term = current_term'[m.from]
        PROVE  Open(m.from) /\ current_term'[m.from] = current_term[m.from]
    <2>1. CASE \E n \in append_requests : SameCall(m, n) /\ n.live
      BY <1>3, <1>c, <2>1 DEF SameCall, SameRequest, Open
    <2>2. CASE /\ m.from \in Node /\ m.term = current_term[m.from]
               /\ state[m.from] = "LEADER" /\ UNCHANGED <<current_term, acked_length>>
      BY <2>2 DEF Open
    <2> QED BY <1>3, <2>1, <2>2 DEF CallsMove
  <1>4. ASSUME NEW r \in append_replies'
        PROVE  /\ Majority(Electors(r.to, r.term)')
               /\ r.success => r.from # r.to /\ Has(B, r.from, r.term, r.upto)
               /\ r.term = current_term'[r.to] =>
                      Open(r.to) /\ current_term'[r.to] = current_term[r.to]
    <2>g. \A c \in Node : \A t : Majority(Electors(c, t)) => Majority(Electors(c, t)')
      BY ElectorsGrow DEF Moves
    <2>1. CASE r \in append_replies
      <3>1. /\ Majority(Electors(r.to, r.term))
            /\ r.success => r.from # r.to /\ Has(B, r.from, r.term, r.upto)
        BY <1>0, <2>1 DEF CallsInv, RepliesTrue
      <3>2. ASSUME r.term = current_term'[r.to]
            PROVE  Open(r.to) /\ current_term'[r.to] = current_term[r.to]
        <4>1. current_term'[r.to] = current_term[r.to]
          BY <1>t, <1>1, <2>1, <3>1, <3>2
        <4> QED BY <2>1, <3>2, <4>1 DEF Open, Calling
      <3> QED BY <1>t, <2>1, <2>g, <3>1, <3>2
    <2>2. CASE r \notin append_replies
      <3>1. PICK m \in append_requests :
                /\ m.live /\ m.from = r.to /\ m.term = r.term
                /\ r.success => r.from # r.to /\ Has(B, r.from, m.term, r.upto)
        BY <2>2 DEF CallsMove
      <3>2. Majority(Electors(r.to, r.term)')
        BY <1>t, <1>2, <2>g, <3>1
      <3> QED BY <1>c, <3>1, <3>2 DEF Open
    <2> QED BY <2>1, <2>2
  <1>5. ASSUME NEW i \in Node, Open(i)'
        PROVE  /\ Winner(i)'
               /\ \A j \in Node : acked_length'[i][j] > 0 =>
                      j # i /\ Has(B, j, current_term'[i], acked_length'[i][j])
    <2>1. CASE Open(i) /\ current_term'[i] = current_term[i]
      <3>1. /\ Winner(i)
            /\ \A j \in Node : acked_length[i][j] > 0 =>
                   j # i /\ Has(A, j, current_term[i], acked_length[i][j])
        BY <2>1 DEF CallsInv, CountsTrue
      <3>2. Winner(i)'
        BY <2>1, <3>1, WinnerStays DEF Moves
      <3>3. ASSUME NEW j \in Node, acked_length'[i][j] > 0
            PROVE  j # i /\ Has(B, j, current_term'[i], acked_length'[i][j])
        <4>1. CASE acked_length'[i][j] \in {acked_length[i][j], 0}
          BY <1>0, <2>1, <3>1, <3>3, <4>1
        <4>2. CASE j # i /\ Has(B, j, current_term[i], acked_length'[i][j])
          BY <2>1, <4>2
        <4> QED BY <4>1, <4>2 DEF CallsMove
      <3> QED BY <3>2, <3>3
    <2>2. CASE Winner(i)' /\ acked_length'[i] = Zeros
      BY <2>2 DEF Zeros
    <2>3. CASE state'[i] = "LEADER"
      BY <2>1, <2>2, <2>3 DEF CallsMove, Open
    <2>4. CASE \E m \in append_requests' :
                   m.live /\ m.from = i /\ m.term = current_term'[i]
      BY <1>3, <2>1, <2>4
    <2>5. CASE \E r \in append_replies' : r.to = i /\ r.term = current_term'[i]
      BY <1>4, <2>1, <2>5
    <2> QED BY <1>5, <2>3, <2>4, <2>5 DEF Open, Calling
  <1> QED BY <1>4, <1>5
        DEF CallsInv, RepliesTrue, CountsTrue, Has, Majority, Electors

\* Steps that touch no call, leader or count.
LEMMA CallsUntouched ==
    ASSUME NEW B, UNCHANGED <<state, current_term, acked_length>>,
           append_replies' \subseteq append_replies,
           \A m \in append_requests' :
               \E n \in append_requests : SameCall(m, n) /\ (m.live => n.live)
    PROVE  CallsMove(B)
  BY DEF CallsMove

\* Steps of one node that leaves it no leader, or with nothing counted yet.
LEMMA CallsOfOne ==
    ASSUME TypeOK, NEW B, NEW i \in Node,
           \A j \in Node \ {i} : /\ state'[j] = state[j] /\ current_term'[j] = current_term[j]
                                 /\ acked_length'[j] = acked_length[j],
           \/ state'[i] # "LEADER" /\ acked_length'[i] \in {acked_length[i], Zeros}
           \/ Winner(i)' /\ acked_length'[i] = Zeros,
           append_replies' \subseteq append_replies,
           \A m \in append_requests' :
               \E n \in append_requests : SameCall(m, n) /\ (m.live => n.live)
    PROVE  CallsMove(B)
  <1>1. \A k, j \in Node : acked_length'[k][j] \in {acked_length[k][j], 0}
    BY DEF Zeros
  <1>2. \A k \in Node : state'[k] = "LEADER" =>
            \/ state[k] = "LEADER" /\ current_term'[k] = current_term[k]
            \/ Winner(k)' /\ acked_length'[k] = Zeros
    OBVIOUS
  <1> QED BY <1>1, <1>2 DEF CallsMove

LEMMA CallsReply ==
    ASSUME TypeOK, NEW A, CallsInv(A), NEW r \in append_replies, ReceiveAppendReply(r),
           "ack" \notin late'
    PROVE  CallsMove(A)
  <1>1. /\ append_replies' = append_replies \ {r}
        /\ UNCHANGED <<state, current_term, append_requests>>
        /\ acked_length' = [acked_length EXCEPT ![r.to] =
               [acked_length[r.to] EXCEPT ![r.from] = IF r.success THEN r.upto ELSE @]]
    BY DEF ReceiveAppendReply
  <1>2. /\ r.to \in Node /\ acked_length \in [Node -> [Node -> Nat]]
    BY DEF TypeOK, NodeTypeOK, CallTypeOK, AppendReply
  <1>3. r.success => r.from # r.to /\ Has(A, r.from, current_term[r.to], r.upto)
    <2>1. r.success => r.term = current_term[r.to]
      BY DEF ReceiveAppendReply, InTime
    <2> QED BY <2>1 DEF CallsInv, RepliesTrue
  <1>4. ASSUME NEW i \in Node, NEW j \in Node
        PROVE  \/ acked_length'[i][j] \in {acked_length[i][j], 0}
               \/ j # i /\ Has(A, j, current_term[i], acked_length'[i][j])
    <2>1. CASE i = r.to /\ j = r.from /\ r.success
      <3>1. acked_length'[i][j] = r.upto
        BY <1>1, <1>2, <2>1
      <3> QED BY <1>3, <2>1, <3>1
    <2>2. CASE ~(i = r.to /\ j = r.from /\ r.success)
      <3>1. acked_length'[i][j] = acked_length[i][j]
        BY <1>1, <1>2, <2>2
      <3> QED BY <3>1
    <2> QED BY <2>1, <2>2
  <1>5. \A m \in append_requests' : m.live =>
            \E n \in append_requests : SameCall(m, n) /\ n.live
    BY <1>1 DEF SameCall, SameRequest
  <1> QED BY <1>1, <1>4, <1>5 DEF CallsMove

LEMMA CallsCheckElection ==
    ASSUME TypeOK, LeaderIsElected', NEW B, NEW i \in Node, CheckElection(i)
    PROVE  CallsMove(B)
  <1>1. \A m \in append_requests' :
            \E n \in append_requests : SameCall(m, n) /\ (m.live => n.live)
    BY DEF CheckElection, appendRpc, SameCall, SameRequest
  <1>2. UNCHANGED <<current_term, append_replies>>
    BY DEF CheckElection, appendRpc, durableVars
  <1>3. CASE Elected(i)
    <2>1. /\ state' = [state EXCEPT ![i] = "LEADER"]
          /\ acked_length' = [acked_length EXCEPT ![i] = Zeros]
      BY <1>3 DEF CheckElection
    <2>2. state \in [Node -> State] /\ acked_length \in [Node -> [Node -> Nat]]
      BY DEF TypeOK, NodeTypeOK
    <2>3. /\ state'[i] = "LEADER" /\ acked_length'[i] = Zeros
          /\ \A j \in Node \ {i} : /\ state'[j] = state[j]
                                   /\ acked_length'[j] = acked_length[j]
      BY <2>1, <2>2
    <2>4. Winner(i)'
      BY <2>3 DEF LeaderIsElected, Winner
    <2> QED BY <1>1, <1>2, <2>3, <2>4, CallsOfOne
  <1>4. CASE ~Elected(i)
    <2>1. UNCHANGED <<state, acked_length>>
      BY <1>4 DEF CheckElection, leaderVars
    <2> QED BY <1>1, <1>2, <2>1, CallsUntouched
  <1> QED BY <1>3, <1>4

\* step_down leaves a follower with nothing counted.
LEMMA CallsStepDown ==
    ASSUME TypeOK, NEW B, NEW i \in Node, NEW t, StepDown(i, t),
           \A j \in Node \ {i} : current_term'[j] = current_term[j],
           append_replies' \subseteq append_replies,
           \A m \in append_requests' :
               \E n \in append_requests : SameCall(m, n) /\ (m.live => n.live)
    PROVE  CallsMove(B)
  <1>1. state \in [Node -> State] /\ acked_length \in [Node -> [Node -> Nat]]
    BY DEF TypeOK, NodeTypeOK
  <1>2. /\ state'[i] # "LEADER" /\ acked_length'[i] = Zeros
        /\ \A j \in Node \ {i} : /\ state'[j] = state[j]
                                 /\ acked_length'[j] = acked_length[j]
    BY <1>1 DEF StepDown
  <1> QED BY <1>2, CallsOfOne

LEMMA CallsStill ==
    ASSUME TypeOK, LeaderIsElected', NEW A, CallsInv(A), Still, "ack" \notin late'
    PROVE  CallsMove(A)
  <1>1. \A m \in append_requests' :
            \E n \in append_requests : SameCall(m, n) /\ (m.live => n.live)
    BY StillWhat
  <1>2. ASSUME UNCHANGED <<state, current_term, acked_length>>,
               append_replies' \subseteq append_replies
        PROVE  CallsMove(A)
    BY <1>1, <1>2, CallsUntouched
  <1>3. ASSUME NEW i \in Node, StartElection(i) PROVE CallsMove(A)
    <2>1. /\ UNCHANGED <<append_replies, acked_length>>
          /\ state' = [state EXCEPT ![i] = "CANDIDATE"]
          /\ current_term' = [current_term EXCEPT ![i] = @ + 1]
      BY <1>3 DEF StartElection, appendRpc
    <2>2. state \in [Node -> State] /\ current_term \in [Node -> Nat]
      BY DEF TypeOK, NodeTypeOK
    <2>3. /\ state'[i] # "LEADER"
          /\ \A j \in Node \ {i} : state'[j] = state[j] /\ current_term'[j] = current_term[j]
      BY <2>1, <2>2
    <2> QED BY <1>1, <2>1, <2>3, CallsOfOne
  <1>4. ASSUME NEW i \in Node, LeaseTimeout(i) PROVE CallsMove(A)
    <2>1. /\ \E t \in Fired(lease_timer[i]) : StepDown(i, t)
          /\ UNCHANGED <<current_term, append_replies>>
      BY <1>4 DEF LeaseTimeout, durableVars, appendRpc
    <2> QED BY <1>1, <2>1, CallsStepDown
  <1>5. ASSUME NEW m \in vote_requests, HandleRequestVote(m) PROVE CallsMove(A)
    <2>1. m.to \in Node /\ m.term \in Nat /\ current_term \in [Node -> Nat]
      BY DEF TypeOK, CallTypeOK, VoteRequest, NodeTypeOK
    <2>2. /\ current_term' = [current_term EXCEPT ![m.to] = Max2(@, m.term)]
          /\ UNCHANGED append_replies
          /\ IF m.term > current_term[m.to] THEN StepDown(m.to, lease_timer[m.to])
             ELSE UNCHANGED roleVars
      BY <1>5 DEF HandleRequestVote, appendRpc
    <2>3. CASE m.term > current_term[m.to]
      <3>1. \A j \in Node \ {m.to} : current_term'[j] = current_term[j]
        BY <2>1, <2>2
      <3> QED BY <1>1, <2>1, <2>2, <2>3, <3>1, CallsStepDown
    <2>4. CASE ~(m.term > current_term[m.to])
      <3>1. UNCHANGED current_term
        BY <2>1, <2>2, <2>4 DEF Max2
      <3> QED BY <1>2, <2>2, <2>4, <3>1 DEF roleVars, leaderVars
    <2> QED BY <2>3, <2>4
  <1>6. ASSUME NEW r \in append_replies, ReceiveAppendReply(r) PROVE CallsMove(A)
    BY <1>6, CallsReply
  <1>7. ASSUME NEW i \in Node, CheckElection(i) PROVE CallsMove(A)
    BY <1>7, CallsCheckElection
  <1>8. CASE AppendCallFails
    <2>1. /\ UNCHANGED <<state, current_term, acked_length>>
          /\ append_replies' \subseteq append_replies
      BY <1>8 DEF AppendCallFails, durableVars, roleVars, leaderVars
    <2> QED BY <1>2, <2>1
  <1>9. ASSUME NEW t \in vote_tasks, SendRequestVote(t) PROVE CallsMove(A)
    BY <1>2, <1>9 DEF SendRequestVote, durableVars, roleVars, leaderVars, appendRpc
  <1>10. ASSUME NEW i \in Node, SendHeartbeats(i) PROVE CallsMove(A)
    BY <1>2, <1>10 DEF SendHeartbeats, durableVars, leaderVars
  <1>11. ASSUME NEW r \in vote_replies, ReceiveVote(r) PROVE CallsMove(A)
    BY <1>2, <1>11 DEF ReceiveVote, durableVars, appendRpc
  <1>12. ASSUME NEW v \in Value, ClientWake(v) PROVE CallsMove(A)
    BY <1>2, <1>12 DEF ClientWake, durableVars, roleVars, leaderVars, appendRpc
  <1>13. CASE VoteCallFails \/ UNCHANGED vars
    BY <1>2, <1>13 DEF VoteCallFails, durableVars, roleVars, leaderVars, appendRpc, vars
  <1>14. CASE \E i \in Node : \/ StartElection(i) \/ CheckElection(i)
                            \/ SendHeartbeats(i) \/ LeaseTimeout(i)
    BY <1>3, <1>4, <1>7, <1>10, <1>14
  <1>15. CASE \E t \in vote_tasks : SendRequestVote(t)
    BY <1>9, <1>15
  <1>16. CASE \E m \in vote_requests : HandleRequestVote(m)
    BY <1>5, <1>16
  <1>17. CASE \/ \E r \in vote_replies : ReceiveVote(r)
              \/ \E r \in append_replies : ReceiveAppendReply(r)
    BY <1>6, <1>11, <1>17
  <1>18. CASE \E v \in Value : ClientWake(v)
    BY <1>12, <1>18
  <1> QED BY <1>8, <1>13, <1>14, <1>15, <1>16, <1>17, <1>18 DEF Still

LEMMA CallsSend ==
    ASSUME TypeOK, NEW B, NEW t \in append_tasks, SendAppendEntries(t), "lead" \notin late'
    PROVE  CallsMove(B)
  <1>1. UNCHANGED <<state, current_term, acked_length, append_replies>>
    BY DEF SendAppendEntries, durableVars, roleVars, leaderVars
  <1>2. t.from \in Node /\ state[t.from] = "LEADER"
    BY DEF TypeOK, CallTypeOK, AppendTask, SendAppendEntries, InTime
  <1>3. \A m \in append_requests' :
            \/ m \in append_requests
            \/ m.from = t.from /\ m.term = current_term[t.from]
    BY SendsOwnLog
  <1>4. \A m \in append_requests' : m.live =>
            \/ \E n \in append_requests : SameCall(m, n) /\ n.live
            \/ /\ m.from \in Node /\ m.term = current_term[m.from]
               /\ state[m.from] = "LEADER" /\ UNCHANGED <<current_term, acked_length>>
    BY <1>1, <1>2, <1>3 DEF SameCall, SameRequest
  <1> QED BY <1>1, <1>4 DEF CallsMove

LEMMA CallsRestart ==
    ASSUME TypeOK, DiskInv, NEW B, NEW i \in Node, Restart(i)
    PROVE  CallsMove(B)
  <1>1. /\ state' = [state EXCEPT ![i] = "FOLLOWER"]
        /\ current_term' = [current_term EXCEPT ![i] = disk[i].term]
        /\ acked_length' = [acked_length EXCEPT ![i] = Zeros]
        /\ append_replies' \subseteq append_replies
    BY DEF Restart
  <1>2. /\ state \in [Node -> State] /\ current_term \in [Node -> Nat]
        /\ acked_length \in [Node -> [Node -> Nat]]
    BY DEF TypeOK, NodeTypeOK
  <1>3. /\ state'[i] # "LEADER" /\ acked_length'[i] = Zeros
        /\ \A j \in Node \ {i} : /\ state'[j] = state[j] /\ current_term'[j] = current_term[j]
                                 /\ acked_length'[j] = acked_length[j]
    BY <1>1, <1>2
  <1>4. \A m \in append_requests' :
            \E n \in append_requests : SameCall(m, n) /\ (m.live => n.live)
    BY RestartedCallsSame
  <1> QED BY <1>1, <1>3, <1>4, CallsOfOne

\* What AppendEntries answers is true of the log it left.
LEMMA CallsReceive ==
    ASSUME TypeOK, RequestsLed, NEW T, NEW A, NEW m \in append_requests, HandleAppendEntries(m),
           NEW X \in Seq(Entry), Carries(m, X), NEW B, Accepts(m) => GivenAck(m, X) \in B
    PROVE  CallsMove(B)
  <1>1. /\ m.to \in Node /\ m.term \in Nat
        /\ \A w \in Node \ {m.to} : current_term'[w] = current_term[w]
        /\ current_term'[m.to] = Max2(current_term[m.to], m.term)
        /\ append_requests' = append_requests \ {m}
    BY ReceivesWhat
  <1>2. \A n \in append_requests' : n.live =>
            \E q \in append_requests : SameCall(n, q) /\ q.live
    BY <1>1 DEF SameCall, SameRequest
  <1>3. /\ state \in [Node -> State] /\ current_term \in [Node -> Nat]
        /\ acked_length \in [Node -> [Node -> Nat]]
    BY DEF TypeOK, NodeTypeOK
  <1>4. \A r \in append_replies' \ append_replies :
            /\ m.live /\ m.from = r.to /\ r.from = m.to /\ m.term = r.term
            /\ r.success => Accepts(m) /\ r.upto = m.prev + Len(m.entries)
    <2> SUFFICES ASSUME NEW r \in append_replies' \ append_replies
                 PROVE  /\ m.live /\ m.from = r.to /\ r.from = m.to /\ m.term = r.term
                        /\ r.success => Accepts(m) /\ r.upto = m.prev + Len(m.entries)
      OBVIOUS
    <2>1. /\ m.live
          /\ r = [from |-> m.to, to |-> m.from, slot |-> m.slot, term |-> m.term,
                  success |-> Accepts(m),
                  upto |-> IF Accepts(m) THEN m.prev + Len(m.entries) ELSE 0]
      BY DEF HandleAppendEntries, Accepts
    <2> QED BY <2>1
  <1>5. \A r \in append_replies' \ append_replies :
            /\ m.live /\ m.from = r.to /\ m.term = r.term
            /\ r.success => r.from # r.to /\ Has(B, r.from, m.term, r.upto)
    <2> SUFFICES ASSUME NEW r \in append_replies' \ append_replies, r.success
                 PROVE  r.from # r.to /\ Has(B, r.from, m.term, r.upto)
      BY <1>4
    <2>1. m.from # m.to
      BY DEF RequestsLed
    <2>2. r.upto = Len(X) /\ Len(X) \in Nat
      BY <1>4, LogFacts DEF Carries, Ends
    <2>3. Has(B, m.to, m.term, Len(X))
      BY <1>4, <2>2 DEF Has, GivenAck
    <2> QED BY <1>4, <2>1, <2>2, <2>3
  <1>6. CASE m.term > current_term[m.to]
    <2>1. StepDown(m.to, lease_timer[m.to])
      BY <1>1, <1>3, <1>6 DEF HandleAppendEntries
    <2>2. /\ state'[m.to] # "LEADER" /\ acked_length'[m.to] = Zeros
          /\ \A j \in Node \ {m.to} : /\ state'[j] = state[j]
                                      /\ acked_length'[j] = acked_length[j]
      BY <1>1, <1>3, <2>1 DEF StepDown
    <2>3. \A i, j \in Node : acked_length'[i][j] \in {acked_length[i][j], 0}
      BY <2>2 DEF Zeros
    <2>4. \A i \in Node : state'[i] = "LEADER" =>
              state[i] = "LEADER" /\ current_term'[i] = current_term[i]
      BY <1>1, <2>2
    <2> QED BY <1>2, <1>5, <2>3, <2>4 DEF CallsMove
  <1>7. CASE m.term <= current_term[m.to]
    <2>1. current_term'[m.to] = current_term[m.to]
      BY <1>1, <1>3, <1>7 DEF Max2
    <2>2. /\ acked_length' = acked_length
          /\ \/ state' = state
             \/ state' = [state EXCEPT ![m.to] = "FOLLOWER"]
      BY <1>1, <1>3, <1>7 DEF HandleAppendEntries, roleVars, leaderVars
    <2>3. \A i \in Node : state'[i] = "LEADER" =>
              state[i] = "LEADER" /\ current_term'[i] = current_term[i]
      BY <1>1, <1>3, <2>1, <2>2
    <2> QED BY <1>2, <1>5, <2>2, <2>3 DEF CallsMove
  <1>8. current_term[m.to] \in Nat
    BY <1>1, <1>3
  <1> QED BY <1>1, <1>6, <1>7, <1>8

-----------------------------------------------------------------------------
(* Clients, and every step. *)

\* A SET answered with success was so before, or is chosen now.
ClientsMove(U, B) ==
    \A v \in Value : client'[v].status = "ok" =>
        \/ client[v].status = "ok" /\ client'[v].term = client[v].term
        \/ \E L \in U : \E j \in 1..Len(L) : \E k \in 1..j :
               /\ Chosen(B, L[j].term, j)
               /\ L[k] = [term |-> client'[v].term, value |-> v]

LEMMA ClientsKept ==
    ASSUME NEW T, NEW U, T \subseteq U, NEW A, NEW B, A \subseteq B, ClientInv(T, A),
           ClientsMove(U, B)
    PROVE  ClientInv(U, B)'
  <1> SUFFICES ASSUME NEW v \in Value, client'[v].status = "ok"
               PROVE  \E L \in U : \E j \in 1..Len(L) : \E k \in 1..j :
                          /\ Chosen(B, L[j].term, j)
                          /\ L[k] = [term |-> client'[v].term, value |-> v]
    BY DEF ClientInv, Chosen, Has, Majority
  <1>1. CASE client[v].status = "ok" /\ client'[v].term = client[v].term
    <2>1. PICK L \in T : \E j \in 1..Len(L) : \E k \in 1..j :
              /\ Chosen(A, L[j].term, j)
              /\ L[k] = [term |-> client[v].term, value |-> v]
      BY <1>1 DEF ClientInv
    <2>2. \A j : Chosen(A, L[j].term, j) => Chosen(B, L[j].term, j)
      BY ChosenGrows
    <2> QED BY <1>1, <2>1, <2>2
  <1> QED BY <1>1 DEF ClientsMove

LEMMA ClientsWake ==
    ASSUME TypeOK, NEW T \in SUBSET Seq(Entry), NEW A, Committed(T, A),
           NEW v \in Value, ClientWake(v)
    PROVE  ClientsMove(T, A)
  <1> DEFINE i == client[v].node
             k == commit_length[i]
  <1>1. /\ client' = [client EXCEPT ![v].status =
               IF k \in 1..Len(log[i]) /\ log[i][k] = [term |-> client[v].term, value |-> v]
               THEN "ok" ELSE "failed"]
        /\ client[v].status = "waiting"
    BY DEF ClientWake
  <1>2. /\ client \in [Value -> [status : {"new", "waiting", "ok", "failed"},
                                 node : Node \cup {None}, term : Nat]]
        /\ i \in Node /\ k \in Nat
    BY <1>1 DEF TypeOK, OtherTypeOK, NodeTypeOK
  <1>3. \A w \in Value \ {v} : client'[w] = client[w]
    BY <1>1, <1>2
  <1>4. client'[v].term = client[v].term
    BY <1>1, <1>2
  <1>5. ASSUME client'[v].status = "ok"
        PROVE  \E L \in T : \E j \in 1..Len(L) : \E p \in 1..j :
                   /\ Chosen(A, L[j].term, j)
                   /\ L[p] = [term |-> client[v].term, value |-> v]
    <2>1. k \in 1..Len(log[i]) /\ log[i][k] = [term |-> client[v].term, value |-> v]
      BY <1>1, <1>2, <1>5
    <2>2. ChosenUpTo(T, A, log[i], k, current_term[i])
      BY <1>2 DEF Committed
    <2> HIDE DEF k, i
    <2>3. k # 0
      BY <1>2, <2>1
    <2>4. PICK L \in T : \E j \in 1..Len(L) :
              /\ Chosen(A, L[j].term, j) /\ L[j].term <= current_term[i]
              /\ k <= j /\ Agree(L, log[i], k)
      BY <2>2, <2>3 DEF ChosenUpTo
    <2>5. PICK j \in 1..Len(L) : Chosen(A, L[j].term, j) /\ k <= j /\ Agree(L, log[i], k)
      BY <2>4
    <2>6. k \in 1..k /\ k \in 1..j
      BY <1>2, <2>3, <2>5
    <2>7. L[k] = log[i][k]
      BY <2>5, <2>6 DEF Agree
    <2> QED BY <2>1, <2>5, <2>6, <2>7
  <1> QED BY <1>3, <1>4, <1>5 DEF ClientsMove

\* Steps after which every log is as it was.
LEMMA SameLogs ==
    ASSUME Moves, NEW T \in SUBSET Seq(Entry), NEW A \in SUBSET Ack, SafeWith(T, A),
           UNCHANGED log, TreeInv(T)', Votes(T, A)', Asked(T)',
           Stands, NewTasks, RequestsInv(T, A)', Committed(T, A)',
           \A j \in Node : disk'[j].log \in {log[j], disk[j].log},
           RequestsLed, CallsMove(A), ClientsMove(T, A)
    PROVE  SafeWith(T, A)'
  <1>1. AckInv(T, A)'
    BY AckStill DEF SafeWith
  <1>2. Tasks'
    BY TasksKept DEF SafeWith, BallotsInv
  <1>3. OnDisk'
    BY DEF SafeWith, OnDisk
  <1>4. CallsInv(A)'
    BY CallsKept DEF SafeWith
  <1>5. ClientInv(T, A)'
    BY ClientsKept DEF SafeWith
  <1> QED BY <1>1, <1>2, <1>3, <1>4, <1>5 DEF SafeWith, BallotsInv

\* What the quiet steps do to votes, commit lengths and clients.
LEMMA StillMore ==
    ASSUME TypeOK, Still
    PROVE  /\ \/ UNCHANGED grants
              \/ \E i \in Node : StartElection(i)
              \/ \E m \in vote_requests : HandleRequestVote(m)
           /\ \/ \E t \in vote_tasks : SendRequestVote(t)
              \/ \A m \in vote_requests' : \E n \in vote_requests : SameAsk(m, n)
           /\ NewTasks
           /\ UNCHANGED commit_length \/ \E r \in append_replies : ReceiveAppendReply(r)
           /\ UNCHANGED client \/ \E v \in Value : ClientWake(v)
  <1> DEFINE Goal ==
          /\ \/ UNCHANGED grants
             \/ \E i \in Node : StartElection(i)
             \/ \E m \in vote_requests : HandleRequestVote(m)
          /\ \/ \E t \in vote_tasks : SendRequestVote(t)
             \/ \A m \in vote_requests' : \E n \in vote_requests : SameAsk(m, n)
          /\ NewTasks
          /\ UNCHANGED commit_length \/ \E r \in append_replies : ReceiveAppendReply(r)
          /\ UNCHANGED client \/ \E v \in Value : ClientWake(v)
  <1> SUFFICES Goal OBVIOUS
  <1>1. ASSUME vote_requests' \subseteq vote_requests
        PROVE  \A m \in vote_requests' : \E n \in vote_requests : SameAsk(m, n)
    BY <1>1 DEF SameAsk
  <1>2. ASSUME UNCHANGED <<vote_tasks, vote_requests, grants, commit_length, client>>
        PROVE  Goal
    BY <1>1, <1>2 DEF NewTasks
  <1>3. ASSUME NEW i \in Node, StartElection(i) PROVE Goal
    <2>1. /\ UNCHANGED <<commit_length, vote_requests, client>>
          /\ NewTasks
      BY <1>3 DEF StartElection, NewTasks
    <2> QED BY <1>1, <1>3, <2>1
  <1>4. ASSUME NEW m \in vote_requests, HandleRequestVote(m) PROVE Goal
    <2>1. UNCHANGED <<commit_length, vote_tasks, client>> /\ vote_requests' \subseteq vote_requests
      BY <1>4 DEF HandleRequestVote
    <2> QED BY <1>1, <1>4, <2>1 DEF NewTasks
  <1>5. ASSUME NEW r \in append_replies, ReceiveAppendReply(r) PROVE Goal
    <2>1. UNCHANGED <<vote_tasks, vote_requests, grants, client>>
      BY <1>5 DEF ReceiveAppendReply, electionRpc
    <2> QED BY <1>1, <1>5, <2>1 DEF NewTasks
  <1>6. ASSUME NEW t \in vote_tasks, SendRequestVote(t) PROVE Goal
    <2>1. UNCHANGED <<commit_length, grants, client>> /\ vote_tasks' \subseteq vote_tasks
      BY <1>6 DEF SendRequestVote, durableVars
    <2> QED BY <1>6, <2>1 DEF NewTasks
  <1>7. CASE VoteCallFails
    <2>1. UNCHANGED <<vote_tasks, commit_length, grants, client>>
      BY <1>7 DEF VoteCallFails, durableVars
    <2>2. \A m \in vote_requests' : \E n \in vote_requests : SameAsk(m, n)
      <3>1. CASE UNCHANGED vote_requests
        BY <1>1, <3>1
      <3>2. CASE \E m \in vote_requests :
                     vote_requests' = (vote_requests \ {m}) \cup {[m EXCEPT !.live = FALSE]}
        <4>1. PICK m \in vote_requests :
                     vote_requests' = (vote_requests \ {m}) \cup {[m EXCEPT !.live = FALSE]}
          BY <3>2
        <4>2. m \in VoteRequest
          BY DEF TypeOK, CallTypeOK
        <4>3. SameAsk([m EXCEPT !.live = FALSE], m)
          BY <4>2 DEF SameAsk, VoteRequest
        <4> QED BY <4>1, <4>3 DEF SameAsk
      <3> QED BY <1>7, <3>1, <3>2 DEF VoteCallFails
    <2> QED BY <2>1, <2>2 DEF NewTasks
  <1>8. ASSUME NEW v \in Value, ClientWake(v) PROVE Goal
    <2>1. UNCHANGED <<vote_tasks, vote_requests, grants, commit_length>>
      BY <1>8 DEF ClientWake, durableVars, electionRpc
    <2> QED BY <1>1, <1>8, <2>1 DEF NewTasks
  <1>9. ASSUME NEW i \in Node, CheckElection(i) PROVE Goal
    BY <1>2, <1>9 DEF CheckElection, durableVars, electionRpc, otherVars
  <1>10. ASSUME NEW i \in Node, SendHeartbeats(i) PROVE Goal
    BY <1>2, <1>10 DEF SendHeartbeats, durableVars, electionRpc, otherVars
  <1>11. ASSUME NEW i \in Node, LeaseTimeout(i) PROVE Goal
    BY <1>2, <1>11 DEF LeaseTimeout, durableVars, electionRpc
  <1>12. ASSUME NEW r \in vote_replies, ReceiveVote(r) PROVE Goal
    BY <1>2, <1>12 DEF ReceiveVote, durableVars
  <1>13. CASE AppendCallFails \/ UNCHANGED vars
    BY <1>2, <1>13 DEF AppendCallFails, durableVars, electionRpc, otherVars, vars
  <1> HIDE DEF Goal
  <1>14. CASE \E i \in Node : \/ StartElection(i) \/ CheckElection(i)
                            \/ SendHeartbeats(i) \/ LeaseTimeout(i)
    BY <1>3, <1>9, <1>10, <1>11, <1>14
  <1>15. CASE \E t \in vote_tasks : SendRequestVote(t)
    BY <1>6, <1>15
  <1>16. CASE \E m \in vote_requests : HandleRequestVote(m)
    BY <1>4, <1>16
  <1>17. CASE \/ \E r \in vote_replies : ReceiveVote(r)
              \/ \E r \in append_replies : ReceiveAppendReply(r)
    BY <1>5, <1>12, <1>17
  <1>18. CASE \E v \in Value : ClientWake(v)
    BY <1>8, <1>18
  <1> QED BY <1>7, <1>13, <1>14, <1>15, <1>16, <1>17, <1>18 DEF Still

LEMMA StillStands == ASSUME TypeOK, Still PROVE Stands
  <1>0. UNCHANGED log
    BY StillWhat
  <1>1. ASSUME UNCHANGED state PROVE Stands
    BY <1>0, <1>1 DEF Stands
  <1>2. ASSUME NEW i \in Node, \A j \in Node \ {i} : state'[j] = state[j],
               state'[i] # "CANDIDATE" \/ current_term'[i] > current_term[i]
        PROVE  Stands
    BY <1>0, <1>2 DEF Stands
  <1>3. ASSUME NEW i \in Node, NEW l, StepDown(i, l) PROVE Stands
    <2>1. state'[i] # "CANDIDATE" /\ \A j \in Node \ {i} : state'[j] = state[j]
      BY <1>3 DEF StepDown, TypeOK, NodeTypeOK
    <2> QED BY <1>2, <2>1
  <1>4. ASSUME NEW i \in Node, StartElection(i) PROVE Stands
    <2>1. /\ current_term'[i] = current_term[i] + 1 /\ current_term[i] \in Nat
          /\ \A j \in Node \ {i} : state'[j] = state[j]
      BY <1>4 DEF StartElection, TypeOK, NodeTypeOK
    <2>2. current_term'[i] > current_term[i]
      BY <2>1
    <2> QED BY <1>2, <2>1, <2>2
  <1>5. ASSUME NEW i \in Node, CheckElection(i) PROVE Stands
    <2>1. CASE Elected(i)
      <3>1. state'[i] # "CANDIDATE" /\ \A j \in Node \ {i} : state'[j] = state[j]
        BY <1>5, <2>1 DEF CheckElection, TypeOK, NodeTypeOK
      <3> QED BY <1>2, <3>1
    <2>2. CASE ~Elected(i)
      BY <1>1, <1>5, <2>2 DEF CheckElection
    <2> QED BY <2>1, <2>2
  <1>6. ASSUME NEW m \in vote_requests, HandleRequestVote(m) PROVE Stands
    <2>1. m.to \in Node
      BY DEF TypeOK, CallTypeOK, VoteRequest
    <2> QED BY <1>1, <1>3, <1>6, <2>1 DEF HandleRequestVote, roleVars
  <1>7. ASSUME NEW i \in Node, LeaseTimeout(i) PROVE Stands
    BY <1>3, <1>7 DEF LeaseTimeout
  <1>8. ASSUME NEW i \in Node, SendHeartbeats(i) PROVE Stands
    BY <1>1, <1>8 DEF SendHeartbeats
  <1>9. CASE \E t \in vote_tasks : SendRequestVote(t)
    BY <1>1, <1>9 DEF SendRequestVote, roleVars
  <1>10. CASE \/ \E r \in vote_replies : ReceiveVote(r)
              \/ \E r \in append_replies : ReceiveAppendReply(r)
    BY <1>1, <1>10 DEF ReceiveVote, ReceiveAppendReply
  <1>11. CASE \/ UNCHANGED vars \/ VoteCallFails \/ AppendCallFails
              \/ \E v \in Value : ClientWake(v)
    BY <1>1, <1>11 DEF vars, VoteCallFails, AppendCallFails, ClientWake, roleVars
  <1> QED BY <1>4, <1>5, <1>6, <1>7, <1>8, <1>9, <1>10, <1>11 DEF Still

LEMMA StillSafe ==
    ASSUME Moves, Orderly, LeaderIsElected', late' = {},
           NEW T \in SUBSET Seq(Entry), NEW A \in SUBSET Ack, SafeWith(T, A), Still
    PROVE  SafeWith(T, A)'
  <1>1. /\ TypeOK /\ TypeOK' /\ OneVotePerTerm' /\ Candidates /\ grants \subseteq grants'
        /\ \A i \in Node : current_term'[i] >= current_term[i]
        /\ RequestsLed
    BY DEF Moves, VoteInv, Orderly
  <1>2. /\ UNCHANGED log
        /\ \A j \in Node : \/ disk'[j].log = log[j]
                           \/ disk'[j] = disk[j] /\ current_term'[j] = current_term[j]
        /\ \A m \in append_requests' : \E n \in append_requests : SameCall(m, n)
    BY <1>1, StillWhat
  <1>3. /\ TreeInv(T) /\ AckInv(T, A) /\ Votes(T, A) /\ Asked(T) /\ Tasks
        /\ RequestsInv(T, A) /\ Committed(T, A) /\ CallsInv(A)
    BY DEF SafeWith, BallotsInv
  <1>4. TreeInv(T)'
    BY <1>1, <1>2, <1>3, TreeStill
  <1>5. Votes(T, A)'
    <2>1. CASE UNCHANGED grants
      BY <1>2, <1>3, <2>1, VotesStill
    <2>2. CASE \E i \in Node : StartElection(i)
      BY <1>3, <2>2, VotesStartElection
    <2>3. CASE \E m \in vote_requests : HandleRequestVote(m)
      BY <1>3, <2>3, VotesHandleRequestVote
    <2> QED BY <1>1, <2>1, <2>2, <2>3, StillMore
  <1>6. Asked(T)'
    <2>1. CASE \E t \in vote_tasks : SendRequestVote(t)
      BY <1>3, <2>1, AskedSends
    <2>2. CASE \A m \in vote_requests' : \E n \in vote_requests : SameAsk(m, n)
      BY <1>2, <1>3, <2>2, AskedStill
    <2> QED BY <1>1, <2>1, <2>2, StillMore
  <1>7. RequestsInv(T, A)'
    BY <1>1, <1>2, <1>3, RequestsStill
  <1>8. Committed(T, A)'
    <2>1. CASE UNCHANGED commit_length
      BY <1>2, <1>3, <2>1, CommittedStill
    <2>2. CASE \E r \in append_replies : ReceiveAppendReply(r)
      BY <1>3, <2>2, CommittedReply
    <2> QED BY <1>1, <2>1, <2>2, StillMore
  <1>9. CallsMove(A)
    BY <1>1, <1>3, CallsStill
  <1>10. ClientsMove(T, A)
    <2>1. CASE UNCHANGED client
      BY <2>1 DEF ClientsMove
    <2>2. CASE \E v \in Value : ClientWake(v)
      BY <1>1, <1>3, <2>2, ClientsWake
    <2> QED BY <1>1, <2>1, <2>2, StillMore
  <1>11. Stands /\ NewTasks
    BY <1>1, StillMore, StillStands
  <1>12. \A j \in Node : disk'[j].log \in {log[j], disk[j].log}
    BY <1>2
  <1> QED BY <1>1, <1>2, <1>4, <1>5, <1>6, <1>7, <1>8, <1>9, <1>10, <1>11, <1>12, SameLogs

LEMMA SendSafe ==
    ASSUME Moves, Orderly, late' = {},
           NEW T \in SUBSET Seq(Entry), NEW A \in SUBSET Ack, SafeWith(T, A),
           NEW t \in append_tasks, SendAppendEntries(t)
    PROVE  SafeWith(T, A)'
  <1>1. /\ TypeOK /\ TypeOK' /\ OneVotePerTerm' /\ Candidates
        /\ \A i \in Node : current_term'[i] >= current_term[i]
        /\ RequestsLed /\ LeaderIsElected
    BY DEF Moves, VoteInv, Orderly, BallotInv
  <1>2. UNCHANGED <<log, commit_length, disk, grants, vote_tasks, vote_requests, client,
                    state>>
    BY DEF SendAppendEntries, durableVars, electionRpc, roleVars
  <1>3. /\ TreeInv(T) /\ AckInv(T, A) /\ Votes(T, A) /\ Asked(T)
        /\ RequestsInv(T, A) /\ Committed(T, A)
    BY DEF SafeWith, BallotsInv
  <1>4. TreeInv(T)'
    BY <1>1, <1>3, TreeSends
  <1>5. Votes(T, A)'
    BY <1>2, <1>3, VotesStill
  <1>6. Asked(T)'
    <2>1. \A m \in vote_requests' : \E n \in vote_requests : SameAsk(m, n)
      BY <1>2 DEF SameAsk
    <2> QED BY <1>2, <1>3, <2>1, AskedStill
  <1>7. RequestsInv(T, A)'
    BY <1>1, <1>3, RequestsSend
  <1>8. Committed(T, A)'
    BY <1>2, <1>3, CommittedStill
  <1>9. CallsMove(A)
    BY <1>1, CallsSend
  <1>10. ClientsMove(T, A)
    BY <1>2 DEF ClientsMove
  <1>11. Stands /\ NewTasks
    BY <1>2 DEF Stands, NewTasks
  <1> QED BY <1>1, <1>2, <1>4, <1>5, <1>6, <1>7, <1>8, <1>9, <1>10, <1>11, SameLogs

\* A restarted node has its log, as no exception ever kept it from the disk.
LEMMA RestartSafe ==
    ASSUME Moves, Orderly,
           NEW T \in SUBSET Seq(Entry), NEW A \in SUBSET Ack, SafeWith(T, A),
           NEW i \in Node, Restart(i)
    PROVE  SafeWith(T, A)'
  <1>1. /\ TypeOK /\ TypeOK' /\ OneVotePerTerm /\ OneVotePerTerm' /\ Candidates /\ DiskInv
        /\ \A j \in Node : current_term'[j] >= current_term[j]
        /\ RequestsLed
    BY DEF Moves, VoteInv, Orderly
  <1>2. UNCHANGED <<disk, grants>> /\ vote_tasks' \subseteq vote_tasks
    BY DEF Restart
  <1>3. /\ TreeInv(T) /\ AckInv(T, A) /\ Votes(T, A) /\ Asked(T)
        /\ RequestsInv(T, A) /\ Committed(T, A) /\ OnDisk
    BY DEF SafeWith, BallotsInv
  <1>4. UNCHANGED <<log, commit_length>>
    <2>1. log \in [Node -> Seq(Entry)] /\ commit_length \in [Node -> Nat]
      BY <1>1 DEF TypeOK, NodeTypeOK
    <2>2. disk[i].log = log[i] /\ disk[i].commit = commit_length[i]
      BY <1>1, <1>3 DEF OnDisk, DiskInv
    <2>3. /\ log' = [log EXCEPT ![i] = disk[i].log]
          /\ commit_length' = [commit_length EXCEPT ![i] = disk[i].commit]
      BY DEF Restart
    <2> QED BY <2>1, <2>2, <2>3
  <1>5. TreeInv(T)'
    BY <1>1, <1>3, TreeRestarts
  <1>6. Votes(T, A)'
    BY <1>2, <1>3, <1>4, VotesStill
  <1>7. Asked(T)'
    <2>1. \A m \in vote_requests' : \E n \in vote_requests : SameAsk(m, n)
      <3> SUFFICES ASSUME NEW m \in vote_requests'
                   PROVE  \E n \in vote_requests : SameAsk(m, n)
        OBVIOUS
      <3>1. PICK n \in vote_requests : m = [n EXCEPT !.live = n.live /\ n.from # i]
        BY DEF Restart
      <3>2. n \in VoteRequest
        BY <1>1 DEF TypeOK, CallTypeOK
      <3> QED BY <3>1, <3>2 DEF SameAsk, VoteRequest
    <2> QED BY <1>3, <1>4, <2>1, AskedStill
  <1>8. RequestsInv(T, A)'
    <2>1. \A m \in append_requests' : \E n \in append_requests : SameCall(m, n)
      BY <1>1, RestartedCallsSame
    <2> QED BY <1>1, <1>3, <1>4, <2>1, RequestsStill
  <1>9. Committed(T, A)'
    BY <1>3, <1>4, CommittedStill
  <1>10. CallsMove(A)
    BY <1>1, CallsRestart
  <1>11. ClientsMove(T, A)
    <2>1. \A v \in Value :
              client'[v] \in {client[v], [client[v] EXCEPT !.status = "failed"]}
      BY DEF Restart
    <2>2. \A v \in Value : client[v] \in [status : {"new", "waiting", "ok", "failed"},
                                          node : Node \cup {None}, term : Nat]
      BY <1>1 DEF TypeOK, OtherTypeOK
    <2> QED BY <2>1, <2>2 DEF ClientsMove
  <1>12. Stands
    <2>1. state' = [state EXCEPT ![i] = "FOLLOWER"] /\ state \in [Node -> State]
      BY <1>1 DEF Restart, TypeOK, NodeTypeOK
    <2>2. state'[i] # "CANDIDATE" /\ \A j \in Node \ {i} : state'[j] = state[j]
      BY <2>1
    <2> QED BY <1>4, <2>2 DEF Stands
  <1>13. NewTasks
    BY <1>2 DEF NewTasks
  <1> QED BY <1>1, <1>2, <1>4, <1>5, <1>6, <1>7, <1>8, <1>9, <1>10, <1>11, <1>12, <1>13,
             SameLogs

\* A node that handles AppendEntries was a candidate or is none.
LEMMA ReceiverStands ==
    ASSUME TypeOK, NEW m \in append_requests, HandleAppendEntries(m)
    PROVE  /\ \A j \in Node : state'[j] = "CANDIDATE" => state[j] = "CANDIDATE"
           /\ Accepts(m) => state'[m.to] # "CANDIDATE"
  <1>1. /\ m.to \in Node /\ m.term \in Nat /\ current_term[m.to] \in Nat
        /\ state \in [Node -> State]
    BY DEF TypeOK, CallTypeOK, AppendRequest, NodeTypeOK
  <1>2. CASE m.term >= current_term[m.to]
    <2>1. m.term > current_term[m.to] \/ m.term = current_term[m.to]
      BY <1>1, <1>2
    <2>2. state' = [state EXCEPT ![m.to] = "FOLLOWER"]
      BY <1>1, <2>1 DEF HandleAppendEntries, StepDown
    <2> QED BY <1>1, <2>2
  <1>3. CASE ~(m.term >= current_term[m.to])
    <2>1. ~(m.term > current_term[m.to]) /\ m.term # current_term[m.to]
      BY <1>1, <1>3
    <2>2. UNCHANGED state /\ ~Accepts(m)
      BY <1>3, <2>1 DEF HandleAppendEntries, Accepts, roleVars
    <2> QED BY <2>2
  <1> QED BY <1>2, <1>3

\* An AppendEntries that is refused changes no log.
LEMMA RefuseSafe ==
    ASSUME Moves, Orderly,
           NEW T \in SUBSET Seq(Entry), NEW A \in SUBSET Ack, SafeWith(T, A),
           NEW m \in append_requests, HandleAppendEntries(m), ~Accepts(m)
    PROVE  SafeWith(T, A)'
  <1>1. /\ TypeOK /\ TypeOK' /\ OneVotePerTerm /\ OneVotePerTerm' /\ Candidates
        /\ \A j \in Node : current_term'[j] >= current_term[j]
        /\ RequestsLed
    BY DEF Moves, VoteInv, Orderly
  <1>2. UNCHANGED <<vote_tasks, vote_requests, client>>
    BY DEF HandleAppendEntries, electionRpc, otherVars
  <1>3. /\ TreeInv(T) /\ AckInv(T, A) /\ Votes(T, A) /\ Asked(T)
        /\ RequestsInv(T, A) /\ Committed(T, A) /\ OnDisk
    BY DEF SafeWith, BallotsInv
  <1>4. /\ m.to \in Node /\ log' = [log EXCEPT ![m.to] = Received(m)]
        /\ UNCHANGED grants /\ append_requests' = append_requests \ {m}
        /\ \A j \in Node \ {m.to} : disk'[j] = disk[j]
        /\ \/ disk'[m.to].log = log'[m.to]
           \/ disk'[m.to].log = disk[m.to].log
    BY <1>1, ReceivesWhat
  <1>5. UNCHANGED log
    <2>1. log \in [Node -> Seq(Entry)]
      BY <1>1 DEF TypeOK, NodeTypeOK
    <2> QED BY <1>4, <2>1 DEF Received
  <1>6. UNCHANGED commit_length
    <2>1. commit_length \in [Node -> Nat]
      BY <1>1 DEF TypeOK, NodeTypeOK
    <2>2. commit_length' = [commit_length EXCEPT ![m.to] = @]
      BY DEF HandleAppendEntries, Accepts
    <2> QED BY <2>1, <2>2
  <1>7. TreeInv(T)'
    BY <1>1, <1>3, TreeReceives
  <1>8. Votes(T, A)'
    BY <1>3, <1>4, <1>5, VotesStill
  <1>9. Asked(T)'
    <2>1. \A n \in vote_requests' : \E q \in vote_requests : SameAsk(n, q)
      BY <1>2 DEF SameAsk
    <2> QED BY <1>3, <1>5, <2>1, AskedStill
  <1>10. RequestsInv(T, A)'
    <2>1. \A n \in append_requests' : \E q \in append_requests : SameCall(n, q)
      BY <1>4 DEF SameCall, SameRequest
    <2> QED BY <1>1, <1>3, <1>5, <2>1, RequestsStill
  <1>11. Committed(T, A)'
    BY <1>3, <1>5, <1>6, CommittedStill
  <1>12. CallsMove(A)
    <2>1. PICK X \in T : Sent(T, A, m, X)
      BY <1>3 DEF RequestsInv
    <2>2. Carries(m, X) /\ X \in Seq(Entry)
      BY <2>1 DEF Sent
    <2> QED BY <1>1, <2>2, CallsReceive
  <1>13. ClientsMove(T, A)
    BY <1>2 DEF ClientsMove
  <1>14. \A j \in Node : disk'[j].log \in {log[j], disk[j].log}
    BY <1>4, <1>5
  <1>15. Stands /\ NewTasks
    BY <1>1, <1>2, <1>5, ReceiverStands DEF Stands, NewTasks
  <1> QED BY <1>1, <1>2, <1>5, <1>7, <1>8, <1>9, <1>10, <1>11, <1>12, <1>13, <1>14, <1>15,
             SameLogs

\* After a step there are such sets again, and they have what was in these.
Grown(T, A) ==
    \E U \in SUBSET Seq(Entry), B \in SUBSET Ack :
        T \subseteq U /\ A \subseteq B /\ SafeWith(U, B)'

LEMMA AcceptSafe ==
    ASSUME Moves, Orderly,
           NEW T \in SUBSET Seq(Entry), NEW A \in SUBSET Ack, SafeWith(T, A),
           NEW m \in append_requests, HandleAppendEntries(m), Accepts(m)
    PROVE  Grown(T, A)
  <1>1. /\ TypeOK /\ TypeOK' /\ OneVotePerTerm /\ OneVotePerTerm' /\ Candidates
        /\ \A j \in Node : current_term'[j] >= current_term[j]
        /\ RequestsLed
    BY DEF Moves, VoteInv, Orderly
  <1>2. UNCHANGED <<vote_tasks, client>>
    BY DEF HandleAppendEntries, electionRpc, otherVars
  <1>3. /\ TreeInv(T) /\ AckInv(T, A) /\ Votes(T, A) /\ Asked(T) /\ Tasks
        /\ RequestsInv(T, A) /\ Committed(T, A) /\ OnDisk /\ CallsInv(A) /\ ClientInv(T, A)
    BY DEF SafeWith, BallotsInv
  <1>4. PICK X \in T : Sent(T, A, m, X)
    BY <1>3 DEF RequestsInv
  <1>5. PICK a : a = GivenAck(m, X)
    OBVIOUS
  <1>6. PICK B : B = A \cup {a}
    OBVIOUS
  <1>7. B \in SUBSET Ack /\ AcksGrow(A, B) /\ AckInv(T, B)'
    <2>1. /\ A \cup {a} \in SUBSET Ack /\ AcksGrow(A, A \cup {a})
          /\ AckInv(T, A \cup {a})'
      BY <1>1, <1>3, <1>4, <1>5, AckReceives
    <2> QED BY <1>6, <2>1
  <1>8. A \subseteq B
    BY <1>6
  <1>9. TreeInv(T)'
    BY <1>1, <1>3, TreeReceives
  <1>10. Votes(T, B)'
    <2>1. \A b \in B \ A : b.node = m.to /\ b.term = m.term
      BY <1>5, <1>6 DEF GivenAck
    <2> QED BY <1>1, <1>3, <1>7, <2>1, VotesReceive
  <1>11. Asked(T)' /\ Tasks'
    <2>1. Asked(T)'
      BY <1>1, <1>3, AskedReceives
    <2>2. Stands
      <3>1. \A j \in Node \ {m.to} : log'[j] = log[j]
        BY <1>1, ReceivesWhat
      <3> QED BY <1>1, <3>1, ReceiverStands DEF Stands
    <2>3. Tasks'
      BY <1>2, <1>3, <2>2, TasksKept DEF NewTasks
    <2> QED BY <2>1, <2>3
  <1>12. RequestsInv(T, B)'
    BY <1>1, <1>3, <1>7, RequestsReceive
  <1>13. Committed(T, B)' /\ disk'[m.to].log = log'[m.to]
    BY <1>3, <1>4, <1>8, CommittedReceives
  <1>14. OnDisk'
    <2>1. \A j \in Node \ {m.to} : disk'[j] = disk[j] /\ log'[j] = log[j]
      BY <1>1, ReceivesWhat
    <2> QED BY <1>3, <1>13, <2>1 DEF OnDisk
  <1>15. CallsInv(B)'
    <2>1. Carries(m, X) /\ X \in Seq(Entry) /\ GivenAck(m, X) \in B
      BY <1>4, <1>5, <1>6 DEF Sent
    <2>2. CallsMove(B)
      BY <1>1, <2>1, CallsReceive
    <2> QED BY <1>1, <1>3, <1>8, <2>2, CallsKept
  <1>16. ClientInv(T, B)'
    <2>1. ClientsMove(T, B)
      BY <1>2 DEF ClientsMove
    <2> QED BY <1>3, <1>8, <2>1, ClientsKept
  <1>17. SafeWith(T, B)'
    BY <1>7, <1>9, <1>10, <1>11, <1>12, <1>13, <1>14, <1>15, <1>16 DEF SafeWith, BallotsInv
  <1> QED BY <1>7, <1>8, <1>17 DEF Grown, Ack

LEMMA WriteSafe ==
    ASSUME Moves, Orderly, late' = {},
           NEW T \in SUBSET Seq(Entry), NEW A \in SUBSET Ack, SafeWith(T, A),
           NEW i \in Node, AcquireLease(i) \/ \E v \in Value : ServeClientSet(i, v)
    PROVE  Grown(T, A)
  <1>1. /\ TypeOK /\ OneVotePerTerm /\ BallotInv /\ RequestsLed
    BY DEF Moves, VoteInv, Orderly
  <1>2. Winner(i) /\ \E v \in Value \cup {None} : Appends(i, v)
    BY <1>1, WritesWhat
  <1>3. PICK v \in Value \cup {None} : Appends(i, v)
    BY <1>2
  <1>4. /\ UNCHANGED <<state, current_term, acked_length, append_requests, append_replies,
                       vote_tasks, vote_requests, commit_length>>
        /\ state[i] = "LEADER"
    <2>1. CASE AcquireLease(i)
      BY <2>1 DEF AcquireLease, leaderVars, electionRpc, InTime
    <2>2. ASSUME NEW w \in Value, ServeClientSet(i, w)
          PROVE  /\ UNCHANGED <<state, current_term, acked_length, append_requests,
                                append_replies, vote_tasks, vote_requests, commit_length>>
                 /\ state[i] = "LEADER"
      BY <2>2 DEF ServeClientSet, roleVars, leaderVars, electionRpc, appendRpc
    <2> QED BY <2>1, <2>2
  <1>5. \A w \in Value : client'[w].status = "ok" =>
            client[w].status = "ok" /\ client'[w].term = client[w].term
    <2>1. CASE AcquireLease(i)
      BY <2>1 DEF AcquireLease
    <2>2. ASSUME NEW w \in Value, ServeClientSet(i, w)
          PROVE  \A u \in Value : client'[u].status = "ok" =>
                     client[u].status = "ok" /\ client'[u].term = client[u].term
      <3>1. client' = [client EXCEPT ![w] = [status |-> "waiting", node |-> i,
                                             term |-> current_term[i]]]
        BY <2>2 DEF ServeClientSet
      <3>2. client'[w].status = "waiting"
        BY <1>1, <3>1 DEF TypeOK, OtherTypeOK
      <3>3. \A u \in Value \ {w} : client'[u] = client[u]
        BY <1>1, <3>1 DEF TypeOK, OtherTypeOK
      <3> QED BY <3>2, <3>3
    <2> QED BY <2>1, <2>2
  <1>6. /\ TreeInv(T) /\ AckInv(T, A) /\ Votes(T, A) /\ Asked(T) /\ Tasks
        /\ RequestsInv(T, A) /\ Committed(T, A) /\ OnDisk /\ CallsInv(A) /\ ClientInv(T, A)
    BY DEF SafeWith, BallotsInv
  <1>7. PICK N : N = log'[i]
    OBVIOUS
  <1>8. PICK a : a = OwnAck(i, N)
    OBVIOUS
  <1>u. PICK U : U = T \cup {N}
    OBVIOUS
  <1>b. PICK B : B = A \cup {a}
    OBVIOUS
  <1>9. U \in SUBSET Seq(Entry) /\ TreeInv(U)'
    <2>1. T \cup {N} \in SUBSET Seq(Entry) /\ TreeInv(T \cup {N})'
      BY <1>1, <1>2, <1>3, <1>6, <1>7, TreeAppends
    <2> QED BY <1>u, <2>1
  <1>10. B \in SUBSET Ack
    <2>1. Len(N) \in Nat /\ current_term[i] \in Nat
      BY <1>1, <1>3, <1>7, NewLog
    <2>2. A \cup {OwnAck(i, N)} \in SUBSET Ack
      BY <1>4, <2>1, OwnAckIs
    <2> QED BY <1>8, <1>b, <2>2
  <1>11. AckInv(U, B)'
    <2>1. AckInv(T \cup {N}, A \cup {a})'
      BY <1>2, <1>3, <1>6, <1>7, <1>8, AckWrites
    <2> QED BY <1>u, <1>b, <2>1
  <1>12. Votes(U, B)'
    <2>1. Votes(T \cup {N}, A \cup {a})'
      BY <1>2, <1>3, <1>6, <1>7, <1>8, VotesWrite
    <2> QED BY <1>u, <1>b, <2>1
  <1>13. Asked(U)' /\ Tasks'
    <2>1. Asked(T \cup {N})'
      BY <1>3, <1>4, <1>6, <1>7, AskedWrites
    <2>2. Stands
      <3>1. \A j \in Node \ {i} : log'[j] = log[j]
        BY <1>1, <1>3, <1>7, NewLog
      <3> QED BY <1>4, <3>1 DEF Stands
    <2>3. Tasks'
      BY <1>4, <1>6, <2>2, TasksKept DEF NewTasks
    <2> QED BY <1>u, <2>1, <2>3
  <1>14. RequestsInv(U, B)'
    <2>1. RequestsInv(T \cup {N}, A \cup {a})'
      BY <1>1, <1>2, <1>3, <1>6, <1>7, <1>8, RequestsWrite
    <2> QED BY <1>u, <1>b, <2>1
  <1>15. Committed(U, B)'
    <2>1. Committed(T \cup {N}, A \cup {a})'
      BY <1>3, <1>4, <1>6, <1>7, CommittedWrites
    <2> QED BY <1>u, <1>b, <2>1
  <1>16. OnDisk'
    <2>1. /\ disk'[i].log = N
          /\ \A j \in Node \ {i} : log'[j] = log[j] /\ disk'[j] = disk[j]
      BY <1>1, <1>3, <1>7, NewLog
    <2> QED BY <1>6, <1>7, <2>1 DEF OnDisk
  <1>17. T \subseteq U /\ A \subseteq B
    BY <1>u, <1>b
  <1>18. CallsInv(B)'
    <2>1. \A m \in append_requests' :
              \E n \in append_requests : SameCall(m, n) /\ (m.live => n.live)
      BY <1>4 DEF SameCall, SameRequest
    <2>2. CallsMove(B)
      BY <1>4, <2>1, CallsUntouched
    <2> QED BY <1>1, <1>6, <1>17, <2>2, CallsKept
  <1>19. ClientInv(U, B)'
    <2>1. ClientsMove(U, B)
      BY <1>5 DEF ClientsMove
    <2> QED BY <1>6, <1>17, <2>1, ClientsKept
  <1>20. SafeWith(U, B)'
    BY <1>9, <1>11, <1>12, <1>13, <1>14, <1>15, <1>16, <1>18, <1>19 DEF SafeWith, BallotsInv
  <1> QED BY <1>9, <1>10, <1>17, <1>20 DEF Grown, Ack

\* Votes are kept in a history that only grows.
LEMMA GrantsGrow == ASSUME TypeOK, [Next]_vars PROVE grants \subseteq grants'
  <1>1. CASE Still
    BY <1>1, StillWhat
  <1>2. ASSUME NEW i \in Node, AcquireLease(i) \/ Restart(i) \/ \E v \in Value : ServeClientSet(i, v)
        PROVE  UNCHANGED grants
    BY <1>2 DEF AcquireLease, Restart, ServeClientSet, otherVars
  <1>3. ASSUME NEW t \in append_tasks, SendAppendEntries(t) PROVE UNCHANGED grants
    BY <1>3 DEF SendAppendEntries
  <1>4. ASSUME NEW m \in append_requests, HandleAppendEntries(m) PROVE UNCHANGED grants
    BY <1>4, ReceivesWhat
  <1> QED BY <1>1, <1>2, <1>3, <1>4 DEF Next, Still

\* What is true of every step holds of this one.
LEMMA NextMoves ==
    ASSUME TypeOK, VoteInv, Candidates, [Next]_vars
    PROVE  Moves
  <1>1. TypeOK' /\ VoteInv' /\ Candidates'
    BY NextType, NextVoteInv, NextCandidates
  <1>2. grants \subseteq grants' /\ \A i \in Node : current_term'[i] >= current_term[i]
    BY GrantsGrow, NextTermsRise
  <1> QED BY <1>1, <1>2 DEF Moves

\* Every step keeps what is chosen chosen: logs and acknowledgements only add up.
LEMMA NextGrows ==
    ASSUME TypeOK, VoteInv, Orderly, Candidates, [Next]_vars, late' = {},
           NEW T \in SUBSET Seq(Entry), NEW A \in SUBSET Ack, SafeWith(T, A)
    PROVE  Grown(T, A)
  <1>1. Moves
    BY NextMoves
  <1>2. BallotInv'
    BY NextBallot DEF Orderly
  <1>3. LeaderIsElected'
    BY <1>2 DEF BallotInv
  <1>5. CASE Still
    <2>1. SafeWith(T, A)'
      BY <1>1, <1>3, <1>5, StillSafe
    <2> QED BY <2>1 DEF Grown, Ack
  <1>6. ASSUME NEW i \in Node, AcquireLease(i) \/ \E v \in Value : ServeClientSet(i, v)
        PROVE  Grown(T, A)
    BY <1>1, <1>6, WriteSafe
  <1>7. ASSUME NEW t \in append_tasks, SendAppendEntries(t)
        PROVE  Grown(T, A)
    <2>1. SafeWith(T, A)'
      BY <1>1, <1>7, SendSafe
    <2> QED BY <2>1 DEF Grown, Ack
  <1>8. ASSUME NEW m \in append_requests, HandleAppendEntries(m)
         PROVE  Grown(T, A)
    <2>1. CASE Accepts(m)
      BY <1>1, <1>8, <2>1, AcceptSafe
    <2>2. CASE ~Accepts(m)
      <3>1. SafeWith(T, A)'
        BY <1>1, <1>8, <2>2, RefuseSafe
      <3> QED BY <3>1 DEF Grown, Ack
    <2> QED BY <2>1, <2>2
  <1>9. ASSUME NEW i \in Node, Restart(i)
         PROVE  Grown(T, A)
    <2>1. SafeWith(T, A)'
      BY <1>1, <1>9, RestartSafe
    <2> QED BY <2>1 DEF Grown, Ack
  <1> QED BY <1>5, <1>6, <1>7, <1>8, <1>9 DEF Next, Still

\* Nothing is late after the step only if nothing was before it.
LEMMA StillTimely ==
    ASSUME TimelyInv, [Next]_vars, late' = {}
    PROVE  late = {} /\ Orderly
  <1>1. late = {}
    BY LateGrows
  <1> QED BY <1>1 DEF TimelyInv, Orderly

LEMMA NextSafe ==
    ASSUME TypeOK, VoteInv, TimelyInv, Candidates, [Next]_vars, SafeInv
    PROVE  SafeInv'
  <1> SUFFICES ASSUME late' = {}
               PROVE  \E U \in SUBSET Seq(Entry), B \in SUBSET Ack : SafeWith(U, B)'
    BY DEF SafeInv, Ack
  <1>0. late = {} /\ Orderly
    BY StillTimely
  <1>1. PICK T \in SUBSET Seq(Entry) : \E A \in SUBSET Ack : SafeWith(T, A)
    BY <1>0 DEF SafeInv
  <1>2. PICK A \in SUBSET Ack : SafeWith(T, A)
    BY <1>1
  <1>3. Grown(T, A)
    BY <1>0, <1>2, NextGrows
  <1> QED BY <1>3 DEF Grown

\* At first nothing is written, acknowledged or asked.
LEMMA InitSafe == ASSUME Init PROVE SafeInv
  <1>1. TreeInv({<<>>}) /\ {<<>>} \in SUBSET Seq(Entry)
    BY InitTree
  <1>2. \A i \in Node : /\ log[i] = <<>> /\ disk[i].log = <<>> /\ commit_length[i] = 0
                        /\ acked_length[i] = Zeros /\ state[i] = "FOLLOWER"
    BY DEF Init, Saved, Zeros
  <1>3. /\ append_requests = {} /\ vote_requests = {} /\ vote_tasks = {}
        /\ append_replies = {} /\ grants = {}
        /\ \A v \in Value : client[v].status = "new"
    BY DEF Init
  <1>4. Len(<<>>) = 0
    BY EmptySeq
  <1>5. AckInv({<<>>}, {})
    BY <1>2, <1>4 DEF AckInv, AcksWon, Complete, Sorted, Reached, Retained, Own, Below
  <1>6. BallotsInv({<<>>}, {}) /\ RequestsInv({<<>>}, {})
    BY <1>3 DEF BallotsInv, Votes, Asked, Tasks, RequestsInv
  <1>7. Committed({<<>>}, {}) /\ OnDisk
    BY <1>2 DEF Committed, ChosenUpTo, OnDisk
  <1>8. CallsInv({})
    BY <1>2, <1>3 DEF CallsInv, RepliesTrue, CountsTrue, Open, Calling
  <1>9. ClientInv({<<>>}, {})
    BY <1>3 DEF ClientInv
  <1>10. SafeWith({<<>>}, {})
    BY <1>1, <1>5, <1>6, <1>7, <1>8, <1>9 DEF SafeWith
  <1> QED BY <1>1, <1>10 DEF SafeInv

\* As long as nothing is late there are the logs ever written and the acknowledgements
\* ever given, and what a majority acknowledged is in every log of a later term and in
\* every log that had it: raft.py:311-319, 367-412 and 415-431 together, with calls lost,
\* reordered or under way across terms, nodes that crash, and leaders that are deposed.
THEOREM ChosenStays == Spec => []SafeInv
  <1>1. TypeOK /\ VoteInv /\ TimelyInv /\ LogInv /\ SafeInv /\ [Next]_vars => SafeInv'
    BY NextSafe DEF LogInv
  <1>2. Init => SafeInv
    BY InitSafe
  <1>3. Spec => []TimelyInv
    BY BallotsKept
  <1>4. Spec => []LogInv
    BY LogsKept
  <1> QED BY <1>1, <1>2, <1>3, <1>4, TypeCorrect, VotesAgree, PTL DEF Spec

-----------------------------------------------------------------------------
(* What nodes and clients are promised. *)

\* Logs with entries of later terms have all that was chosen of earlier ones.
Inherited(T, A) ==
    \A L, M \in T : \A j \in 1..Len(L), k \in 1..Len(M) :
        L[j].term < M[k].term /\ Chosen(A, L[j].term, j) => Agree(L, M, j)
LEMMA CompleteInherits ==
    ASSUME NEW T, NEW A
    PROVE  /\ Complete(T, A) => Inherited(T, A)
           /\ Complete(T, A)' => Inherited(T, A)
  <1>1. ASSUME Complete(T, A) PROVE Inherited(T, A)
    BY <1>1, ChosenKept DEF Complete, Inherited
  <1>2. ASSUME NEW L, NEW M, NEW j, Chosen(A, L[j].term, j), Kept(A, L, j, M)'
        PROVE  Agree(L, M, j)
    <2> DEFINE S == {n \in Node : Has(A, n, L[j].term, j)}
               R == {n \in Node : current_term'[n] > L[j].term /\ ~Has(A, n, L[j].term, j)}
    <2> SUFFICES ASSUME Blocked(A, L[j].term, j)' PROVE FALSE
      BY <1>2 DEF Kept, Agree
    <2>1. Majority(S) /\ Majority(R) /\ S \in SUBSET Node /\ R \in SUBSET Node
      BY <1>2 DEF Chosen, Blocked, Majority, Has
    <2> HIDE DEF S, R
    <2>2. S \cap R # {}
      BY <2>1, MajoritiesMeet
    <2> QED BY <2>2 DEF S, R
  <1>3. ASSUME Complete(T, A)' PROVE Inherited(T, A)
    BY <1>2, <1>3 DEF Complete, Inherited
  <1> QED BY <1>1, <1>3

\* Two chosen logs agree as far as both are chosen.
LEMMA ChosenAgree ==
    ASSUME NEW T \in SUBSET Seq(Entry), NEW A, Lineage(T), Inherited(T, A),
           NEW L \in T, NEW M \in T, NEW j \in 1..Len(L), NEW k \in 1..Len(M),
           Chosen(A, L[j].term, j), Chosen(A, M[k].term, k), NEW p \in Nat, p <= j, p <= k
    PROVE  Agree(L, M, p)
  <1>1. L \in Seq(Entry) /\ Len(L) \in Nat /\ j \in Nat /\ L[j].term \in Nat
    BY LogFacts
  <1>2. M \in Seq(Entry) /\ Len(M) \in Nat /\ k \in Nat /\ M[k].term \in Nat
    BY LogFacts
  <1>3. CASE L[j].term < M[k].term
    <2>1. Agree(L, M, j)
      BY <1>3 DEF Inherited
    <2> QED BY <1>1, <1>2, <2>1, AgreeParts
  <1>4. CASE M[k].term < L[j].term
    <2>1. Agree(M, L, k)
      BY <1>4 DEF Inherited
    <2> QED BY <1>1, <1>2, <2>1, AgreeParts
  <1>5. CASE L[j].term = M[k].term
    <2>1. CASE j <= k
      <3>1. Agree(L, M, j)
        BY <1>5, <2>1 DEF Lineage
      <3> QED BY <1>1, <1>2, <3>1, AgreeParts
    <2>2. CASE k <= j
      <3>1. Agree(M, L, k)
        BY <1>5, <2>2 DEF Lineage
      <3> QED BY <1>1, <1>2, <3>1, AgreeParts
    <2> QED BY <1>1, <1>2, <2>1, <2>2
  <1>6. L[j].term < M[k].term \/ M[k].term < L[j].term \/ L[j].term = M[k].term
    <2>1. \A t, u \in Nat : t < u \/ u < t \/ t = u
      OBVIOUS
    <2> QED BY <1>1, <1>2, <2>1, Zenon
  <1> QED BY <1>3, <1>4, <1>5, <1>6

\* Two logs agree as far as both were chosen.
LEMMA CommittedAgree ==
    ASSUME NEW T \in SUBSET Seq(Entry), NEW A, Lineage(T), Inherited(T, A),
           NEW L \in Seq(Entry), NEW M \in Seq(Entry), NEW c \in Nat, NEW d \in Nat,
           NEW t, NEW u, ChosenUpTo(T, A, L, c, t), ChosenUpTo(T, A, M, d, u),
           NEW k \in Nat \ {0}, k <= c, k <= d
    PROVE  Agree(L, M, k)
  <1>1. c # 0 /\ d # 0
    OBVIOUS
  <1>2. PICK X \in T : \E j \in 1..Len(X) :
            Chosen(A, X[j].term, j) /\ c <= j /\ Agree(X, L, c)
    BY <1>1 DEF ChosenUpTo
  <1>3. PICK j \in 1..Len(X) : Chosen(A, X[j].term, j) /\ c <= j /\ Agree(X, L, c)
    BY <1>2
  <1>4. PICK Y \in T : \E n \in 1..Len(Y) :
            Chosen(A, Y[n].term, n) /\ d <= n /\ Agree(Y, M, d)
    BY <1>1 DEF ChosenUpTo
  <1>5. PICK n \in 1..Len(Y) : Chosen(A, Y[n].term, n) /\ d <= n /\ Agree(Y, M, d)
    BY <1>4
  <1>6. Len(X) \in Nat /\ Len(Y) \in Nat /\ X \in Seq(Entry) /\ Y \in Seq(Entry)
    BY LogFacts
  <1>7. k <= j /\ k <= n
    <2>1. j \in Nat /\ n \in Nat
      BY <1>6
    <2>2. c <= j /\ d <= n
      BY <1>3, <1>5
    <2> QED BY <2>1, <2>2
  <1>8. Agree(X, Y, k)
    BY <1>3, <1>5, <1>7, ChosenAgree
  <1>9. Agree(L, X, k)
    BY <1>3, <1>6, AgreeParts
  <1>10. Agree(Y, M, k)
    BY <1>5, <1>6, AgreeParts
  <1> QED BY <1>8, <1>9, <1>10, AgreeChain

\* Two nodes that committed an index committed the same entry there, for any number
\* of nodes, terms, calls, failures and crashes, as long as nothing is late.
THEOREM OneHistory == Spec => []StateMachineSafety
  <1>1. TypeOK /\ SafeInv => StateMachineSafety
    <2> SUFFICES ASSUME TypeOK, SafeInv, late = {}, NEW i \in Node, NEW j \in Node,
                        NEW k \in 1..Min2(commit_length[i], commit_length[j])
                 PROVE  k <= Len(log[i]) /\ k <= Len(log[j]) /\ log[i][k] = log[j][k]
      BY DEF StateMachineSafety
    <2>1. PICK T \in SUBSET Seq(Entry) : \E A \in SUBSET Ack : SafeWith(T, A)
      BY DEF SafeInv
    <2>2. PICK A \in SUBSET Ack : SafeWith(T, A)
      BY <2>1
    <2>3. /\ log[i] \in Seq(Entry) /\ commit_length[i] \in Nat
          /\ log[j] \in Seq(Entry) /\ commit_length[j] \in Nat
      BY DEF TypeOK, NodeTypeOK
    <2>4. k \in Nat \ {0} /\ k <= commit_length[i] /\ k <= commit_length[j]
      BY <2>3 DEF Min2
    <2>5. /\ ChosenUpTo(T, A, log[i], commit_length[i], current_term[i])
          /\ ChosenUpTo(T, A, log[j], commit_length[j], current_term[j])
      BY <2>2 DEF SafeWith, Committed
    <2>6. Lineage(T) /\ Inherited(T, A)
      BY <2>2, CompleteInherits DEF SafeWith, TreeInv, AckInv
    <2>7. Agree(log[i], log[j], k)
      BY <2>3, <2>4, <2>5, <2>6, CommittedAgree
    <2> QED BY <2>4, <2>7 DEF Agree
  <1> QED BY <1>1, ChosenStays, TypeCorrect, PTL

\* A SET that was answered with success is on the disks of a majority, as long as nothing
\* is late, for any number of nodes, terms, calls, failures and crashes.
THEOREM SetsDurable == Spec => []AckedDurable
  <1>1. TypeOK /\ SafeInv => AckedDurable
    <2> SUFFICES ASSUME TypeOK, SafeInv, late = {},
                        NEW v \in Value, client[v].status = "ok"
                 PROVE  Majority({n \in Node : \E k \in 1..Len(disk[n].log) :
                            disk[n].log[k] = [term |-> client[v].term, value |-> v]})
      BY DEF AckedDurable
    <2>1. PICK T \in SUBSET Seq(Entry) : \E A \in SUBSET Ack : SafeWith(T, A)
      BY DEF SafeInv
    <2>2. PICK A \in SUBSET Ack : SafeWith(T, A)
      BY <2>1
    <2>3. PICK L \in T : \E j \in 1..Len(L) : \E k \in 1..j :
              /\ Chosen(A, L[j].term, j)
              /\ L[k] = [term |-> client[v].term, value |-> v]
      BY <2>2 DEF SafeWith, ClientInv
    <2>4. PICK j \in 1..Len(L) : \E k \in 1..j :
              /\ Chosen(A, L[j].term, j)
              /\ L[k] = [term |-> client[v].term, value |-> v]
      BY <2>3
    <2>5. PICK k \in 1..j : L[k] = [term |-> client[v].term, value |-> v]
      BY <2>4
    <2>6. Chosen(A, L[j].term, j) /\ Len(L) \in Nat
      BY <2>4, LogFacts
    <2> DEFINE S == {n \in Node : Has(A, n, L[j].term, j)}
               Q == {n \in Node : \E p \in 1..Len(disk[n].log) :
                         disk[n].log[p] = [term |-> client[v].term, value |-> v]}
    <2>7. ASSUME NEW n \in S PROVE n \in Q
      <3>1. Kept(A, L, j, log[n])
        BY <2>2 DEF SafeWith, AckInv, Retained, Has
      <3>2. Agree(L, log[n], j)
        BY <2>6, <3>1, ChosenKept
      <3>3. disk[n].log = log[n]
        BY <2>2 DEF SafeWith, OnDisk
      <3>4. log[n] \in Seq(Entry)
        BY DEF TypeOK, NodeTypeOK
      <3>5. Len(log[n]) \in Nat
        BY <3>4, LogFacts
      <3>6. k \in 1..Len(log[n]) /\ log[n][k] = L[k]
        BY <2>6, <3>2, <3>5 DEF Agree
      <3> QED BY <2>5, <3>3, <3>6
    <2>8. Majority(S)
      BY <2>6 DEF Chosen
    <2>9. S \subseteq Q /\ S \in SUBSET Node /\ Q \in SUBSET Node
      BY <2>7
    <2> HIDE DEF S, Q
    <2>10. Majority(Q)
      BY <2>8, <2>9, MajorityGrows
    <2> QED BY <2>10 DEF Q
  <1> QED BY <1>1, ChosenStays, TypeCorrect, PTL

-----------------------------------------------------------------------------
(* What is committed stays, and the stores follow. *)

\* Two nodes, before and after a step, agree on what both have committed.
LEMMA CommittedStays ==
    ASSUME TypeOK, VoteInv, TimelyInv, Candidates, SafeInv, [Next]_vars, late' = {},
           NEW i \in Node, NEW j \in Node, NEW k \in Nat \ {0},
           k <= commit_length[i], k <= commit_length'[j]
    PROVE  Agree(log[i], log'[j], k)
  <1>0. late = {} /\ Orderly
    BY StillTimely
  <1>1. PICK T \in SUBSET Seq(Entry) : \E A \in SUBSET Ack : SafeWith(T, A)
    BY <1>0 DEF SafeInv
  <1>2. PICK A \in SUBSET Ack : SafeWith(T, A)
    BY <1>1
  <1>3. Grown(T, A)
    BY <1>0, <1>2, NextGrows
  <1>4. PICK U \in SUBSET Seq(Entry) : \E B \in SUBSET Ack :
            T \subseteq U /\ A \subseteq B /\ SafeWith(U, B)'
    BY <1>3 DEF Grown
  <1>5. PICK B \in SUBSET Ack : T \subseteq U /\ A \subseteq B /\ SafeWith(U, B)'
    BY <1>4
  <1>6. TypeOK'
    BY NextType
  <1>7. /\ log[i] \in Seq(Entry) /\ commit_length[i] \in Nat /\ current_term[i] \in Nat
        /\ log'[j] \in Seq(Entry) /\ commit_length'[j] \in Nat
    BY <1>6 DEF TypeOK, NodeTypeOK
  <1>8. Lineage(U) /\ Inherited(U, B)
    <2>1. Lineage(U)'
      BY <1>5 DEF SafeWith, TreeInv
    <2>2. Complete(U, B)'
      BY <1>5 DEF SafeWith, AckInv
    <2> QED BY <2>1, <2>2, CompleteInherits DEF Lineage, Agree
  <1>9. ChosenUpTo(U, B, log[i], commit_length[i], current_term[i])
    <2>1. ChosenUpTo(T, A, log[i], commit_length[i], current_term[i])
      BY <1>2 DEF SafeWith, Committed
    <2> QED BY <1>5, <1>7, <2>1, ChosenUpToGrows
  <1>10. ChosenUpTo(U, B, log'[j], commit_length'[j], current_term'[j])
    <2>1. Committed(U, B)'
      BY <1>5 DEF SafeWith
    <2>2. ChosenUpTo(U, B, log[j], commit_length[j], current_term[j])'
      BY <2>1 DEF Committed
    <2> QED BY <2>2 DEF ChosenUpTo, Chosen, Has, Majority, Agree
  <1> QED BY <1>7, <1>8, <1>9, <1>10, CommittedAgree

\* Entries up to c give the key the same value in logs that agree up to c.
LEMMA AppliedAgrees ==
    ASSUME NEW L, NEW M, NEW first \in Nat \ {0}, NEW c \in Nat, Len(L) \in Nat, Len(M) \in Nat,
           c = 0 \/ Agree(L, M, c), NEW v
    PROVE  Applied(L, first, c, v) = Applied(M, first, c, v)
  <1> DEFINE setsL == {k \in first..c : k \in 1..Len(L) /\ L[k].value # None}
             setsM == {k \in first..c : k \in 1..Len(M) /\ M[k].value # None}
  <1>1. setsL = setsM
    BY DEF Agree
  <1>2. \A k \in setsL : L[k].value = M[k].value
    BY DEF Agree
  <1>3. CASE setsL = {}
    BY <1>1, <1>3 DEF Applied
  <1>4. CASE setsL # {}
    <2> DEFINE latest == CHOOSE k \in setsL : \A m \in setsL : m <= k
    <2>1. latest \in setsL
      <3>1. setsL \in SUBSET (0..c)
        OBVIOUS
      <3> HIDE DEF setsL
      <3>2. \E k \in setsL : \A m \in setsL : m <= k
        BY <1>4, <3>1, Greatest
      <3> QED BY <3>2
    <2>2. Applied(L, first, c, v) = L[latest].value
      BY <1>4 DEF Applied
    <2>3. latest = CHOOSE k \in setsM : \A m \in setsM : m <= k
      BY <1>1
    <2>4. Applied(M, first, c, v) = M[latest].value
      BY <1>1, <1>4, <2>3 DEF Applied
    <2> QED BY <1>2, <2>1, <2>2, <2>4
  <1> QED BY <1>3, <1>4

\* The last of the entries that set the key gives its value.
LEMMA AppliedLast ==
    ASSUME NEW L, NEW first \in Nat, NEW last \in Nat, NEW v,
           NEW k \in first..last, k \in 1..Len(L), L[k].value # None, Len(L) \in Nat,
           \A m \in first..last : m \in 1..Len(L) /\ L[m].value # None => m <= k
    PROVE  Applied(L, first, last, v) = L[k].value
  <1> DEFINE sets == {m \in first..last : m \in 1..Len(L) /\ L[m].value # None}
             latest == CHOOSE m \in sets : \A n \in sets : n <= m
  <1>1. k \in sets /\ \A m \in sets : m <= k
    OBVIOUS
  <1>2. latest \in sets /\ \A m \in sets : m <= latest
    BY <1>1
  <1>3. latest \in Nat /\ k \in Nat /\ latest <= k /\ k <= latest
    BY <1>1, <1>2
  <1>4. latest = k
    <2> HIDE DEF latest, sets
    <2> QED BY <1>3
  <1>5. Applied(L, first, last, v) = L[latest].value
    BY <1>1 DEF Applied
  <1> QED BY <1>4, <1>5

LEMMA AppliedNone ==
    ASSUME NEW L, NEW first, NEW last, NEW v,
           \A m \in first..last : ~(m \in 1..Len(L) /\ L[m].value # None)
    PROVE  Applied(L, first, last, v) = v
  BY DEF Applied

\* Applying entries up to c and then those up to d is applying those up to d.
LEMMA AppliedOn ==
    ASSUME NEW L, Len(L) \in Nat, NEW c \in Nat, NEW d \in Nat, c <= d, NEW v
    PROVE  Applied(L, c + 1, d, Applied(L, 1, c, v)) = Applied(L, 1, d, v)
  <1> DEFINE Sets(k) == k \in 1..Len(L) /\ L[k].value # None
             later == {k \in (c + 1)..d : Sets(k)}
             all == {k \in 1..d : Sets(k)}
  <1>1. CASE later # {}
    <2>1. later \in SUBSET (0..d)
      OBVIOUS
    <2> HIDE DEF later
    <2>2. PICK k \in later : \A m \in later : m <= k
      BY <1>1, <2>1, Greatest
    <2>3. k \in (c + 1)..d /\ Sets(k) /\ \A m \in (c + 1)..d : Sets(m) => m <= k
      BY <2>2 DEF later
    <2>4. k \in 1..Len(L) /\ L[k].value # None
      BY <2>3
    <2>5. k \in 1..d /\ \A m \in 1..d : Sets(m) => m <= k
      <3> HIDE DEF Sets
      <3>1. k \in 1..d /\ k > c
        BY <2>3
      <3>2. ASSUME NEW m \in 1..d, Sets(m) PROVE m <= k
        <4>1. CASE m <= c
          BY <3>1, <4>1
        <4>2. CASE m > c
          BY <2>3, <3>2, <4>2
        <4> QED BY <4>1, <4>2
      <3> QED BY <3>1, <3>2
    <2>6. Applied(L, 1, d, v) = L[k].value
      <3>1. \A m \in 1..d : m \in 1..Len(L) /\ L[m].value # None => m <= k
        BY <2>5
      <3> HIDE DEF Sets
      <3>2. 1 \in Nat /\ k \in 1..d
        BY <2>5
      <3>3. PICK one : one = 1
        OBVIOUS
      <3>4. /\ one \in Nat /\ k \in one..d
            /\ \A m \in one..d : m \in 1..Len(L) /\ L[m].value # None => m <= k
        BY <3>1, <3>2, <3>3
      <3>5. Applied(L, one, d, v) = L[k].value
        BY <2>4, <3>4, AppliedLast
      <3> QED BY <3>3, <3>5
    <2>7. PICK w : w = Applied(L, 1, c, v)
      OBVIOUS
    <2>8. Applied(L, c + 1, d, w) = L[k].value
      <3>1. c + 1 \in Nat /\ k \in (c + 1)..d
        BY <2>3
      <3>2. \A m \in (c + 1)..d : m \in 1..Len(L) /\ L[m].value # None => m <= k
        BY <2>3
      <3> QED BY <2>4, <3>1, <3>2, AppliedLast
    <2> QED BY <2>6, <2>7, <2>8
  <1>2. CASE later = {}
    <2>1. \A m \in (c + 1)..d : ~Sets(m)
      BY <1>2
    <2>2. PICK w : w = Applied(L, 1, c, v)
      OBVIOUS
    <2>3. Applied(L, c + 1, d, w) = w
      BY <2>1, AppliedNone
    <2> DEFINE early == {k \in 1..c : Sets(k)}
    <2>4. all = early
      <3> HIDE DEF Sets
      <3>1. \A k \in 1..d : Sets(k) => k \in 1..c
        BY <2>1
      <3>2. 1..c \subseteq 1..d
        OBVIOUS
      <3> QED BY <3>1, <3>2 DEF Sets
    <2>5. Applied(L, 1, d, v) = Applied(L, 1, c, v)
      <3>1. /\ Applied(L, 1, d, v) = IF all = {} THEN v
                ELSE L[CHOOSE k \in all : \A m \in all : m <= k].value
            /\ Applied(L, 1, c, v) = IF early = {} THEN v
                ELSE L[CHOOSE k \in early : \A m \in early : m <= k].value
        BY DEF Applied
      <3> HIDE DEF all, early
      <3> QED BY <2>4, <3>1
    <2> QED BY <2>2, <2>3, <2>5
  <1> QED BY <1>1, <1>2

\* What a step does to commit lengths and stores, unless append_entries raises an
\* exception: an entry is applied when it is committed, or all are on a restart.
StoreMoves(i) ==
    \/ commit_length'[i] = commit_length[i] /\ data_store'[i] = data_store[i]
    \/ data_store'[i] = Applied(log'[i], 1, commit_length'[i], None)
    \/ data_store'[i] =
           Applied(log'[i], commit_length[i] + 1, commit_length'[i], data_store[i])

\* A request's commit length is within the log of whoever accepts it.
LEMMA CommitInLog ==
    ASSUME TypeOK, NEW T \in SUBSET Seq(Entry), NEW A \in SUBSET Ack, SafeWith(T, A),
           NEW m \in append_requests, Accepts(m)
    PROVE  m.commit <= Len(Received(m)) /\ Len(Received(m)) \in Nat
  <1>1. PICK X \in T : Sent(T, A, m, X)
    BY DEF SafeWith, RequestsInv
  <1>2. /\ Received(m) \in Seq(Entry) /\ Agree(Received(m), X, Len(X)) /\ X \in Seq(Entry)
    BY <1>1, ReceivedSent DEF SafeWith
  <1>3. m.commit \in Nat
    BY DEF TypeOK, CallTypeOK, AppendRequest
  <1>4. Len(X) \in Nat /\ Len(Received(m)) \in Nat
    BY <1>2, LogFacts
  <1>5. m.commit <= Len(X)
    <2>1. ChosenUpTo(T, A, X, m.commit, m.term)
      BY <1>1 DEF Sent
    <2> QED BY <1>3, <1>4, <2>1 DEF ChosenUpTo, Agree
  <1>6. Len(X) <= Len(Received(m))
    BY <1>2 DEF Agree
  <1> QED BY <1>3, <1>4, <1>5, <1>6

LEMMA StoreReceives ==
    ASSUME TypeOK, NEW T \in SUBSET Seq(Entry), NEW A \in SUBSET Ack, SafeWith(T, A),
           NEW m \in append_requests, HandleAppendEntries(m)
    PROVE  \A j \in Node : StoreMoves(j)
  <1> DEFINE i == m.to
             commits == Accepts(m) /\ m.commit > commit_length[i]
  <1>1. /\ i \in Node /\ m.commit \in Nat /\ commit_length[i] \in Nat
        /\ commit_length \in [Node -> Nat] /\ DOMAIN data_store = Node
        /\ log'[i] = Received(m)
    BY ReceivesWhat DEF TypeOK, NodeTypeOK, CallTypeOK, AppendRequest
  <1>2. /\ commit_length' = [commit_length EXCEPT ![i] =
               IF commits /\ ~(m.commit > Len(Received(m))) THEN m.commit ELSE @]
        /\ data_store' = [data_store EXCEPT ![i] =
               IF commits THEN Applied(Received(m), commit_length[i] + 1, m.commit, @) ELSE @]
    BY DEF HandleAppendEntries, Accepts, Received, LeaderAhead
  <1>3. commits => ~(m.commit > Len(Received(m)))
    <2> SUFFICES ASSUME commits PROVE ~(m.commit > Len(Received(m)))
      OBVIOUS
    <2>1. m.commit <= Len(Received(m)) /\ Len(Received(m)) \in Nat
      BY CommitInLog
    <2> QED BY <1>1, <2>1
  <1> HIDE DEF i, commits
  <1>4. \A j \in Node \ {i} : commit_length'[j] = commit_length[j]
                              /\ data_store'[j] = data_store[j]
    BY <1>1, <1>2
  <1>5. CASE commits
    <2>1. /\ commit_length'[i] = m.commit
          /\ data_store'[i] = Applied(Received(m), commit_length[i] + 1, m.commit, data_store[i])
      BY <1>1, <1>2, <1>3, <1>5
    <2> QED BY <1>1, <1>4, <2>1 DEF StoreMoves
  <1>6. CASE ~commits
    <2>1. commit_length'[i] = commit_length[i] /\ data_store'[i] = data_store[i]
      BY <1>1, <1>2, <1>6
    <2> QED BY <1>4, <2>1 DEF StoreMoves
  <1> QED BY <1>5, <1>6

LEMMA StoreReply ==
    ASSUME TypeOK, NEW r \in append_replies, ReceiveAppendReply(r)
    PROVE  \A j \in Node : StoreMoves(j)
  <1> DEFINE i == r.to
             acked == [acked_length[i] EXCEPT ![r.from] = IF r.success THEN r.upto ELSE @]
  <1>1. /\ i \in Node /\ commit_length \in [Node -> Nat] /\ DOMAIN data_store = Node
    BY DEF TypeOK, NodeTypeOK, CallTypeOK, AppendReply
  <1>2. /\ UNCHANGED log
        /\ \/ UNCHANGED <<commit_length, data_store>>
           \/ \E k \in CommitTo(i, acked) :
                  /\ commit_length' = [commit_length EXCEPT ![i] = k]
                  /\ data_store' = [data_store EXCEPT ![i] =
                                        Applied(log[i], commit_length[i] + 1, k, @)]
    BY DEF ReceiveAppendReply
  <1> HIDE DEF i, acked
  <1>3. CASE UNCHANGED <<commit_length, data_store>>
    BY <1>3 DEF StoreMoves
  <1>4. ASSUME NEW k,
               commit_length' = [commit_length EXCEPT ![i] = k],
               data_store' = [data_store EXCEPT ![i] =
                                  Applied(log[i], commit_length[i] + 1, k, @)]
        PROVE  \A j \in Node : StoreMoves(j)
    <2>1. \A j \in Node \ {i} : commit_length'[j] = commit_length[j]
                                /\ data_store'[j] = data_store[j]
      BY <1>1, <1>4
    <2>2. /\ commit_length'[i] = k
          /\ data_store'[i] = Applied(log[i], commit_length[i] + 1, k, data_store[i])
      BY <1>1, <1>4
    <2> QED BY <1>2, <2>1, <2>2 DEF StoreMoves
  <1> QED BY <1>2, <1>3, <1>4

LEMMA StoreRestarts ==
    ASSUME TypeOK, NEW i \in Node, Restart(i)
    PROVE  \A j \in Node : StoreMoves(j)
  <1>1. /\ DOMAIN commit_length = Node /\ DOMAIN data_store = Node /\ DOMAIN log = Node
    BY DEF TypeOK, NodeTypeOK
  <1>2. /\ log' = [log EXCEPT ![i] = disk[i].log]
        /\ commit_length' = [commit_length EXCEPT ![i] = disk[i].commit]
        /\ data_store' = [data_store EXCEPT ![i] =
                              Applied(disk[i].log, 1, disk[i].commit, None)]
    BY DEF Restart
  <1>3. /\ log'[i] = disk[i].log /\ commit_length'[i] = disk[i].commit
        /\ data_store'[i] = Applied(disk[i].log, 1, disk[i].commit, None)
    BY <1>1, <1>2
  <1>4. \A j \in Node \ {i} : commit_length'[j] = commit_length[j]
                              /\ data_store'[j] = data_store[j]
    BY <1>1, <1>2
  <1> QED BY <1>3, <1>4 DEF StoreMoves

LEMMA NextStores ==
    ASSUME TypeOK, NEW T \in SUBSET Seq(Entry), NEW A \in SUBSET Ack, SafeWith(T, A),
           [Next]_vars
    PROVE  \A j \in Node : StoreMoves(j)
  <1>1. ASSUME UNCHANGED <<commit_length, data_store>>
        PROVE  \A j \in Node : StoreMoves(j)
    BY <1>1 DEF StoreMoves
  <1>2. CASE \/ \E t \in vote_tasks : SendRequestVote(t)
             \/ \E t \in append_tasks : SendAppendEntries(t)
             \/ \E r \in vote_replies : ReceiveVote(r)
             \/ \E v \in Value : ClientWake(v)
             \/ VoteCallFails \/ AppendCallFails \/ UNCHANGED vars
    BY <1>1, <1>2 DEF SendRequestVote, SendAppendEntries, ReceiveVote, ClientWake,
       VoteCallFails, AppendCallFails, durableVars, vars
  <1>3. CASE \E i \in Node :
                 \/ StartElection(i) \/ CheckElection(i) \/ AcquireLease(i)
                 \/ SendHeartbeats(i) \/ LeaseTimeout(i)
                 \/ \E v \in Value : ServeClientSet(i, v)
    BY <1>1, <1>3 DEF StartElection, CheckElection, AcquireLease, SendHeartbeats,
       LeaseTimeout, ServeClientSet, durableVars
  <1>4. CASE \E m \in vote_requests : HandleRequestVote(m)
    BY <1>1, <1>4 DEF HandleRequestVote
  <1>5. CASE \E m \in append_requests : HandleAppendEntries(m)
    BY <1>5, StoreReceives
  <1>6. CASE \E r \in append_replies : ReceiveAppendReply(r)
    BY <1>6, StoreReply
  <1>7. CASE \E i \in Node : Restart(i)
    BY <1>7, StoreRestarts
  <1> QED BY <1>2, <1>3, <1>4, <1>5, <1>6, <1>7 DEF Next

\* A node's store is what applying its committed entries to an empty one gives.
Stores ==
    late = {} => \A i \in Node : data_store[i] = Applied(log[i], 1, commit_length[i], None)

LEMMA StoresKept ==
    ASSUME TypeOK, VoteInv, TimelyInv, LogInv, SafeInv, Stores, [Next]_vars
    PROVE  Stores'
  <1> SUFFICES ASSUME late' = {}, NEW i \in Node
               PROVE  data_store'[i] = Applied(log'[i], 1, commit_length'[i], None)
    BY DEF Stores, Applied
  <1>0. late = {}
    BY StillTimely
  <1>1. PICK T \in SUBSET Seq(Entry) : \E A \in SUBSET Ack : SafeWith(T, A)
    BY <1>0 DEF SafeInv
  <1>2. PICK A \in SUBSET Ack : SafeWith(T, A)
    BY <1>1
  <1>3. StoreMoves(i)
    BY <1>2, NextStores
  <1>4. commit_length[i] \in Nat /\ log[i] \in Seq(Entry) /\ log'[i] \in Seq(Entry)
        /\ commit_length'[i] \in Nat
    BY NextType DEF TypeOK, NodeTypeOK
  <1>5. commit_length[i] <= commit_length'[i]
    BY <1>4, NextCommitRises
  <1>6. Len(log[i]) \in Nat /\ Len(log'[i]) \in Nat
    BY <1>4, LogFacts
  <1>7. data_store[i] = Applied(log[i], 1, commit_length[i], None)
    BY <1>0 DEF Stores
  <1>8. Applied(log[i], 1, commit_length[i], None) = Applied(log'[i], 1, commit_length[i], None)
    <2>1. commit_length[i] > 0 => Agree(log[i], log'[i], commit_length[i])
      <3> SUFFICES ASSUME commit_length[i] > 0 PROVE Agree(log[i], log'[i], commit_length[i])
        OBVIOUS
      <3>1. /\ commit_length[i] \in Nat \ {0} /\ commit_length[i] <= commit_length[i]
            /\ Candidates
        BY <1>4 DEF LogInv
      <3> QED BY <1>5, <3>1, CommittedStays
    <2>2. PICK M : M = log'[i]
      OBVIOUS
    <2>3. PICK L : L = log[i]
      OBVIOUS
    <2>4. PICK c : c = commit_length[i]
      OBVIOUS
    <2>5. /\ Len(L) \in Nat /\ Len(M) \in Nat /\ c \in Nat
          /\ c = 0 \/ Agree(L, M, c)
      BY <1>4, <1>6, <2>1, <2>2, <2>3, <2>4
    <2>6. PICK one : one = 1
      OBVIOUS
    <2>7. one \in Nat \ {0}
      BY <2>6
    <2>8. Applied(L, one, c, None) = Applied(M, one, c, None)
      BY <2>5, <2>7, AppliedAgrees
    <2> QED BY <2>2, <2>3, <2>4, <2>6, <2>8
  <1>9. CASE commit_length'[i] = commit_length[i] /\ data_store'[i] = data_store[i]
    BY <1>7, <1>8, <1>9
  <1>10. CASE data_store'[i] =
                  Applied(log'[i], commit_length[i] + 1, commit_length'[i], data_store[i])
    <2>1. PICK M : M = log'[i]
      OBVIOUS
    <2>2. PICK d : d = commit_length'[i]
      OBVIOUS
    <2>3. Applied(M, commit_length[i] + 1, d, Applied(M, 1, commit_length[i], None))
          = Applied(M, 1, d, None)
      BY <1>4, <1>5, <1>6, <2>1, <2>2, AppliedOn
    <2> QED BY <1>7, <1>8, <1>10, <2>1, <2>2, <2>3
  <1> QED BY <1>3, <1>9, <1>10 DEF StoreMoves

\* A node's store is what its committed entries make it, for any number of nodes, terms,
\* calls, failures and crashes, as long as nothing is late: none is skipped, applied twice
\* or forgotten.
THEOREM StoresFollow == Spec => []StoreIsAppliedPrefix
  <1>1. Init => Stores
    <2> SUFFICES ASSUME Init, NEW i \in Node
                 PROVE  data_store[i] = Applied(log[i], 1, commit_length[i], None)
      BY DEF Stores
    <2>1. commit_length[i] = 0 /\ data_store[i] = None
      BY DEF Init, Zeros
    <2>2. \A m \in 1..0 : ~(m \in 1..Len(log[i]) /\ log[i][m].value # None)
      OBVIOUS
    <2> QED BY <2>1, <2>2, AppliedNone
  <1>2. TypeOK /\ VoteInv /\ TimelyInv /\ LogInv /\ SafeInv /\ Stores /\ [Next]_vars => Stores'
    BY StoresKept
  <1>3. TypeOK /\ Stores => StoreIsAppliedPrefix
    <2> SUFFICES ASSUME TypeOK, Stores, late = {}, NEW i \in Node
                 PROVE  LET sets == {k \in 1..Min2(commit_length[i], Len(log[i])) :
                                         log[i][k].value # None}
                        IN  /\ sets = {} => data_store[i] = None
                            /\ \A k \in sets : (\A m \in sets : m <= k)
                                               => data_store[i] = log[i][k].value
      BY DEF StoreIsAppliedPrefix
    <2> DEFINE sets == {k \in 1..Min2(commit_length[i], Len(log[i])) : log[i][k].value # None}
    <2>1. log[i] \in Seq(Entry) /\ commit_length[i] \in Nat
      BY DEF TypeOK, NodeTypeOK
    <2>2. Len(log[i]) \in Nat
      BY <2>1, LogFacts
    <2>3. data_store[i] = Applied(log[i], 1, commit_length[i], None)
      BY DEF Stores
    <2>4. \A m : m \in sets <=> m \in 1..commit_length[i] /\ m \in 1..Len(log[i])
                                /\ log[i][m].value # None
      BY <2>1, <2>2 DEF Min2
    <2> HIDE DEF sets
    <2>5. ASSUME sets = {} PROVE data_store[i] = None
      BY <2>3, <2>4, <2>5, AppliedNone
    <2>6. ASSUME NEW k \in sets, \A m \in sets : m <= k PROVE data_store[i] = log[i][k].value
      <3>1. /\ k \in 1..commit_length[i] /\ k \in 1..Len(log[i]) /\ log[i][k].value # None
            /\ \A m \in 1..commit_length[i] :
                   m \in 1..Len(log[i]) /\ log[i][m].value # None => m <= k
        BY <2>4, <2>6
      <3>2. PICK L : L = log[i]
        OBVIOUS
      <3>3. PICK c : c = commit_length[i]
        OBVIOUS
      <3>4. 1 \in Nat /\ c \in Nat
        BY <2>1, <3>3
      <3>5. Applied(L, 1, c, None) = L[k].value
        <4>1. /\ k \in 1..c /\ k \in 1..Len(L) /\ L[k].value # None /\ Len(L) \in Nat
              /\ \A m \in 1..c : m \in 1..Len(L) /\ L[m].value # None => m <= k
          BY <2>2, <3>1, <3>2, <3>3
        <4>2. PICK one : one = 1
          OBVIOUS
        <4>3. /\ one \in Nat /\ k \in one..c
              /\ \A m \in one..c : m \in 1..Len(L) /\ L[m].value # None => m <= k
          BY <4>1, <4>2
        <4>4. Applied(L, one, c, None) = L[k].value
          BY <3>4, <4>1, <4>3, AppliedLast
        <4> QED BY <4>2, <4>4
      <3> QED BY <2>3, <3>2, <3>3, <3>5
    <2> QED BY <2>5, <2>6 DEF sets
  <1>4. Spec => []TimelyInv
    BY BallotsKept
  <1>5. Spec => []LogInv
    BY LogsKept
  <1> QED BY <1>1, <1>2, <1>3, <1>4, <1>5, ChosenStays, TypeCorrect, VotesAgree, PTL DEF Spec

-----------------------------------------------------------------------------
(* The nodes implement ReplicatedLog. *)

\* Some node has committed the most.
LEMMA SomeFurthest ==
    ASSUME TypeOK, Node # {}
    PROVE  \E i \in Node : \A j \in Node : commit_length[j] <= commit_length[i]
  <1> DEFINE Ahead(i) == {j \in Node : commit_length[j] > commit_length[i]}
             ranks == {Cardinality(Ahead(i)) : i \in Node}
  <1>1. \A i \in Node : commit_length[i] \in Nat
    BY DEF TypeOK, NodeTypeOK
  <1>2. \A i \in Node : Ahead(i) \in SUBSET Node /\ IsFiniteSet(Ahead(i))
                        /\ Cardinality(Ahead(i)) \in Nat
    <2> SUFFICES ASSUME NEW i \in Node
                 PROVE  Ahead(i) \in SUBSET Node /\ IsFiniteSet(Ahead(i))
                        /\ Cardinality(Ahead(i)) \in Nat
      OBVIOUS
    <2>1. Ahead(i) \in SUBSET Node
      OBVIOUS
    <2> HIDE DEF Ahead
    <2> QED BY <2>1, NodeAssumption, FS_Subset, FS_CardinalityType
  <1>3. ranks \in SUBSET Nat /\ ranks # {}
    <2>1. ranks # {}
      OBVIOUS
    <2> HIDE DEF Ahead
    <2> QED BY <1>2, <2>1
  <1>4. PICK x \in ranks : \A y \in ranks : <<y, x>> \notin OpToRel(<, Nat)
    <2> HIDE DEF ranks
    <2> QED BY <1>3, NatLessThanWellFounded, WFMin
  <1>5. PICK i \in Node : x = Cardinality(Ahead(i))
    OBVIOUS
  <1>6. ASSUME NEW j \in Node, commit_length[j] > commit_length[i] PROVE FALSE
    <2>1. Ahead(j) \in SUBSET Ahead(i)
      BY <1>1, <1>6
    <2>2. j \in Ahead(i) /\ j \notin Ahead(j)
      BY <1>1, <1>6
    <2>3. Cardinality(Ahead(j)) \in ranks
      OBVIOUS
    <2>4. <<Cardinality(Ahead(j)), Cardinality(Ahead(i))>> \notin OpToRel(<, Nat)
      BY <1>4, <1>5, <2>3
    <2> HIDE DEF Ahead, ranks
    <2>5. Cardinality(Ahead(j)) <= Cardinality(Ahead(i))
          /\ Cardinality(Ahead(j)) # Cardinality(Ahead(i))
      BY <1>2, <2>1, <2>2, FS_Subset
    <2>6. Cardinality(Ahead(j)) < Cardinality(Ahead(i))
      BY <1>2, <2>5
    <2> QED BY <1>2, <2>4, <2>6 DEF OpToRel
  <1>7. \A j \in Node : commit_length[j] <= commit_length[i]
    BY <1>1, <1>6
  <1> QED BY <1>7

\* What is decided is what a node that has committed the most has committed.
DecidedAt(i) ==
    /\ \A j \in Node : commit_length[j] <= commit_length[i]
    /\ commit_length[i] <= Len(log[i])
    /\ Decided = SubSeq(log[i], 1, commit_length[i])
DecidedInv == late = {} => \E i \in Node : DecidedAt(i)

LEMMA DecidedSomewhere ==
    ASSUME TypeOK, SafeInv, Node # {}
    PROVE  DecidedInv
  <1> SUFFICES ASSUME late = {} PROVE \E i \in Node : DecidedAt(i)
    BY DEF DecidedInv
  <1> DEFINE i == CHOOSE n \in Node : \A j \in Node : commit_length[j] <= commit_length[n]
  <1>1. i \in Node /\ \A j \in Node : commit_length[j] <= commit_length[i]
    BY SomeFurthest
  <1>2. Decided = SubSeq(log[i], 1, commit_length[i])
    BY DEF Decided
  <1> HIDE DEF i
  <1>3. PICK T \in SUBSET Seq(Entry) : \E A \in SUBSET Ack : SafeWith(T, A)
    BY DEF SafeInv
  <1>4. PICK A \in SUBSET Ack : SafeWith(T, A)
    BY <1>3
  <1>5. ChosenUpTo(T, A, log[i], commit_length[i], current_term[i])
    BY <1>1, <1>4 DEF SafeWith, Committed
  <1>6. log[i] \in Seq(Entry)
    BY <1>1 DEF TypeOK, NodeTypeOK
  <1>7. Len(log[i]) \in Nat
    BY <1>6, LogFacts
  <1>8. commit_length[i] <= Len(log[i])
    BY <1>5, <1>7 DEF ChosenUpTo, Agree
  <1> QED BY <1>1, <1>2, <1>8 DEF DecidedAt

\* The clients that were answered are as before, unless one wakes.
LEMMA AnsweredStays ==
    ASSUME TypeOK, [Next]_vars
    PROVE  UNCHANGED Answered \/ \E v \in Value : ClientWake(v)
  <1>1. ASSUME UNCHANGED client PROVE UNCHANGED Answered
    BY <1>1 DEF Answered
  <1>2. ASSUME NEW i \in Node, NEW v \in Value, ServeClientSet(i, v)
        PROVE  UNCHANGED Answered
    <2>1. /\ client' = [client EXCEPT ![v] = [status |-> "waiting", node |-> i,
                                              term |-> current_term[i]]]
          /\ client[v].status = "new"
      BY <1>2 DEF ServeClientSet
    <2>2. client'[v].status = "waiting" /\ \A w \in Value \ {v} : client'[w] = client[w]
      BY <2>1 DEF TypeOK, OtherTypeOK
    <2>3. \A w \in Value : client'[w].status = "ok" <=> client[w].status = "ok"
      BY <2>1, <2>2
    <2> QED BY <2>3 DEF Answered
  <1>3. ASSUME NEW i \in Node, Restart(i) PROVE UNCHANGED Answered
    <2>1. client' = [v \in Value |->
               IF client[v].status = "waiting" /\ client[v].node = i
               THEN [client[v] EXCEPT !.status = "failed"] ELSE client[v]]
      BY <1>3 DEF Restart
    <2>2. ASSUME NEW w \in Value
          PROVE  client'[w].status = "ok" <=> client[w].status = "ok"
      <3>1. client[w] \in [status : {"new", "waiting", "ok", "failed"},
                           node : Node \cup {None}, term : Nat]
        BY DEF TypeOK, OtherTypeOK
      <3> QED BY <2>1, <3>1
    <2> QED BY <2>2 DEF Answered
  <1>4. CASE \/ \E t \in vote_tasks : SendRequestVote(t)
             \/ \E t \in append_tasks : SendAppendEntries(t)
             \/ \E m \in vote_requests : HandleRequestVote(m)
             \/ \E r \in vote_replies : ReceiveVote(r)
    BY <1>1, <1>4 DEF SendRequestVote, SendAppendEntries, HandleRequestVote, ReceiveVote
  <1>5. CASE \/ \E m \in append_requests : HandleAppendEntries(m)
             \/ \E r \in append_replies : ReceiveAppendReply(r)
             \/ VoteCallFails \/ AppendCallFails \/ UNCHANGED vars
    BY <1>1, <1>5 DEF HandleAppendEntries, ReceiveAppendReply, VoteCallFails,
       AppendCallFails, vars, otherVars
  <1>6. CASE \E i \in Node : \/ StartElection(i) \/ CheckElection(i) \/ AcquireLease(i)
                             \/ SendHeartbeats(i) \/ LeaseTimeout(i)
    BY <1>1, <1>6 DEF StartElection, CheckElection, AcquireLease, SendHeartbeats,
       LeaseTimeout, otherVars
  <1> QED BY <1>2, <1>3, <1>4, <1>5, <1>6 DEF Next

\* A client that wakes is told of a SET that is decided, or that it failed.
LEMMA WakeAnswers ==
    ASSUME TypeOK, NEW v \in Value, ClientWake(v)
    PROVE  /\ UNCHANGED <<log, commit_length>> /\ UNCHANGED Decided
           /\ \/ UNCHANGED Answered
              \/ /\ v \notin Answered /\ Answered' = Answered \cup {v}
                 /\ \E n \in Node : /\ commit_length[n] \in 1..Len(log[n])
                                    /\ log[n][commit_length[n]].value = v
  <1> DEFINE n == client[v].node
             k == commit_length[n]
             says == IF k \in 1..Len(log[n]) /\ log[n][k] = [term |-> client[v].term, value |-> v]
                     THEN "ok" ELSE "failed"
  <1>1. /\ client' = [client EXCEPT ![v].status = says]
        /\ client[v].status = "waiting"
    BY DEF ClientWake
  <1>2. UNCHANGED <<log, commit_length>>
    BY DEF ClientWake, durableVars
  <1>3. UNCHANGED Decided
    BY <1>2 DEF Decided
  <1>4. n \in Node /\ v \notin Answered
    BY <1>1 DEF TypeOK, OtherTypeOK, Answered
  <1>5. /\ client'[v].status = says
        /\ \A w \in Value \ {v} : client'[w] = client[w]
    <2>1. client \in [Value -> [status : {"new", "waiting", "ok", "failed"},
                                node : Node \cup {None}, term : Nat]]
      BY DEF TypeOK, OtherTypeOK
    <2> HIDE DEF says
    <2> QED BY <1>1, <2>1
  <1>6. CASE says = "ok"
    <2>1. k \in 1..Len(log[n]) /\ log[n][k].value = v
      BY <1>6
    <2>2. Answered' = Answered \cup {v}
      <3> HIDE DEF says
      <3> QED BY <1>5, <1>6 DEF Answered
    <2> QED BY <1>2, <1>3, <1>4, <2>1, <2>2
  <1>7. CASE says # "ok"
    <2> HIDE DEF says
    <2>1. Answered' = Answered
      BY <1>1, <1>5, <1>7 DEF Answered
    <2> QED BY <1>2, <1>3, <2>1
  <1> QED BY <1>6, <1>7

\* A log's first entries are the beginning of those of a log that agrees with it.
LEMMA AgreePrefix ==
    ASSUME NEW L \in Seq(Entry), NEW M \in Seq(Entry), NEW c \in Nat, NEW d \in Nat,
           c <= d, c <= Len(L), d <= Len(M), c = 0 \/ Agree(L, M, c)
    PROVE  Cluster!IsPrefix(SubSeq(L, 1, c), SubSeq(M, 1, d))
  <1> DEFINE P == SubSeq(L, 1, c)
             Q == SubSeq(M, 1, d)
  <1>1. /\ P \in Seq(Entry) /\ Len(P) = c /\ \A p \in 1..c : P[p] = L[p]
        /\ Q \in Seq(Entry) /\ Len(Q) = d /\ \A p \in 1..d : Q[p] = M[p]
    BY PrefixIs
  <1> HIDE DEF P, Q
  <1>0. c <= Len(P) /\ c <= Len(Q)
    BY <1>1
  <1>2. /\ SubSeq(P, 1, c) \in Seq(Entry) /\ Len(SubSeq(P, 1, c)) = c
        /\ \A p \in 1..c : SubSeq(P, 1, c)[p] = P[p]
    BY <1>0, <1>1, PrefixIs, Zenon
  <1>3. /\ SubSeq(Q, 1, c) \in Seq(Entry) /\ Len(SubSeq(Q, 1, c)) = c
        /\ \A p \in 1..c : SubSeq(Q, 1, c)[p] = Q[p]
    BY <1>0, <1>1, PrefixIs, Zenon
  <1>4. ASSUME NEW p \in 1..c PROVE P[p] = Q[p]
    <2>1. p \in 1..d /\ c # 0
      OBVIOUS
    <2>2. L[p] = M[p]
      BY <2>1 DEF Agree
    <2> QED BY <1>1, <2>1, <2>2, Zenon
  <1>5. Agree(SubSeq(P, 1, c), SubSeq(Q, 1, c), c)
    <2>1. \A p \in 1..c : SubSeq(P, 1, c)[p] = SubSeq(Q, 1, c)[p]
      BY <1>2, <1>3, <1>4
    <2> QED BY <1>2, <1>3, <2>1 DEF Agree
  <1>6. SubSeq(P, 1, c) = SubSeq(Q, 1, c)
    BY <1>2, <1>3, <1>5, AgreeSame
  <1>7. Len(P) <= Len(Q) /\ SubSeq(P, 1, Len(P)) = SubSeq(Q, 1, Len(P))
    BY <1>1, <1>6
  <1> QED BY <1>7 DEF Cluster!IsPrefix, P, Q

\* Every step decides more or nothing, or answers a client of what is decided.
LEMMA NextImplements ==
    ASSUME TypeOK, VoteInv, TimelyInv, LogInv, SafeInv, DecidedInv, DecidedInv', [Next]_vars
    PROVE  [Cluster!Next]_<<Decided, Answered, late = {}>>
  <1> SUFFICES ASSUME late' = {} PROVE [Cluster!Next]_<<Decided, Answered, late = {}>>
    BY DEF Cluster!Next, Cluster!GiveUp
  <1>0. late = {}
    BY StillTimely
  <1>1. TypeOK' /\ Candidates
    BY NextType DEF LogInv
  <1>2. PICK i \in Node : DecidedAt(i)
    BY <1>0 DEF DecidedInv
  <1>3. PICK j \in Node : DecidedAt(j)'
    BY DEF DecidedInv
  <1>4. /\ log[i] \in Seq(Entry) /\ commit_length[i] \in Nat
        /\ log'[j] \in Seq(Entry) /\ commit_length'[j] \in Nat
        /\ commit_length'[i] \in Nat
    BY <1>1 DEF TypeOK, NodeTypeOK
  <1>5. /\ commit_length[i] <= Len(log[i])
        /\ Decided = SubSeq(log[i], 1, commit_length[i])
        /\ \A n \in Node : commit_length[n] <= commit_length[i]
    BY <1>2 DEF DecidedAt
  <1>6. /\ commit_length'[j] <= Len(log'[j])
        /\ Decided' = SubSeq(log'[j], 1, commit_length'[j])
        /\ \A n \in Node : commit_length'[n] <= commit_length'[j]
    BY <1>3 DEF DecidedAt
  <1>7. commit_length[i] <= commit_length'[j]
    <2>1. commit_length[i] <= commit_length'[i]
      BY <1>4, NextCommitRises
    <2>2. commit_length'[i] <= commit_length'[j]
      BY <1>6
    <2> QED BY <1>4, <2>1, <2>2
  <1>8. commit_length[i] = 0 \/ Agree(log[i], log'[j], commit_length[i])
    <2> SUFFICES ASSUME commit_length[i] # 0
                 PROVE  Agree(log[i], log'[j], commit_length[i])
      OBVIOUS
    <2>1. commit_length[i] \in Nat \ {0} /\ commit_length[i] <= commit_length[i]
      BY <1>4
    <2> QED BY <1>1, <1>7, <2>1, CommittedStays
  <1>9. Cluster!IsPrefix(Decided, Decided')
    <2>1. PICK L : L = log[i]
      OBVIOUS
    <2>2. PICK M : M = log'[j]
      OBVIOUS
    <2>3. PICK c : c = commit_length[i]
      OBVIOUS
    <2>4. PICK d : d = commit_length'[j]
      OBVIOUS
    <2>5. Cluster!IsPrefix(SubSeq(L, 1, c), SubSeq(M, 1, d))
      BY <1>4, <1>5, <1>6, <1>7, <1>8, <2>1, <2>2, <2>3, <2>4, AgreePrefix
    <2> QED BY <1>5, <1>6, <2>1, <2>2, <2>3, <2>4, <2>5
  <1>10. CASE UNCHANGED Answered
    <2>1. CASE Decided' = Decided
      BY <1>0, <1>10, <2>1
    <2>2. CASE Decided' # Decided
      BY <1>0, <1>9, <1>10, <2>2 DEF Cluster!Next, Cluster!Decide
    <2> QED BY <2>1, <2>2
  <1>11. ASSUME NEW v \in Value, ClientWake(v), ~ UNCHANGED Answered
         PROVE  [Cluster!Next]_<<Decided, Answered, late = {}>>
    <2>1. /\ UNCHANGED <<log, commit_length>> /\ UNCHANGED Decided
          /\ v \notin Answered /\ Answered' = Answered \cup {v}
          /\ \E n \in Node : /\ commit_length[n] \in 1..Len(log[n])
                             /\ log[n][commit_length[n]].value = v
      BY <1>11, WakeAnswers
    <2>2. PICK n \in Node : /\ commit_length[n] \in 1..Len(log[n])
                            /\ log[n][commit_length[n]].value = v
      BY <2>1
    <2>3. PICK k : k = commit_length[n]
      OBVIOUS
    <2>4. k \in Nat \ {0} /\ k <= commit_length[n] /\ k <= commit_length'[j]
          /\ commit_length[n] \in Nat
      <3>1. commit_length[n] \in Nat /\ commit_length[n] <= commit_length[i]
        BY <1>5 DEF TypeOK, NodeTypeOK
      <3> QED BY <1>4, <1>7, <2>2, <2>3, <3>1
    <2>5. Agree(log[n], log'[j], k)
      BY <1>1, <2>4, CommittedStays
    <2>6. log'[j][k] = log[n][k] /\ k \in 1..commit_length'[j]
      BY <1>4, <2>4, <2>5 DEF Agree
    <2>7. /\ Len(SubSeq(log'[j], 1, commit_length'[j])) = commit_length'[j]
          /\ SubSeq(log'[j], 1, commit_length'[j])[k] = log'[j][k]
      BY <1>4, <1>6, <2>6, PrefixIs
    <2>8. k \in 1..Len(Decided) /\ Decided[k].value = v
      BY <1>6, <2>1, <2>2, <2>3, <2>6, <2>7
    <2> QED BY <1>0, <2>1, <2>8 DEF Cluster!Next, Cluster!Answer
  <1> QED BY <1>10, <1>11, AnsweredStays

\* The nodes and their clients implement one log that only grows, and nobody is told
\* of a SET that is not in it, for any number of nodes, terms, calls, failures and crashes,
\* as long as nothing is late.
THEOREM NodesImplement == ASSUME Node # {} PROVE Spec => ImplementsReplicatedLog
  <1>1. Init => Cluster!Init
    <2> SUFFICES ASSUME Init PROVE Cluster!Init
      OBVIOUS
    <2>1. TypeOK
      BY InitType
    <2>2. PICK i \in Node : DecidedAt(i)
      BY <2>1, InitSafe, DecidedSomewhere DEF DecidedInv, Init
    <2>3. Decided = SubSeq(<<>>, 1, 0)
      BY <2>2 DEF DecidedAt, Init, Zeros
    <2>4. Decided = <<>>
      BY <2>3
    <2>5. Answered = {} /\ late = {}
      BY DEF Init, Answered
    <2> QED BY <2>4, <2>5 DEF Cluster!Init
  <1>2. TypeOK /\ SafeInv => DecidedInv
    BY DecidedSomewhere
  <1>3. TypeOK /\ VoteInv /\ TimelyInv /\ LogInv /\ SafeInv /\ DecidedInv /\ DecidedInv'
            /\ [Next]_vars => [Cluster!Next]_<<Decided, Answered, late = {}>>
    BY NextImplements
  <1>4. Spec => []TimelyInv
    BY BallotsKept
  <1>5. Spec => []LogInv
    BY LogsKept
  <1> QED BY <1>1, <1>2, <1>3, <1>4, <1>5, ChosenStays, TypeCorrect, VotesAgree, PTL
        DEF Spec, ImplementsReplicatedLog, Cluster!Spec
=============================================================================
