---------------------------- MODULE RaftLogProofs ----------------------------
(***************************************************************************)
(* Proofs about the logs of Raft, for every timing, every set of nodes and *)
(* values and every bound: until a vote is late or a node replicates that  *)
(* does not lead, logs with an entry of one term at one index agree.       *)
(*                                                                         *)
(* The invariant is about every log a leader has ever written.  No         *)
(* variable keeps these, so it says that there is such a set T of logs.    *)
(***************************************************************************)
EXTENDS RaftProofs
-----------------------------------------------------------------------------
(* Logs that agree. *)

\* Both logs have the first k entries, and the same.
Agree(L, M, k) == k <= Len(L) /\ k <= Len(M) /\ \A p \in 1..k : L[p] = M[p]

\* L is n entries and then those of E.
Ends(L, n, E) == Len(L) = n + Len(E) /\ \A k \in 1..Len(E) : L[n + k] = E[k]

\* The request's entries are the end of L, and what they follow is in L.
Carries(m, L) ==
    Ends(L, m.prev, m.entries) /\ (m.prev > 0 => L[m.prev].term = m.prev_term)

\* Where two logs have an entry of the same term at an index they agree up to it.
Match(L, M) ==
    \A k \in 1..Len(L) : k <= Len(M) /\ L[k].term = M[k].term => Agree(L, M, k)

\* Logs have lengths and terms.
LEMMA LogFacts ==
    ASSUME NEW L \in Seq(Entry)
    PROVE  /\ Len(L) \in Nat /\ DOMAIN L = 1..Len(L)
           /\ \A k \in 1..Len(L) : L[k] \in Entry /\ L[k].term \in Nat
  <1>1. \A k \in 1..Len(L) : L[k] \in Entry
    BY ElementOfSeq
  <1> QED BY <1>1, LenProperties DEF Entry

LEMMA AgreeParts ==
    ASSUME NEW L \in Seq(Entry), NEW M \in Seq(Entry), NEW k \in Int, NEW j \in Int,
           Agree(L, M, k), j <= k
    PROVE  Agree(L, M, j) /\ Agree(M, L, j)
  <1>1. Len(L) \in Nat /\ Len(M) \in Nat
    BY LogFacts
  <1> QED BY <1>1 DEF Agree

LEMMA AgreeChain ==
    ASSUME NEW L, NEW M, NEW N, NEW k, Agree(L, M, k), Agree(M, N, k)
    PROVE  Agree(L, N, k)
  BY DEF Agree

\* Logs of one length that agree are one log.
LEMMA AgreeSame ==
    ASSUME NEW L \in Seq(Entry), NEW M \in Seq(Entry), Len(L) = Len(M),
           Agree(L, M, Len(L))
    PROVE  L = M
  BY SeqEqual DEF Agree

\* A log with an entry more agrees with the log before.
LEMMA AppendAgrees ==
    ASSUME NEW L \in Seq(Entry), NEW e \in Entry
    PROVE  /\ Append(L, e) \in Seq(Entry) /\ Len(Append(L, e)) = Len(L) + 1
           /\ Append(L, e)[Len(L) + 1] = e /\ Len(L) \in Nat
           /\ \A k \in 1..Len(L) : Append(L, e)[k] = L[k]
           /\ Agree(L, Append(L, e), Len(L)) /\ Agree(Append(L, e), L, Len(L))
  <1>1. /\ Append(L, e) \in Seq(Entry) /\ Len(Append(L, e)) = Len(L) + 1
        /\ Append(L, e)[Len(L) + 1] = e
        /\ \A k \in 1..Len(L) : Append(L, e)[k] = L[k]
    BY AppendProperties
  <1>2. Len(L) \in Nat
    BY LogFacts
  <1> QED BY <1>1, <1>2 DEF Agree

\* The first n entries of a log, and those after its first n.
LEMMA PrefixIs ==
    ASSUME NEW L \in Seq(Entry), NEW n \in Nat, n <= Len(L)
    PROVE  /\ SubSeq(L, 1, n) \in Seq(Entry) /\ Len(SubSeq(L, 1, n)) = n
           /\ \A p \in 1..n : SubSeq(L, 1, n)[p] = L[p]
  <1>1. Len(L) \in Nat /\ \A p \in 1..n : L[p] \in Entry
    BY LenProperties, ElementOfSeq
  <1>2. \A p \in 1..n : SubSeq(L, 1, n)[p] = L[p]
    BY <1>1
  <1> QED BY <1>2, PrefixType

LEMMA SuffixIs ==
    ASSUME NEW L \in Seq(Entry), NEW n \in Nat, n <= Len(L)
    PROVE  /\ SubSeq(L, n + 1, Len(L)) \in Seq(Entry)
           /\ Len(SubSeq(L, n + 1, Len(L))) = Len(L) - n
           /\ \A p \in 1..(Len(L) - n) : SubSeq(L, n + 1, Len(L))[p] = L[n + p]
  <1>1. Len(L) \in Nat /\ \A p \in (n + 1)..Len(L) : L[p] \in Entry
    BY LenProperties, ElementOfSeq
  <1>2. SubSeq(L, n + 1, Len(L)) \in Seq(Entry)
    BY SuffixType
  <1>3. \A p \in 1..(Len(L) - n) : SubSeq(L, n + 1, Len(L))[p] = L[n + p]
    BY <1>1
  <1>4. Len(SubSeq(L, n + 1, Len(L))) = Len(L) - n
    BY <1>1
  <1> QED BY <1>2, <1>3, <1>4

\* Where an index of a log is in the entries a request adds to what is kept.
LEMMA Offsets ==
    ASSUME NEW a \in Nat, NEW n \in Nat, NEW e \in Nat, NEW k \in Nat, NEW p \in Nat,
           k = a + n, n <= e, k < p, p <= a + e
    PROVE  /\ p - k \in 1..(e - n) /\ n + (p - k) = p - a
           /\ p - a \in 1..e /\ a + (p - a) = p
  <1>1. p - k \in 1..(e - n)
    OBVIOUS
  <1>2. n + (p - k) = p - a
    OBVIOUS
  <1>3. p - a \in 1..e /\ a + (p - a) = p
    OBVIOUS
  <1> QED BY <1>1, <1>2, <1>3

\* A log kept up to where a request's entries begin, and the rest of the entries.
LEMMA Extended ==
    ASSUME NEW X \in Seq(Entry), NEW E \in Seq(Entry), NEW prev \in Nat,
           Ends(X, prev, E), NEW K \in Seq(Entry), prev <= Len(K), Agree(K, X, Len(K))
    PROVE  K \o SubSeq(E, Len(K) - prev + 1, Len(E)) = X
  <1>1. /\ Len(K) \in Nat /\ Len(E) \in Nat /\ Len(X) \in Nat /\ Len(K) <= Len(X)
        /\ Len(X) = prev + Len(E)
    BY LenProperties DEF Agree, Ends
  <1>2. PICK n \in Nat : n = Len(K) - prev /\ n <= Len(E) /\ Len(K) = prev + n
    <2>1. /\ Len(K) - prev \in Nat /\ Len(K) = prev + (Len(K) - prev)
          /\ Len(K) - prev <= Len(E)
      BY <1>1
    <2> QED BY <2>1, Zenon
  <1> DEFINE R == SubSeq(E, n + 1, Len(E))
  <1>3. /\ R \in Seq(Entry) /\ Len(R) = Len(E) - n
        /\ \A p \in 1..(Len(E) - n) : R[p] = E[n + p]
    BY <1>2, SuffixIs
  <1> HIDE DEF R
  <1>4. /\ K \o R \in Seq(Entry) /\ Len(K \o R) = Len(K) + Len(R)
        /\ \A p \in 1..(Len(K) + Len(R)) :
               (K \o R)[p] = IF p <= Len(K) THEN K[p] ELSE R[p - Len(K)]
    BY <1>3, ConcatProperties
  <1>5. Len(K \o R) = Len(X) /\ Len(K) + Len(R) = Len(X)
    <2>1. Len(K \o R) = Len(K) + Len(R) /\ Len(R) = Len(E) - n
      BY <1>3, <1>4
    <2>2. Len(K) + (Len(E) - n) = prev + Len(E)
      <3>1. PICK e \in Nat : e = Len(E)
        BY <1>1
      <3>2. (prev + n) + (e - n) = prev + e
        BY <1>2
      <3> QED BY <1>2, <3>1, <3>2
    <2> QED BY <1>1, <2>1, <2>2
  <1>6. ASSUME NEW p \in 1..Len(X) PROVE (K \o R)[p] = X[p]
    <2>1. CASE p <= Len(K)
      BY <1>1, <1>4, <1>5, <2>1 DEF Agree
    <2>2. CASE p > Len(K)
      <3>1. /\ p - Len(K) \in 1..(Len(E) - n) /\ n + (p - Len(K)) = p - prev
            /\ p - prev \in 1..Len(E) /\ prev + (p - prev) = p
        <4>1. PICK e \in Nat, k \in Nat : e = Len(E) /\ k = Len(K)
          BY <1>1
        <4>2. p \in Nat /\ k < p /\ p <= prev + e /\ k = prev + n /\ n <= e
          BY <1>1, <1>2, <2>2, <4>1
        <4>3. /\ p - k \in 1..(e - n) /\ n + (p - k) = p - prev
              /\ p - prev \in 1..e /\ prev + (p - prev) = p
          BY <1>2, <4>2, Offsets
        <4> QED BY <4>1, <4>3
      <3>2. R[p - Len(K)] = E[p - prev]
        BY <1>3, <3>1
      <3>3. E[p - prev] = X[p]
        BY <3>1 DEF Ends
      <3> QED BY <1>1, <1>4, <1>5, <2>2, <3>2, <3>3
    <2>3. p \in Nat
      BY <1>1
    <2>4. p <= Len(K) \/ p > Len(K)
      BY <1>1, <2>3
    <2> QED BY <2>1, <2>2, <2>4
  <1>7. K \o R = X
    BY <1>4, <1>5, <1>6, SeqEqual
  <1> QED BY <1>2, <1>7 DEF R

\* Comparing the last overlapping entry tells whether all of them are the same.
LEMMA LastOverlap ==
    ASSUME NEW l \in Seq(Entry), NEW X \in Seq(Entry), NEW E \in Seq(Entry),
           NEW prev \in Nat, prev <= Len(l), Ends(X, prev, E), Match(l, X),
           prev > 0 => l[prev].term = X[prev].term
    PROVE  LET index == Min2(Len(l), Len(X))
           IN  /\ Agree(l, X, prev)
               /\ E = <<>> => Len(X) = prev
               /\ E # <<>> /\ Len(l) > prev =>
                      (l[index].term = E[index - prev].term <=> Agree(l, X, index))
  <1> DEFINE index == Min2(Len(l), Len(X))
  <1>1. /\ Len(l) \in Nat /\ Len(X) \in Nat /\ Len(E) \in Nat
        /\ Len(X) = prev + Len(E) /\ (E = <<>> <=> Len(E) = 0)
    BY LenProperties, EmptySeq DEF Ends
  <1>2. Agree(l, X, prev)
    <2>1. CASE prev = 0
      BY <1>1, <2>1 DEF Agree
    <2>2. CASE prev > 0
      <3>1. prev \in 1..Len(l) /\ prev <= Len(X)
        BY <1>1, <2>2
      <3> QED BY <2>2, <3>1 DEF Match
    <2> QED BY <2>1, <2>2
  <1>3. index \in Nat /\ index <= Len(l) /\ index <= Len(X)
        /\ (index = Len(l) \/ index = Len(X))
    BY <1>1 DEF Min2
  <1> HIDE DEF index
  <1>4. ASSUME E # <<>>, Len(l) > prev
        PROVE  l[index].term = E[index - prev].term <=> Agree(l, X, index)
    <2>1. index \in 1..Len(l) /\ index - prev \in 1..Len(E) /\ prev + (index - prev) = index
      <3>1. PICK e \in Nat, a \in Nat, x \in Nat :
                e = Len(E) /\ a = Len(l) /\ x = Len(X) /\ e > 0 /\ a > prev /\ x = prev + e
        BY <1>1, <1>4
      <3>2. /\ index \in Nat /\ index <= a /\ index <= x /\ (index = a \/ index = x)
        BY <1>3, <3>1
      <3>3. index > prev /\ index - prev <= e
        BY <3>1, <3>2
      <3> QED BY <3>1, <3>2, <3>3
    <2>2. E[index - prev] = X[index]
      BY <2>1 DEF Ends
    <2>3. Agree(l, X, index) => l[index] = X[index]
      BY <1>1, <1>3, <2>1 DEF Agree
    <2> QED BY <1>3, <2>1, <2>2, <2>3 DEF Match
  <1>5. E = <<>> => Len(X) = prev
    BY <1>1
  <1> QED BY <1>2, <1>4, <1>5 DEF index

\* append_entries makes the log the one the request carries, unless the log has all
\* of that already: then it is left as it is, and what follows is kept.
LEMMA AppendedLogIs ==
    ASSUME NEW m \in AppendRequest, NEW l \in Seq(Entry), NEW X \in Seq(Entry),
           Carries(m, X), Follows(m, l), Match(l, X)
    PROVE  /\ AppendedLog(m, l) \in {l, X}
           /\ Agree(AppendedLog(m, l), X, Len(X))
           /\ Agree(l, X, Len(X)) => AppendedLog(m, l) = l
  <1> DEFINE E == m.entries
             prev == m.prev
             index == Min2(Len(l), Len(X))
             conflict == E # <<>> /\ Len(l) > prev /\ l[index].term # E[index - prev].term
             kept == IF conflict THEN SubSeq(l, 1, prev) ELSE l
  <1>1. /\ prev \in Nat /\ E \in Seq(Entry) /\ Len(E) \in Nat /\ Len(l) \in Nat
        /\ Len(X) \in Nat /\ Len(X) = prev + Len(E) /\ prev <= Len(l)
        /\ prev > 0 => l[prev].term = X[prev].term
    BY LenProperties DEF AppendRequest, Carries, Ends, Follows
  <1>2. AppendedLog(m, l) = IF Len(X) > Len(kept)
                            THEN kept \o SubSeq(E, Len(kept) - prev + 1, Len(E)) ELSE kept
    BY <1>1 DEF AppendedLog
  <1>3. /\ index \in Nat /\ index <= Len(l) /\ index <= Len(X)
        /\ (index = Len(l) \/ index = Len(X))
    BY <1>1 DEF Min2
  <1>0. Ends(X, prev, E)
    BY DEF Carries
  <1> HIDE DEF E, prev
  <1>4. /\ Agree(l, X, prev) /\ (E = <<>> => Len(X) = prev)
        /\ E # <<>> /\ Len(l) > prev =>
               (l[index].term = E[index - prev].term <=> Agree(l, X, index))
    BY <1>0, <1>1, LastOverlap
  <1>5. Agree(X, X, Len(X))
    BY <1>1 DEF Agree
  <1> HIDE DEF index
  <1>6. CASE conflict
    <2>1. kept = SubSeq(l, 1, prev)
      BY <1>6
    <2> HIDE DEF kept
    <2>2. /\ kept \in Seq(Entry) /\ Len(kept) = prev
          /\ \A p \in 1..prev : kept[p] = l[p]
      BY <1>1, <2>1, PrefixIs
    <2>3. Len(X) > Len(kept)
      BY <1>1, <1>3, <1>6, <2>2
    <2>4. Agree(kept, X, Len(kept))
      <3>1. prev <= Len(kept) /\ prev <= Len(X)
        BY <1>1, <2>2
      <3>2. \A p \in 1..prev : kept[p] = X[p]
        BY <1>4, <2>2 DEF Agree
      <3>3. Agree(kept, X, prev)
        BY <3>1, <3>2 DEF Agree
      <3> QED BY <2>2, <3>3
    <2>5. kept \o SubSeq(E, Len(kept) - prev + 1, Len(E)) = X
      <3>1. prev <= Len(kept)
        BY <1>1, <2>2
      <3> QED BY <1>0, <1>1, <2>2, <2>4, <3>1, Extended
    <2>6. ~Agree(l, X, index)
      BY <1>4, <1>6
    <2>7. Agree(l, X, Len(X)) => Agree(l, X, index)
      BY <1>1, <1>3, AgreeParts
    <2> QED BY <1>2, <1>5, <2>3, <2>5, <2>6, <2>7
  <1>7. CASE ~conflict
    <2>1. kept = l
      BY <1>7
    <2>2. E # <<>> /\ Len(l) > prev => Agree(l, X, index)
      BY <1>4, <1>7
    <2> HIDE DEF kept, conflict
    <2>3. CASE Len(X) > Len(l)
      <3>1. Agree(l, X, Len(l))
        BY <1>1, <1>3, <1>4, <2>2, <2>3
      <3>2. l \o SubSeq(E, Len(l) - prev + 1, Len(E)) = X
        BY <1>0, <1>1, <3>1, Extended
      <3>3. ~Agree(l, X, Len(X))
        BY <1>1, <2>3 DEF Agree
      <3> QED BY <1>2, <1>5, <2>1, <2>3, <3>2, <3>3
    <2>4. CASE Len(X) <= Len(l)
      <3>1. Agree(l, X, Len(X))
        BY <1>1, <1>3, <1>4, <2>2, <2>4
      <3> QED BY <1>1, <1>2, <2>1, <2>4, <3>1
    <2> QED BY <1>1, <2>3, <2>4
  <1> QED BY <1>6, <1>7
-----------------------------------------------------------------------------
(* The logs ever written. *)

USE NodeAssumption

\* Node i, or another, has the votes of a majority for the term i is in.
Winner(i) == Majority(Electors(i, current_term[i]))
OtherWinner(i) == \E d \in Node \ {i} : Majority(Electors(d, current_term[i]))

\* No vote is asked or given for a term its candidate has not reached.
Candidates ==
    /\ \A g \in grants : g.term <= current_term[g.candidate]
    /\ \A m \in vote_requests : m.term <= current_term[m.from]

\* Where two logs of T have an entry of one term the logs are the same up to the
\* first of them: the leader of a term only ever adds to its log.
Lineage(T) ==
    \A L, M \in T : \A j \in 1..Len(L), k \in 1..Len(M) :
        L[j].term = M[k].term /\ j <= k => Agree(L, M, j)

\* Every entry was written in a term somebody won.
Won(T) == \A L \in T : \A k \in 1..Len(L) : \E c \in Node : Majority(Electors(c, L[k].term))

\* The winner of its term has all the entries of that term.
Leading(T) ==
    \A i \in Node : Winner(i) =>
        \A M \in T : \A k \in 1..Len(M) :
            M[k].term = current_term[i] => Agree(M, log[i], k)

\* The logs of T are those in memory, on disk and in AppendEntries, among others.
\* What is in memory is on disk, unless append_entries raised an exception.
LogsHeld(T) == \A i \in Node : log[i] \in T /\ disk[i].log \in T
FilesHeld == \A i \in Node : disk[i].log = log[i] \/ OtherWinner(i)
RequestsHeld(T) == \A m \in append_requests : \E X \in T : Carries(m, X)

TreeInv(T) ==
    Lineage(T) /\ Won(T) /\ Leading(T) /\ LogsHeld(T) /\ FilesHeld /\ RequestsHeld(T)

LogInv ==
    /\ Candidates
    /\ late \subseteq {"ack"} => \E T \in SUBSET Seq(Entry) : TreeInv(T)

-----------------------------------------------------------------------------
(* Votes and terms. *)

\* Electors of now are electors later.
LEMMA WinnerStays ==
    ASSUME grants \subseteq grants', NEW i \in Node, current_term'[i] = current_term[i]
    PROVE  /\ Winner(i) => Winner(i)'
           /\ OtherWinner(i) => OtherWinner(i)'
  <1>1. \A c \in Node : Majority(Electors(c, current_term[i]))
                            => Majority(Electors(c, current_term[i])')
    <2> SUFFICES ASSUME NEW c \in Node, Majority(Electors(c, current_term[i]))
                 PROVE  Majority(Electors(c, current_term[i])')
      OBVIOUS
    <2>1. Electors(c, current_term[i]) \subseteq Electors(c, current_term[i])'
      BY DEF Electors
    <2> QED BY <2>1, MajorityGrows DEF Electors
  <1> QED BY <1>1 DEF Winner, OtherWinner, Electors, Majority

\* The winner of its term has no rival.
LEMMA NoRival ==
    ASSUME OneVotePerTerm, NEW i \in Node, Winner(i), NEW c, Majority(Electors(c, current_term[i]))
    PROVE  c = i
  BY OneWinner DEF Winner

\* A majority has a member.
LEMMA MajorityMember ==
    ASSUME NEW S \in SUBSET Node, Majority(S)
    PROVE  \E n \in Node : n \in S
  <1>1. S \cap S # {}
    BY MajoritiesMeet
  <1> QED BY <1>1

\* Who won a term has reached it.
LEMMA WinnerReached ==
    ASSUME Candidates, NEW c \in Node, NEW t, Majority(Electors(c, t))
    PROVE  t <= current_term[c]
  <1>1. Electors(c, t) \in SUBSET Node
    BY DEF Electors
  <1>2. PICK n \in Node : n \in Electors(c, t)
    BY <1>1, MajorityMember
  <1> QED BY <1>2 DEF Electors, Candidates

\* A term has one winner, after a step as before it.
LEMMA OneWinnerNext ==
    ASSUME OneVotePerTerm', NEW c \in Node, NEW d \in Node, NEW t,
           Majority(Electors(c, t)'), Majority(Electors(d, t)')
    PROVE  c = d
  <1>1. Electors(c, t)' \in SUBSET Node /\ Electors(d, t)' \in SUBSET Node
    BY DEF Electors
  <1>2. PICK n : n \in Electors(c, t)' \cap Electors(d, t)'
    BY <1>1, MajoritiesMeet
  <1>3. /\ [voter |-> n, candidate |-> c, term |-> t] \in grants'
        /\ [voter |-> n, candidate |-> d, term |-> t] \in grants'
    BY <1>2 DEF Electors
  <1> QED BY <1>3 DEF OneVotePerTerm

\* A winner of a term somebody had won before won it before, and is in it still.
LEMMA SameWinner ==
    ASSUME TypeOK, TypeOK', OneVotePerTerm', Candidates, grants \subseteq grants',
           NEW i \in Node, current_term'[i] >= current_term[i], Winner(i)',
           NEW c \in Node, Majority(Electors(c, current_term'[i]))
    PROVE  c = i /\ Winner(i) /\ current_term'[i] = current_term[i]
  <1>1. current_term[i] \in Nat /\ current_term'[i] \in Nat
    BY DEF TypeOK, NodeTypeOK
  <1>2. PICK t \in Nat : t = current_term'[i]
    BY <1>1
  <1>3. Majority(Electors(c, t)) /\ Majority(Electors(i, t)')
    BY <1>2 DEF Winner, Electors
  <1>4. Majority(Electors(c, t)')
    BY <1>3, ElectorsGrow
  <1>5. c = i
    BY <1>3, <1>4, OneWinnerNext
  <1>6. t <= current_term[i]
    BY <1>3, <1>5, WinnerReached
  <1> QED BY <1>1, <1>2, <1>3, <1>5, <1>6 DEF Winner

-----------------------------------------------------------------------------
(* Steps that write no entry. *)

\* Steps that leave a node's file as they leave its memory, or touch neither.
LEMMA FilesKept ==
    ASSUME FilesHeld, grants \subseteq grants',
           \A j \in Node :
               \/ disk'[j].log = log'[j]
               \/ OtherWinner(j)'
               \/ /\ disk'[j].log = disk[j].log /\ log'[j] = log[j]
                  /\ current_term'[j] = current_term[j]
    PROVE  FilesHeld'
  <1> SUFFICES ASSUME NEW j \in Node PROVE disk'[j].log = log'[j] \/ OtherWinner(j)'
    BY DEF FilesHeld
  <1>1. CASE /\ disk'[j].log = disk[j].log /\ log'[j] = log[j]
             /\ current_term'[j] = current_term[j]
    BY <1>1, WinnerStays DEF FilesHeld
  <1> QED BY <1>1

\* The logs ever written after a step that writes no entry.
LEMMA TreeKept ==
    ASSUME TypeOK, TypeOK', OneVotePerTerm', Candidates, grants \subseteq grants',
           \A i \in Node : current_term'[i] >= current_term[i],
           NEW T \in SUBSET Seq(Entry), TreeInv(T),
           LogsHeld(T)', FilesHeld', RequestsHeld(T)',
           \A i \in Node :
               Winner(i) /\ current_term'[i] = current_term[i] => log'[i] = log[i]
    PROVE  TreeInv(T)'
  <1>1. Lineage(T)'
    BY DEF TreeInv, Lineage, Agree
  <1>2. Won(T)'
    <2> SUFFICES ASSUME NEW L \in T, NEW k \in 1..Len(L)
                 PROVE  \E c \in Node : Majority(Electors(c, L[k].term)')
      BY DEF Won, Electors, Majority
    <2>1. PICK c \in Node : Majority(Electors(c, L[k].term))
      BY DEF TreeInv, Won
    <2> QED BY <2>1, ElectorsGrow
  <1>3. Leading(T)'
    <2> SUFFICES ASSUME NEW i \in Node, Winner(i)',
                        NEW M \in T, NEW k \in 1..Len(M), M[k].term = current_term'[i]
                 PROVE  Agree(M, log[i], k)'
      BY DEF Leading
    <2>1. PICK c \in Node : Majority(Electors(c, M[k].term))
      BY DEF TreeInv, Won
    <2>2. Majority(Electors(c, current_term'[i])) /\ current_term'[i] >= current_term[i]
      BY <2>1
    <2>3. Winner(i) /\ current_term'[i] = current_term[i]
      BY <2>2, SameWinner
    <2>4. log'[i] = log[i] /\ Agree(M, log[i], k)
      BY <2>3 DEF TreeInv, Leading
    <2> QED BY <2>4 DEF Agree
  <1> QED BY <1>1, <1>2, <1>3 DEF TreeInv

\* A request m of now carries what one of before did.
SameCall(m, n) ==
    /\ SameRequest(m, n) /\ m.prev = n.prev /\ m.prev_term = n.prev_term
    /\ m.entries = n.entries /\ m.commit = n.commit

LEMMA RequestsHeldKept ==
    ASSUME NEW T, RequestsHeld(T),
           \A m \in append_requests' : \E n \in append_requests : SameCall(m, n)
    PROVE  RequestsHeld(T)'
  <1> SUFFICES ASSUME NEW m \in append_requests' PROVE \E X \in T : Carries(m, X)
    BY DEF RequestsHeld, Carries, Ends
  <1>1. PICK n \in append_requests : SameCall(m, n)
    OBVIOUS
  <1>2. PICK X \in T : Carries(n, X)
    BY DEF RequestsHeld
  <1>3. Carries(m, X)
    BY <1>1, <1>2 DEF SameCall, Carries
  <1> QED BY <1>3

\* A call that failed carries what it did.
LEMMA DeadCallSame ==
    ASSUME NEW m \in AppendRequest
    PROVE  /\ SameCall([m EXCEPT !.live = FALSE, !.slot = 0], m)
           /\ ~[m EXCEPT !.live = FALSE, !.slot = 0].live
  BY DEF SameCall, SameRequest, AppendRequest

LEMMA FailedCallsSame ==
    ASSUME TypeOK, AppendCallFails, NEW m \in append_requests'
    PROVE  \E n \in append_requests : SameCall(m, n) /\ (m.live => n.live)
  <1>1. CASE m \in append_requests
    BY <1>1 DEF SameCall, SameRequest
  <1>2. CASE m \notin append_requests
    <2>1. PICK n \in append_requests : m = [n EXCEPT !.live = FALSE, !.slot = 0]
      BY <1>2 DEF AppendCallFails
    <2>2. n \in AppendRequest
      BY DEF TypeOK, CallTypeOK
    <2> QED BY <2>1, <2>2, DeadCallSame
  <1> QED BY <1>1, <1>2

LEMMA RestartedCallsSame ==
    ASSUME TypeOK, NEW i \in Node, Restart(i), NEW m \in append_requests'
    PROVE  \E n \in append_requests : SameCall(m, n) /\ (m.live => n.live /\ m.from # i)
  <1>1. append_requests' = {IF n.from = i THEN [n EXCEPT !.live = FALSE, !.slot = 0]
                            ELSE n : n \in {o \in append_requests : o.to # i}}
    BY DEF Restart
  <1>2. PICK n \in append_requests :
            m = IF n.from = i THEN [n EXCEPT !.live = FALSE, !.slot = 0] ELSE n
    BY <1>1
  <1>3. n \in AppendRequest
    BY DEF TypeOK, CallTypeOK
  <1>4. CASE n.from = i
    BY <1>2, <1>3, <1>4, DeadCallSame
  <1>5. CASE n.from # i
    BY <1>2, <1>5 DEF SameCall, SameRequest
  <1> QED BY <1>4, <1>5

-----------------------------------------------------------------------------
(* Steps that write an entry, and those that receive some. *)

\* i appends an entry of its term with value v and saves its log.
Appends(i, v) ==
    /\ log' = [log EXCEPT ![i] = Append(@, [term |-> current_term[i], value |-> v])]
    /\ UNCHANGED <<current_term, grants, append_requests>> /\ SaveState(i)

\* The log N that is written: the one before and an entry more.
LEMMA AppendsWhat ==
    ASSUME TypeOK, NEW i \in Node, NEW v \in Value \cup {None}, Appends(i, v)
    PROVE  /\ log'[i] \in Seq(Entry) /\ Len(log'[i]) = Len(log[i]) + 1
           /\ log'[i][Len(log[i]) + 1] = [term |-> current_term[i], value |-> v]
           /\ \A k \in 1..Len(log[i]) : log'[i][k] = log[i][k]
           /\ log[i] \in Seq(Entry) /\ Len(log[i]) \in Nat
           /\ disk'[i].log = log'[i]
           /\ \A j \in Node \ {i} : log'[j] = log[j] /\ disk'[j] = disk[j]
  <1>1. /\ log \in [Node -> Seq(Entry)] /\ disk \in [Node -> File]
        /\ current_term[i] \in Nat
    BY DEF TypeOK, NodeTypeOK, DiskTypeOK
  <1>2. [term |-> current_term[i], value |-> v] \in Entry
    BY <1>1 DEF Entry
  <1>3. log'[i] = Append(log[i], [term |-> current_term[i], value |-> v])
    BY <1>1 DEF Appends
  <1>4. log[i] \in Seq(Entry)
    BY <1>1
  <1>5. /\ log'[i] \in Seq(Entry) /\ Len(log'[i]) = Len(log[i]) + 1
        /\ log'[i][Len(log[i]) + 1] = [term |-> current_term[i], value |-> v]
        /\ \A k \in 1..Len(log[i]) : log'[i][k] = log[i][k]
    BY <1>2, <1>3, <1>4, AppendAgrees
  <1>6. disk'[i].log = log'[i] /\ \A j \in Node \ {i} : disk'[j] = disk[j]
    BY <1>1 DEF Appends, SaveState, Saved
  <1>7. \A j \in Node \ {i} : log'[j] = log[j]
    BY <1>1 DEF Appends
  <1> QED BY <1>4, <1>5, <1>6, <1>7, LogFacts

\* A log N that continues L agrees with every log L agrees with.
LEMMA AgreeLonger ==
    ASSUME NEW L \in Seq(Entry), NEW N \in Seq(Entry), Len(N) = Len(L) + 1,
           \A k \in 1..Len(L) : N[k] = L[k]
    PROVE  /\ \A M \in Seq(Entry), j \in Nat :
                  /\ Agree(M, L, j) => Agree(M, N, j)
                  /\ Agree(L, M, j) => Agree(N, M, j)
           /\ Agree(L, N, Len(L)) /\ Agree(N, L, Len(L)) /\ Agree(N, N, Len(N))
           /\ \A j \in Nat : j <= Len(L) => Agree(N, L, j) /\ Agree(L, N, j)
  <1>1. Len(L) \in Nat /\ Len(N) \in Nat
    BY LogFacts
  <1>2. ASSUME NEW M \in Seq(Entry), NEW j \in Nat
        PROVE  /\ Agree(M, L, j) => Agree(M, N, j)
               /\ Agree(L, M, j) => Agree(N, M, j)
    BY <1>1 DEF Agree
  <1>3. \A j \in Nat : j <= Len(L) => Agree(N, L, j) /\ Agree(L, N, j)
    BY <1>1 DEF Agree
  <1>4. Agree(N, N, Len(N))
    BY <1>1 DEF Agree
  <1> QED BY <1>1, <1>2, <1>3, <1>4

\* The logs ever written when the winner of a term writes an entry.
LEMMA TreeAppends ==
    ASSUME TypeOK, OneVotePerTerm, NEW T \in SUBSET Seq(Entry), TreeInv(T),
           NEW i \in Node, NEW v \in Value \cup {None}, Winner(i), Appends(i, v),
           NEW N, N = log'[i]
    PROVE  T \cup {N} \in SUBSET Seq(Entry) /\ TreeInv(T \cup {N})'
  <1> DEFINE L == log[i]
             n == Len(log[i]) + 1
  <1>1. /\ N \in Seq(Entry) /\ Len(N) = Len(L) + 1 /\ L \in Seq(Entry) /\ Len(L) \in Nat
        /\ N[n].term = current_term[i] /\ \A k \in 1..Len(L) : N[k] = L[k]
        /\ disk'[i].log = N
        /\ \A j \in Node \ {i} : log'[j] = log[j] /\ disk'[j] = disk[j]
        /\ UNCHANGED <<current_term, grants, append_requests>>
    <2>1. /\ log'[i] \in Seq(Entry) /\ Len(log'[i]) = Len(log[i]) + 1
          /\ log'[i][n] = [term |-> current_term[i], value |-> v]
          /\ \A k \in 1..Len(log[i]) : log'[i][k] = log[i][k]
          /\ log[i] \in Seq(Entry) /\ Len(log[i]) \in Nat
          /\ disk'[i].log = log'[i]
          /\ \A j \in Node \ {i} : log'[j] = log[j] /\ disk'[j] = disk[j]
      BY AppendsWhat
    <2>2. UNCHANGED <<current_term, grants, append_requests>>
      BY DEF Appends
    <2> QED BY <2>1, <2>2
  <1>2. L \in T
    BY DEF TreeInv, LogsHeld
  <1> HIDE DEF L
  <1>3. /\ \A M \in Seq(Entry), j \in Nat : Agree(M, L, j) => Agree(M, N, j)
        /\ \A M \in Seq(Entry), j \in Nat : Agree(L, M, j) => Agree(N, M, j)
        /\ Agree(N, N, Len(N))
        /\ \A j \in Nat : j <= Len(L) => Agree(N, L, j)
    BY <1>1, AgreeLonger
  <1>4. ASSUME NEW k \in 1..Len(N)
        PROVE  \/ k \in 1..Len(L) /\ N[k] = L[k]
               \/ k = n /\ N[k].term = current_term[i]
    <2>1. k <= Len(L) \/ k = Len(L) + 1
      BY <1>1
    <2>2. CASE k <= Len(L)
      <3>1. k \in 1..Len(L)
        BY <1>1, <2>2
      <3> QED BY <1>1, <3>1
    <2>3. CASE k = Len(L) + 1
      BY <1>1, <2>3 DEF L
    <2> QED BY <2>1, <2>2, <2>3
  <1>5. \A M \in T : \A k \in 1..Len(M) : M[k].term = current_term[i] => Agree(M, L, k)
    BY DEF TreeInv, Leading, L
  <1>6. n = Len(L) + 1 /\ n \in Nat
    BY <1>1 DEF L
  <1> HIDE DEF n
  <1>7. Lineage(T \cup {N})'
    <2> SUFFICES ASSUME NEW P \in T \cup {N}, NEW M \in T \cup {N},
                        NEW j \in 1..Len(P), NEW k \in 1..Len(M),
                        P[j].term = M[k].term, j <= k
                 PROVE  Agree(P, M, j)
      BY DEF Lineage, Agree
    <2>0. Lineage(T) /\ Len(P) \in Nat /\ Len(M) \in Nat
      BY <1>1, LogFacts DEF TreeInv
    <2>1. CASE P \in T /\ M \in T
      BY <2>0, <2>1 DEF Lineage
    <2>2. CASE P = N /\ M \in T
      <3>1. CASE j \in 1..Len(L)
        <4>1. Agree(L, M, j)
          BY <1>1, <1>2, <2>0, <2>2, <3>1 DEF Lineage
        <4> QED BY <1>3, <2>2, <4>1
      <3>2. CASE j = n
        <4>1. Agree(M, L, k)
          BY <1>1, <1>5, <2>2, <3>2
        <4> QED BY <1>1, <1>6, <2>0, <3>2, <4>1 DEF Agree
      <3> QED BY <1>4, <2>2, <3>1, <3>2
    <2>3. CASE P \in T /\ M = N
      <3>1. CASE k \in 1..Len(L)
        <4>1. Agree(P, L, j)
          BY <1>1, <1>2, <2>0, <2>3, <3>1 DEF Lineage
        <4> QED BY <1>3, <2>3, <4>1
      <3>2. CASE k = n
        <4>1. Agree(P, L, j)
          BY <1>1, <1>5, <2>3, <3>2
        <4> QED BY <1>3, <2>3, <4>1
      <3> QED BY <1>4, <2>3, <3>1, <3>2
    <2>4. CASE P = N /\ M = N
      BY <1>1, <2>4 DEF Agree
    <2> QED BY <2>1, <2>2, <2>3, <2>4
  <1>8. Won(T \cup {N})'
    <2> SUFFICES ASSUME NEW P \in T \cup {N}, NEW k \in 1..Len(P)
                 PROVE  \E c \in Node : Majority(Electors(c, P[k].term))
      BY <1>1 DEF Won, Electors, Majority
    <2>1. CASE P \in T
      BY <2>1 DEF TreeInv, Won
    <2>2. CASE P = N
      <3>1. CASE k \in 1..Len(L) /\ N[k] = L[k]
        BY <1>2, <2>2, <3>1 DEF TreeInv, Won
      <3>2. CASE N[k].term = current_term[i]
        BY <2>2, <3>2 DEF Winner
      <3> QED BY <1>4, <2>2, <3>1, <3>2
    <2> QED BY <2>1, <2>2
  <1>9. Leading(T \cup {N})'
    <2> SUFFICES ASSUME NEW j \in Node, Winner(j), NEW M \in T \cup {N},
                        NEW k \in 1..Len(M), M[k].term = current_term[j]
                 PROVE  Agree(M, log'[j], k)
      BY <1>1 DEF Leading, Winner, Electors, Majority, Agree
    <2>1. CASE j = i
      <3>1. CASE M \in T
        BY <1>3, <1>5, <2>1, <3>1
      <3>2. CASE M = N
        BY <1>1, <2>1, <3>2 DEF Agree
      <3> QED BY <3>1, <3>2
    <2>2. CASE j # i
      <3>1. current_term[j] # current_term[i]
        BY <2>2, NoRival DEF Winner
      <3>2. CASE M \in T
        BY <1>1, <2>2, <3>2 DEF TreeInv, Leading
      <3>3. CASE M = N
        <4>1. k \in 1..Len(L) /\ L[k].term = current_term[j]
          BY <1>4, <3>1, <3>3
        <4>2. Agree(L, log[j], k)
          BY <1>2, <4>1 DEF TreeInv, Leading
        <4>3. log[j] \in Seq(Entry) /\ k \in Nat
          BY <4>1 DEF TypeOK, NodeTypeOK
        <4> QED BY <1>1, <1>3, <2>2, <3>3, <4>2, <4>3
      <3> QED BY <3>2, <3>3
    <2> QED BY <2>1, <2>2
  <1>10. LogsHeld(T \cup {N})'
    BY <1>1 DEF TreeInv, LogsHeld
  <1>11. FilesHeld'
    BY <1>1, FilesKept DEF TreeInv
  <1>12. RequestsHeld(T \cup {N})'
    BY <1>1 DEF TreeInv, RequestsHeld, Carries, Ends
  <1> QED BY <1>1, <1>7, <1>8, <1>9, <1>10, <1>11, <1>12 DEF TreeInv

\* What AppendEntries does to logs, files and terms.
Accepts(m) == m.term >= current_term[m.to] /\ Follows(m, log[m.to])
Received(m) == IF Accepts(m) THEN AppendedLog(m, log[m.to]) ELSE log[m.to]

LEMMA ReceivesWhat ==
    ASSUME TypeOK, NEW m \in append_requests, HandleAppendEntries(m)
    PROVE  /\ m \in AppendRequest /\ m.to \in Node /\ m.from \in Node /\ m.term \in Nat
           /\ log' = [log EXCEPT ![m.to] = Received(m)]
           /\ log'[m.to] = Received(m) /\ log[m.to] \in Seq(Entry)
           /\ current_term' = [current_term EXCEPT ![m.to] = Max2(@, m.term)]
           /\ current_term'[m.to] = Max2(current_term[m.to], m.term)
           /\ Accepts(m) => current_term'[m.to] = m.term
           /\ \A j \in Node \ {m.to} : /\ log'[j] = log[j] /\ disk'[j] = disk[j]
                                       /\ current_term'[j] = current_term[j]
           /\ append_requests' = append_requests \ {m} /\ UNCHANGED grants
           /\ \/ disk'[m.to].log = log'[m.to]
              \/ /\ Accepts(m) /\ m.commit > Len(log'[m.to])
                 /\ disk'[m.to].log \in {log[m.to], disk[m.to].log}
              \/ /\ ~Accepts(m) /\ disk'[m.to].log = disk[m.to].log
                 /\ current_term'[m.to] = current_term[m.to]
  <1> DEFINE i == m.to
             commits == Accepts(m) /\ LeaderAhead(m, commit_length[i])
             raises == commits /\ m.commit > Len(Received(m))
             newer == m.term > current_term[i]
  <1>1. m \in AppendRequest /\ i \in Node /\ m.from \in Node /\ m.term \in Nat
    BY DEF TypeOK, CallTypeOK, AppendRequest
  <1>2. /\ log \in [Node -> Seq(Entry)] /\ current_term \in [Node -> Nat]
        /\ disk \in [Node -> File] /\ current_term[i] \in Nat
    BY <1>1 DEF TypeOK, NodeTypeOK, DiskTypeOK
  <1>3. /\ log' = [log EXCEPT ![i] = Received(m)]
        /\ current_term' = [current_term EXCEPT ![i] = Max2(@, m.term)]
        /\ append_requests' = append_requests \ {m} /\ UNCHANGED grants
    BY DEF HandleAppendEntries, Received, Accepts, otherVars
  <1>4. \/ Accepts(m) /\ ~raises /\ SaveState(i)
        \/ /\ newer /\ ~(Accepts(m) /\ ~raises)
           /\ disk' = [disk EXCEPT ![i] = Saved(log[i], m.term, None, commit_length[i])]
        \/ ~newer /\ ~(Accepts(m) /\ ~raises) /\ UNCHANGED disk
    BY DEF HandleAppendEntries, Received, Accepts
  <1>5. /\ log'[i] = Received(m) /\ current_term'[i] = Max2(current_term[i], m.term)
        /\ \A j \in Node \ {i} : log'[j] = log[j] /\ current_term'[j] = current_term[j]
    BY <1>1, <1>2, <1>3
  <1>6. Accepts(m) => current_term'[i] = m.term
    BY <1>1, <1>2, <1>5 DEF Accepts, Max2
  <1>7. \A j \in Node \ {i} : disk'[j] = disk[j]
    BY <1>2, <1>4 DEF SaveState
  <1>8. CASE Accepts(m) /\ ~raises /\ SaveState(i)
    <2>1. disk'[i].log = log'[i]
      BY <1>1, <1>2, <1>8 DEF SaveState, Saved
    <2> QED BY <1>1, <1>2, <1>3, <1>5, <1>6, <1>7, <2>1
  <1>9. CASE newer /\ disk' = [disk EXCEPT ![i] =
                                   Saved(log[i], m.term, None, commit_length[i])]
             /\ ~(Accepts(m) /\ ~raises)
    <2>1. disk'[i].log = log[i]
      BY <1>1, <1>2, <1>9 DEF Saved
    <2>2. CASE Accepts(m)
      <3>1. m.commit > Len(log'[i])
        BY <1>5, <1>9, <2>2
      <3> QED BY <1>1, <1>2, <1>3, <1>5, <1>6, <1>7, <2>1, <2>2, <3>1
    <2>3. CASE ~Accepts(m)
      <3>1. log'[i] = log[i]
        BY <1>5, <2>3 DEF Received
      <3> QED BY <1>1, <1>2, <1>3, <1>5, <1>6, <1>7, <2>1, <3>1
    <2> QED BY <2>2, <2>3
  <1>10. CASE ~newer /\ UNCHANGED disk /\ ~(Accepts(m) /\ ~raises)
    <2>1. CASE Accepts(m)
      <3>1. m.commit > Len(log'[i])
        BY <1>5, <1>10, <2>1
      <3> QED BY <1>1, <1>2, <1>3, <1>5, <1>6, <1>7, <1>10, <2>1, <3>1
    <2>2. CASE ~Accepts(m)
      <3>1. current_term'[i] = current_term[i]
        BY <1>1, <1>2, <1>5, <1>10 DEF Max2
      <3> QED BY <1>1, <1>2, <1>3, <1>5, <1>6, <1>7, <1>10, <2>2, <3>1
    <2> QED BY <2>1, <2>2
  <1> QED BY <1>4, <1>8, <1>9, <1>10

\* Logs of one tree match.
LEMMA TreeMatches ==
    ASSUME NEW T, Lineage(T), NEW L \in T, NEW M \in T
    PROVE  Match(L, M)
  <1> SUFFICES ASSUME NEW k \in 1..Len(L), k <= Len(M), L[k].term = M[k].term
               PROVE  Agree(L, M, k)
    BY DEF Match
  <1>1. CASE Len(M) \in Nat
    <2>1. k \in 1..Len(M) /\ k <= k
      BY <1>1
    <2> QED BY <2>1 DEF Lineage
  <1> QED BY <1>1 DEF Lineage

\* The log after AppendEntries is the one before or the one the request carries.
LEMMA ReceivedIs ==
    ASSUME TypeOK, NEW m \in append_requests, NEW X \in Seq(Entry), Carries(m, X),
           Accepts(m), Match(log[m.to], X)
    PROVE  /\ Received(m) \in {log[m.to], X}
           /\ Agree(Received(m), X, Len(X))
           /\ Agree(log[m.to], X, Len(X)) => Received(m) = log[m.to]
  <1>1. m \in AppendRequest /\ log[m.to] \in Seq(Entry)
    BY DEF TypeOK, CallTypeOK, AppendRequest, NodeTypeOK
  <1> QED BY <1>1, AppendedLogIs DEF Accepts, Received

LEMMA TreeReceives ==
    ASSUME TypeOK, TypeOK', OneVotePerTerm, OneVotePerTerm', Candidates, RequestsLed,
           \A i \in Node : current_term'[i] >= current_term[i],
           NEW T \in SUBSET Seq(Entry), TreeInv(T),
           NEW m \in append_requests, HandleAppendEntries(m)
    PROVE  TreeInv(T)'
  <1> DEFINE i == m.to
  <1>1. /\ i \in Node /\ log'[i] = Received(m)
        /\ Accepts(m) => current_term'[i] = m.term
        /\ \A j \in Node \ {i} : /\ log'[j] = log[j] /\ disk'[j] = disk[j]
                                 /\ current_term'[j] = current_term[j]
        /\ append_requests' = append_requests \ {m} /\ UNCHANGED grants
        /\ \/ disk'[i].log = log'[i]
           \/ Accepts(m) /\ disk'[i].log \in {log[i], disk[i].log}
           \/ /\ ~Accepts(m) /\ disk'[i].log = disk[i].log
              /\ current_term'[i] = current_term[i]
    BY ReceivesWhat
  <1>2. PICK X \in T : Carries(m, X)
    BY DEF TreeInv, RequestsHeld
  <1>3. log[i] \in T /\ disk[i].log \in T /\ Lineage(T)
    BY <1>1 DEF TreeInv, LogsHeld
  <1>4. log'[i] \in T
    <2>1. CASE Accepts(m)
      <3>1. Match(log[i], X)
        BY <1>2, <1>3, TreeMatches
      <3>2. Received(m) \in {log[i], X}
        BY <1>2, <2>1, <3>1, ReceivedIs
      <3> QED BY <1>1, <1>2, <1>3, <3>2
    <2>2. CASE ~Accepts(m)
      BY <1>1, <1>3, <2>2 DEF Received
    <2> QED BY <2>1, <2>2
  <1>5. m.from # i /\ m.from \in Node /\ Majority(Electors(m.from, m.term))
    BY DEF RequestsLed, TypeOK, CallTypeOK, AppendRequest
  <1>6. Accepts(m) => OtherWinner(i)'
    BY <1>1, <1>5 DEF OtherWinner, Electors, Majority
  <1>7. LogsHeld(T)'
    BY <1>1, <1>3, <1>4 DEF TreeInv, LogsHeld
  <1>8. FilesHeld'
    <2>1. ~Accepts(m) => log'[i] = log[i]
      BY <1>1 DEF Received
    <2> HIDE DEF i
    <2> QED BY <1>1, <1>6, <2>1, FilesKept DEF TreeInv
  <1>9. RequestsHeld(T)'
    BY <1>1 DEF TreeInv, RequestsHeld, Carries, Ends
  <1>10. ASSUME NEW j \in Node, Winner(j), current_term'[j] = current_term[j]
         PROVE  log'[j] = log[j]
    <2>1. CASE j # i
      BY <1>1, <2>1
    <2>2. CASE j = i /\ Accepts(m)
      <3>1. m.from = i
        BY <1>1, <1>5, <1>10, <2>2, NoRival
      <3> QED BY <1>5, <3>1
    <2>3. CASE j = i /\ ~Accepts(m)
      BY <1>1, <2>3 DEF Received
    <2> QED BY <2>1, <2>2, <2>3
  <1>11. grants \subseteq grants'
    BY <1>1
  <1> HIDE DEF i
  <1> QED BY <1>7, <1>8, <1>9, <1>10, <1>11, TreeKept

\* Logs after a step that changes none, whatever it saves.
LEMMA TreeStill ==
    ASSUME TypeOK, TypeOK', OneVotePerTerm', Candidates, grants \subseteq grants',
           \A i \in Node : current_term'[i] >= current_term[i],
           NEW T \in SUBSET Seq(Entry), TreeInv(T), UNCHANGED log,
           \A j \in Node :
               \/ disk'[j].log = log[j]
               \/ disk'[j].log = disk[j].log /\ current_term'[j] = current_term[j],
           \A m \in append_requests' : \E n \in append_requests : SameCall(m, n)
    PROVE  TreeInv(T)'
  <1>1. LogsHeld(T)'
    BY DEF TreeInv, LogsHeld
  <1>2. FilesHeld'
    BY FilesKept DEF TreeInv
  <1>3. RequestsHeld(T)'
    BY RequestsHeldKept DEF TreeInv
  <1> QED BY <1>1, <1>2, <1>3, TreeKept

\* A request carries its sender's log.
LEMMA SendsOwnLog ==
    ASSUME TypeOK, NEW t \in append_tasks, SendAppendEntries(t)
    PROVE  \A m \in append_requests' :
               \/ m \in append_requests
               \/ /\ m.from = t.from /\ m.to = t.to /\ m.term = current_term[t.from]
                  /\ m.commit = commit_length[t.from] /\ m.live = TRUE
                  /\ Carries(m, log[t.from])
  <1> DEFINE i == t.from
             prefix == sent_length[i][t.to]
             request ==
                 [from |-> i, to |-> t.to, slot |-> t.slot, live |-> TRUE,
                  term |-> current_term[i], prev |-> prefix,
                  prev_term |-> IF prefix > 0 THEN log[i][prefix].term ELSE 0,
                  entries |-> SubSeq(log[i], prefix + 1, Len(log[i])),
                  commit |-> commit_length[i]]
  <1>1. /\ i \in Node /\ t.to \in Node /\ log[i] \in Seq(Entry) /\ prefix \in Nat
    <2>1. i \in Node /\ t.to \in Node
      BY DEF TypeOK, CallTypeOK, AppendTask
    <2>2. log \in [Node -> Seq(Entry)] /\ sent_length \in [Node -> [Node -> Nat]]
      BY DEF TypeOK, NodeTypeOK
    <2> QED BY <2>1, <2>2
  <1>2. SUFFICES ASSUME NEW m \in append_requests', m \notin append_requests
                 PROVE  /\ m.from = t.from /\ m.to = t.to /\ m.term = current_term[t.from]
                        /\ m.commit = commit_length[t.from] /\ m.live = TRUE
                        /\ Carries(m, log[t.from])
    OBVIOUS
  <1>3. /\ m.from = i /\ m.to = t.to /\ m.term = current_term[i]
        /\ m.commit = commit_length[i] /\ m.live = TRUE /\ m.prev = prefix
        /\ prefix > 0 => m.prev_term = log[i][prefix].term
        /\ m.entries = SubSeq(log[i], prefix + 1, Len(log[i])) /\ prefix <= Len(log[i])
    <2>1. append_requests' = append_requests \cup {q \in {request} : prefix <= Len(log[i])}
      BY DEF SendAppendEntries
    <2>2. m = request /\ prefix <= Len(log[i])
      BY <1>2, <2>1
    <2> QED BY <2>2
  <1> HIDE DEF prefix, i
  <1>4. /\ Len(m.entries) = Len(log[i]) - prefix
        /\ \A p \in 1..(Len(log[i]) - prefix) : m.entries[p] = log[i][prefix + p]
    <2>1. PICK L \in Seq(Entry) : L = log[i]
      BY <1>1
    <2>2. PICK n \in Nat : n = prefix
      BY <1>1
    <2>3. n <= Len(L) /\ m.entries = SubSeq(L, n + 1, Len(L))
      BY <1>3, <2>1, <2>2
    <2>4. /\ Len(m.entries) = Len(L) - n
          /\ \A p \in 1..(Len(L) - n) : m.entries[p] = L[n + p]
      BY <2>3, SuffixIs
    <2> QED BY <2>1, <2>2, <2>4
  <1>5. Len(log[i]) \in Nat
    BY <1>1, LogFacts
  <1>6. Len(log[i]) = prefix + Len(m.entries)
    <2>1. PICK a \in Nat, b \in Nat : a = Len(log[i]) /\ b = prefix
      BY <1>1, <1>5
    <2>2. a = b + (a - b)
      OBVIOUS
    <2> QED BY <1>4, <2>1, <2>2
  <1>7. Ends(log[i], prefix, m.entries)
    BY <1>4, <1>6 DEF Ends
  <1> QED BY <1>3, <1>7 DEF Carries, i

LEMMA TreeSends ==
    ASSUME TypeOK, TypeOK', OneVotePerTerm', Candidates,
           \A i \in Node : current_term'[i] >= current_term[i],
           NEW T \in SUBSET Seq(Entry), TreeInv(T),
           NEW t \in append_tasks, SendAppendEntries(t)
    PROVE  TreeInv(T)'
  <1>1. UNCHANGED <<log, disk, current_term, grants>>
    BY DEF SendAppendEntries, durableVars, otherVars
  <1>2. LogsHeld(T)' /\ FilesHeld'
    <2>1. LogsHeld(T)'
      BY <1>1 DEF TreeInv, LogsHeld
    <2> QED BY <1>1, <2>1, FilesKept DEF TreeInv
  <1>3. log[t.from] \in T
    BY DEF TreeInv, LogsHeld, TypeOK, CallTypeOK, AppendTask
  <1>4. RequestsHeld(T)'
    <2> SUFFICES ASSUME NEW m \in append_requests' PROVE \E X \in T : Carries(m, X)
      BY DEF RequestsHeld, Carries, Ends
    <2>1. m \in append_requests \/ Carries(m, log[t.from])
      BY SendsOwnLog
    <2> QED BY <1>3, <2>1 DEF TreeInv, RequestsHeld
  <1>5. grants \subseteq grants' /\ \A i \in Node : log'[i] = log[i]
    BY <1>1
  <1> QED BY <1>2, <1>4, <1>5, TreeKept

\* A restarted node has its log, unless it had to append entries of another leader
\* and an exception kept it from saving them.
LEMMA TreeRestarts ==
    ASSUME TypeOK, TypeOK', OneVotePerTerm, OneVotePerTerm', Candidates, DiskInv,
           \A i \in Node : current_term'[i] >= current_term[i],
           NEW T \in SUBSET Seq(Entry), TreeInv(T), NEW i \in Node, Restart(i)
    PROVE  TreeInv(T)'
  <1>1. /\ log' = [log EXCEPT ![i] = disk[i].log] /\ UNCHANGED <<disk, grants>>
        /\ current_term' = [current_term EXCEPT ![i] = disk[i].term]
    BY DEF Restart
  <1>2. /\ log'[i] = disk[i].log /\ \A j \in Node \ {i} : log'[j] = log[j]
        /\ UNCHANGED current_term
    BY <1>1 DEF TypeOK, NodeTypeOK, DiskInv
  <1>3. LogsHeld(T)'
    BY <1>1, <1>2 DEF TreeInv, LogsHeld
  <1>4. FilesHeld'
    BY <1>1, <1>2, FilesKept DEF TreeInv
  <1>5. RequestsHeld(T)'
    BY RestartedCallsSame, RequestsHeldKept DEF TreeInv
  <1>6. ASSUME NEW j \in Node, Winner(j) PROVE log'[j] = log[j]
    <2>1. CASE j = i
      <3>1. ~OtherWinner(i)
        BY <1>6, <2>1, NoRival DEF OtherWinner
      <3> QED BY <1>2, <2>1, <3>1 DEF TreeInv, FilesHeld
    <2> QED BY <1>2, <2>1
  <1>7. grants \subseteq grants'
    BY <1>1
  <1> QED BY <1>3, <1>4, <1>5, <1>6, <1>7, TreeKept

-----------------------------------------------------------------------------
(* Candidates. *)

LEMMA CandidatesKept ==
    ASSUME TypeOK, Candidates, \A i \in Node : current_term'[i] >= current_term[i],
           TypeOK',
           \A g \in grants' : g \in grants \/ g.term <= current_term'[g.candidate],
           \A m \in vote_requests' :
               \/ m.term <= current_term'[m.from]
               \/ \E n \in vote_requests : m.from = n.from /\ m.term = n.term
    PROVE  Candidates'
  <1>1. \A i \in Node, t \in Nat : t <= current_term[i] => t <= current_term'[i]
    BY DEF TypeOK, NodeTypeOK
  <1>2. \A g \in grants : g.candidate \in Node /\ g.term \in Nat
    BY DEF TypeOK, OtherTypeOK
  <1>3. \A m \in vote_requests : m.from \in Node /\ m.term \in Nat
    BY DEF TypeOK, CallTypeOK, VoteRequest
  <1>4. \A g \in grants' : g.term <= current_term'[g.candidate]
    BY <1>1, <1>2 DEF Candidates
  <1>5. \A m \in vote_requests' : m.term <= current_term'[m.from]
    BY <1>1, <1>3 DEF Candidates
  <1> QED BY <1>4, <1>5 DEF Candidates

\* Every step keeps to it: a vote is asked for in the candidate's term.
LEMMA NextCandidates == TypeOK /\ VoteInv /\ Candidates /\ [Next]_vars => Candidates'
  <1> SUFFICES ASSUME TypeOK, VoteInv, Candidates, [Next]_vars PROVE Candidates'
    OBVIOUS
  <1>1. TypeOK' /\ \A i \in Node : current_term'[i] >= current_term[i]
    BY NextType, NextTermsRise
  <1>2. ASSUME UNCHANGED <<grants, vote_requests>> PROVE Candidates'
    BY <1>1, <1>2, CandidatesKept
  <1>3. ASSUME NEW t \in vote_tasks, SendRequestVote(t) PROVE Candidates'
    <2>1. t.from \in Node /\ current_term[t.from] \in Nat
      BY DEF TypeOK, CallTypeOK, VoteTask, NodeTypeOK
    <2>2. UNCHANGED <<current_term, grants>>
      BY <1>3 DEF SendRequestVote, durableVars, otherVars
    <2>3. \A m \in vote_requests' :
              \/ m \in vote_requests
              \/ m.from = t.from /\ m.term = current_term[t.from]
      <3>1. vote_requests' = vote_requests \cup
                {[from |-> t.from, to |-> t.to, round |-> t.round, live |-> TRUE,
                  term |-> current_term[t.from], last_log_index |-> Len(log[t.from]),
                  last_log_term |-> t.last_term]}
        BY <1>3 DEF SendRequestVote
      <3> QED BY <3>1
    <2>4. \A m \in vote_requests' :
              \/ m.term <= current_term'[m.from]
              \/ \E n \in vote_requests : m.from = n.from /\ m.term = n.term
      BY <2>1, <2>2, <2>3
    <2> QED BY <1>1, <2>2, <2>4, CandidatesKept
  <1>4. ASSUME NEW i \in Node, StartElection(i) PROVE Candidates'
    <2>1. /\ grants' = grants \cup
                 {[voter |-> i, candidate |-> i, term |-> current_term'[i]]}
          /\ UNCHANGED vote_requests
      BY <1>4 DEF StartElection
    <2>2. current_term'[i] <= current_term'[i]
      BY <1>1 DEF TypeOK, NodeTypeOK
    <2> QED BY <1>1, <2>1, <2>2, CandidatesKept
  <1>5. ASSUME NEW m \in vote_requests, HandleRequestVote(m) PROVE Candidates'
    <2>1. /\ \A g \in grants' : \/ g \in grants
                                \/ g.candidate = m.from /\ g.term = m.term
          /\ vote_requests' = vote_requests \ {m}
      BY <1>5 DEF HandleRequestVote
    <2>2. m.term <= current_term'[m.from]
      <3>1. m.term <= current_term[m.from] /\ m.from \in Node /\ m.term \in Nat
        BY DEF Candidates, TypeOK, CallTypeOK, VoteRequest
      <3>2. current_term[m.from] \in Nat /\ current_term'[m.from] \in Nat
        BY <1>1, <3>1 DEF TypeOK, NodeTypeOK
      <3> QED BY <1>1, <3>1, <3>2
    <2> QED BY <1>1, <2>1, <2>2, CandidatesKept
  <1>6. ASSUME NEW i \in Node, Restart(i) PROVE Candidates'
    <2>1. /\ vote_requests' = {[m EXCEPT !.live = m.live /\ m.from # i] :
                                   m \in {n \in vote_requests : n.to # i}}
          /\ UNCHANGED grants
      BY <1>6 DEF Restart
    <2>2. \A m \in vote_requests' :
              \E n \in vote_requests : m.from = n.from /\ m.term = n.term
      <3> SUFFICES ASSUME NEW m \in vote_requests'
                   PROVE  \E n \in vote_requests : m.from = n.from /\ m.term = n.term
        OBVIOUS
      <3>1. PICK n \in vote_requests : m = [n EXCEPT !.live = n.live /\ n.from # i]
        BY <2>1
      <3>2. n \in VoteRequest
        BY DEF TypeOK, CallTypeOK
      <3>3. m.from = n.from /\ m.term = n.term
        BY <3>1, <3>2 DEF VoteRequest
      <3> QED BY <3>3
    <2> QED BY <1>1, <2>1, <2>2, CandidatesKept
  <1>7. CASE VoteCallFails
    <2>1. UNCHANGED grants
      BY <1>7 DEF VoteCallFails
    <2>2. \A m \in vote_requests' :
              \E n \in vote_requests : m.from = n.from /\ m.term = n.term
      <3> SUFFICES ASSUME NEW n \in vote_requests
                   PROVE  /\ [n EXCEPT !.live = FALSE].from = n.from
                          /\ [n EXCEPT !.live = FALSE].term = n.term
        BY <1>7 DEF VoteCallFails
      <3>1. n \in VoteRequest
        BY DEF TypeOK, CallTypeOK
      <3> QED BY <3>1 DEF VoteRequest
    <2> QED BY <1>1, <2>1, <2>2, CandidatesKept
  <1>8. ASSUME NEW m \in append_requests, HandleAppendEntries(m) PROVE Candidates'
    BY <1>2, <1>8 DEF HandleAppendEntries, electionRpc, otherVars
  <1>9. ASSUME NEW r \in vote_replies, ReceiveVote(r) PROVE Candidates'
    BY <1>2, <1>9 DEF ReceiveVote, otherVars
  <1>10. CASE \/ \E t \in append_tasks : SendAppendEntries(t)
              \/ \E r \in append_replies : ReceiveAppendReply(r)
              \/ \E v \in Value : ClientWake(v)
              \/ AppendCallFails \/ UNCHANGED vars
    BY <1>2, <1>10 DEF SendAppendEntries, ReceiveAppendReply, ClientWake,
       AppendCallFails, electionRpc, otherVars, vars
  <1>11. CASE \E i \in Node :
                  \/ CheckElection(i) \/ AcquireLease(i)
                  \/ SendHeartbeats(i) \/ LeaseTimeout(i)
                  \/ \E v \in Value : ServeClientSet(i, v)
    BY <1>2, <1>11 DEF CheckElection, AcquireLease, SendHeartbeats, LeaseTimeout,
       ServeClientSet, electionRpc, otherVars
  <1> QED BY <1>3, <1>4, <1>5, <1>6, <1>7, <1>8, <1>9, <1>10, <1>11 DEF Next

-----------------------------------------------------------------------------
(* Logs match. *)

\* The steps that neither write a log nor send or receive entries.
Still ==
    \/ UNCHANGED vars
    \/ \E t \in vote_tasks : SendRequestVote(t)
    \/ \E i \in Node : \/ StartElection(i) \/ CheckElection(i)
                       \/ SendHeartbeats(i) \/ LeaseTimeout(i)
    \/ \E m \in vote_requests : HandleRequestVote(m)
    \/ \E r \in vote_replies : ReceiveVote(r)
    \/ \E r \in append_replies : ReceiveAppendReply(r)
    \/ \E v \in Value : ClientWake(v)
    \/ VoteCallFails \/ AppendCallFails

LEMMA StillWhat ==
    ASSUME TypeOK, Still
    PROVE  /\ UNCHANGED log /\ grants \subseteq grants'
           /\ \A j \in Node :
                  \/ disk'[j].log = log[j]
                  \/ disk'[j] = disk[j] /\ current_term'[j] = current_term[j]
           /\ \A m \in append_requests' :
                  \E n \in append_requests : SameCall(m, n) /\ (m.live => n.live)
  <1> DEFINE Goal ==
          /\ UNCHANGED log /\ grants \subseteq grants'
          /\ \A j \in Node :
                 \/ disk'[j].log = log[j]
                 \/ disk'[j] = disk[j] /\ current_term'[j] = current_term[j]
          /\ \A m \in append_requests' :
                 \E n \in append_requests : SameCall(m, n) /\ (m.live => n.live)
  <1> SUFFICES Goal OBVIOUS
  <1>1. ASSUME UNCHANGED append_requests
        PROVE  \A m \in append_requests' :
                   \E n \in append_requests : SameCall(m, n) /\ (m.live => n.live)
    BY <1>1 DEF SameCall, SameRequest
  <1>2. ASSUME UNCHANGED <<log, disk, current_term, grants, append_requests>> PROVE Goal
    BY <1>1, <1>2
  <1>3. /\ log \in [Node -> Seq(Entry)] /\ disk \in [Node -> File]
        /\ current_term \in [Node -> Nat]
    BY DEF TypeOK, NodeTypeOK, DiskTypeOK
  <1>4. ASSUME NEW i \in Node, SaveState(i), UNCHANGED log,
               \A j \in Node \ {i} : current_term'[j] = current_term[j]
        PROVE  \A j \in Node :
                   \/ disk'[j].log = log[j]
                   \/ disk'[j] = disk[j] /\ current_term'[j] = current_term[j]
    BY <1>3, <1>4 DEF SaveState, Saved
  <1>5. ASSUME NEW i \in Node, StartElection(i) PROVE Goal
    <2>1. /\ UNCHANGED <<log, append_requests>> /\ SaveState(i) /\ grants \subseteq grants'
          /\ current_term' = [current_term EXCEPT ![i] = @ + 1]
      BY <1>5 DEF StartElection, appendRpc
    <2> QED BY <1>1, <1>3, <1>4, <2>1
  <1>6. ASSUME NEW m \in vote_requests, HandleRequestVote(m) PROVE Goal
    <2>1. m.to \in Node /\ m.term \in Nat
      BY DEF TypeOK, CallTypeOK, VoteRequest
    <2>2. /\ UNCHANGED <<log, append_requests>> /\ grants \subseteq grants'
          /\ current_term' = [current_term EXCEPT ![m.to] = Max2(@, m.term)]
          /\ \/ SaveState(m.to)
             \/ UNCHANGED disk /\ ~(m.term > current_term[m.to])
      BY <1>6 DEF HandleRequestVote, appendRpc
    <2>3. CASE SaveState(m.to)
      BY <1>1, <1>3, <1>4, <2>1, <2>2, <2>3
    <2>4. CASE UNCHANGED disk /\ ~(m.term > current_term[m.to])
      <3>1. UNCHANGED current_term
        BY <1>3, <2>1, <2>2, <2>4 DEF Max2
      <3> QED BY <1>1, <2>2, <2>4, <3>1
    <2> QED BY <2>2, <2>3, <2>4
  <1>7. ASSUME NEW r \in append_replies, ReceiveAppendReply(r) PROVE Goal
    <2>1. r.to \in Node
      BY DEF TypeOK, CallTypeOK, AppendReply
    <2>2. /\ UNCHANGED <<log, append_requests, grants, current_term>>
          /\ SaveState(r.to) \/ UNCHANGED disk
      BY <1>7 DEF ReceiveAppendReply, otherVars
    <2> QED BY <1>1, <1>4, <2>1, <2>2
  <1>8. CASE AppendCallFails
    <2>1. UNCHANGED <<log, disk, current_term, grants>>
      BY <1>8 DEF AppendCallFails, durableVars
    <2> QED BY <1>8, <2>1, FailedCallsSame
  <1>9. ASSUME NEW t \in vote_tasks, SendRequestVote(t) PROVE Goal
    BY <1>2, <1>9 DEF SendRequestVote, durableVars, appendRpc, otherVars
  <1>10. ASSUME NEW i \in Node, CheckElection(i) PROVE Goal
    BY <1>2, <1>10 DEF CheckElection, durableVars, appendRpc, otherVars
  <1>11. ASSUME NEW i \in Node, SendHeartbeats(i) PROVE Goal
    BY <1>2, <1>11 DEF SendHeartbeats, durableVars, otherVars
  <1>12. ASSUME NEW i \in Node, LeaseTimeout(i) PROVE Goal
    BY <1>2, <1>12 DEF LeaseTimeout, durableVars, appendRpc
  <1>13. ASSUME NEW r \in vote_replies, ReceiveVote(r) PROVE Goal
    BY <1>2, <1>13 DEF ReceiveVote, durableVars, appendRpc, otherVars
  <1>14. ASSUME NEW v \in Value, ClientWake(v) PROVE Goal
    BY <1>2, <1>14 DEF ClientWake, durableVars, appendRpc
  <1>15. CASE VoteCallFails \/ UNCHANGED vars
    BY <1>2, <1>15 DEF VoteCallFails, durableVars, appendRpc, otherVars, vars
  <1> HIDE DEF Goal
  <1>16. CASE \E i \in Node : \/ StartElection(i) \/ CheckElection(i)
                            \/ SendHeartbeats(i) \/ LeaseTimeout(i)
    BY <1>5, <1>10, <1>11, <1>12, <1>16
  <1>17. CASE \E t \in vote_tasks : SendRequestVote(t)
    BY <1>9, <1>17
  <1>18. CASE \E m \in vote_requests : HandleRequestVote(m)
    BY <1>6, <1>18
  <1>19. CASE \/ \E r \in vote_replies : ReceiveVote(r)
              \/ \E r \in append_replies : ReceiveAppendReply(r)
    BY <1>7, <1>13, <1>19
  <1>20. CASE \E v \in Value : ClientWake(v)
    BY <1>14, <1>20
  <1> QED
    BY <1>8, <1>15, <1>16, <1>17, <1>18, <1>19, <1>20 DEF Still

\* Only winners write: the leader of a term, in a step that is one of these.
LEMMA WritesWhat ==
    ASSUME TypeOK, BallotInv, NEW i \in Node, "lead" \notin late',
           AcquireLease(i) \/ \E v \in Value : ServeClientSet(i, v)
    PROVE  Winner(i) /\ \E v \in Value \cup {None} : Appends(i, v)
  <1>1. state[i] = "LEADER"
    <2>1. CASE AcquireLease(i)
      BY <2>1 DEF AcquireLease, InTime
    <2>2. CASE \E v \in Value : ServeClientSet(i, v)
      BY <2>2 DEF ServeClientSet
    <2> QED BY <2>1, <2>2
  <1>2. Winner(i)
    BY <1>1 DEF BallotInv, LeaderIsElected, Winner
  <1>3. CASE AcquireLease(i)
    <2>1. Appends(i, None)
      BY <1>3 DEF AcquireLease, Appends, otherVars
    <2> QED BY <1>2, <2>1
  <1>4. ASSUME NEW v \in Value, ServeClientSet(i, v)
        PROVE  \E w \in Value \cup {None} : Appends(i, w)
    <2>1. Appends(i, v)
      BY <1>4 DEF ServeClientSet, Appends, appendRpc
    <2> QED BY <2>1
  <1> QED BY <1>2, <1>3, <1>4

LEMMA NextTree ==
    ASSUME TypeOK, VoteInv, BallotInv, RequestsLed, Candidates, [Next]_vars,
           "lead" \notin late', NEW T \in SUBSET Seq(Entry), TreeInv(T)
    PROVE  \E U \in SUBSET Seq(Entry) : TreeInv(U)'
  <1>1. /\ TypeOK' /\ \A i \in Node : current_term'[i] >= current_term[i]
        /\ OneVotePerTerm /\ OneVotePerTerm' /\ DiskInv
    BY NextType, NextTermsRise, NextVoteInv DEF VoteInv
  <1>2. CASE Still
    <2>1. TreeInv(T)'
      BY <1>1, <1>2, StillWhat, TreeStill
    <2> QED BY <2>1
  <1>3. ASSUME NEW i \in Node, AcquireLease(i) \/ \E v \in Value : ServeClientSet(i, v)
        PROVE  \E U \in SUBSET Seq(Entry) : TreeInv(U)'
    <2>1. Winner(i)
      BY <1>3, WritesWhat
    <2>2. PICK v \in Value \cup {None} : Appends(i, v)
      BY <1>3, WritesWhat
    <2>3. PICK N : N = log'[i]
      OBVIOUS
    <2>4. T \cup {N} \in SUBSET Seq(Entry) /\ TreeInv(T \cup {N})'
      BY <1>1, <2>1, <2>2, <2>3, TreeAppends
    <2> QED BY <2>4
  <1>4. ASSUME NEW t \in append_tasks, SendAppendEntries(t)
        PROVE  \E U \in SUBSET Seq(Entry) : TreeInv(U)'
    BY <1>1, <1>4, TreeSends
  <1>5. ASSUME NEW m \in append_requests, HandleAppendEntries(m)
        PROVE  \E U \in SUBSET Seq(Entry) : TreeInv(U)'
    BY <1>1, <1>5, TreeReceives
  <1>6. ASSUME NEW i \in Node, Restart(i)
        PROVE  \E U \in SUBSET Seq(Entry) : TreeInv(U)'
    BY <1>1, <1>6, TreeRestarts
  <1> QED BY <1>2, <1>3, <1>4, <1>5, <1>6 DEF Next, Still

LEMMA InitTree ==
    ASSUME Init
    PROVE  Candidates /\ TreeInv({<<>>}) /\ {<<>>} \in SUBSET Seq(Entry)
  <1>1. \A i \in Node : log[i] = <<>> /\ disk[i].log = <<>>
    BY DEF Init, Saved
  <1>2. Len(<<>>) = 0 /\ <<>> \in Seq(Entry)
    BY EmptySeq
  <1>3. append_requests = {} /\ vote_requests = {} /\ grants = {}
    BY DEF Init
  <1> QED BY <1>1, <1>2, <1>3
          DEF Candidates, TreeInv, Lineage, Won, Leading, LogsHeld, FilesHeld, RequestsHeld

\* The logs ever written form a tree, a branch for each leader's term, under any timing
\* until a vote is late or a node replicates that does not lead.
THEOREM LogsKept == Spec => []LogInv
  <1>1. TypeOK /\ VoteInv /\ TimelyInv /\ LogInv /\ [Next]_vars => LogInv'
    <2> SUFFICES ASSUME TypeOK, VoteInv, TimelyInv, LogInv, [Next]_vars PROVE LogInv'
      OBVIOUS
    <2>1. Candidates'
      BY NextCandidates DEF LogInv
    <2>2. ASSUME late' \subseteq {"ack"}
          PROVE  \E U \in SUBSET Seq(Entry) : TreeInv(U)'
      <3>1. late \subseteq {"ack"} /\ "lead" \notin late' /\ "vote" \notin late
        BY <2>2, LateGrows
      <3>2. BallotInv /\ RequestsLed /\ Candidates
        BY <3>1 DEF TimelyInv, LogInv
      <3>3. PICK T \in SUBSET Seq(Entry) : TreeInv(T)
        BY <3>1 DEF LogInv
      <3> QED BY <3>1, <3>2, <3>3, NextTree
    <2> QED BY <2>1, <2>2 DEF LogInv
  <1>2. Init => LogInv
    BY InitTree DEF LogInv
  <1>3. Spec => []TimelyInv
    BY BallotsKept
  <1> QED BY <1>1, <1>2, <1>3, TypeCorrect, VotesAgree, PTL DEF Spec

\* If the logs of two nodes have an entry of the same term at an index they are the
\* same up to it, although append_entries compares only the last overlapping one: under
\* any timing, until a vote is late or a node replicates that does not lead.
THEOREM LogsMatch == Spec => []LogMatching
  <1>1. TypeOK /\ LogInv => LogMatching
    <2> SUFFICES ASSUME TypeOK, LogInv, late \subseteq {"ack"}, NEW i \in Node, NEW j \in Node,
                        NEW k \in 1..Min2(Len(log[i]), Len(log[j])),
                        log[i][k].term = log[j][k].term
                 PROVE  SubSeq(log[i], 1, k) = SubSeq(log[j], 1, k)
      BY DEF LogMatching
    <2>1. PICK T \in SUBSET Seq(Entry) : TreeInv(T)
      BY DEF LogInv
    <2>2. PICK L \in Seq(Entry), M \in Seq(Entry) : L = log[i] /\ M = log[j]
      BY DEF TypeOK, NodeTypeOK
    <2>3. /\ Len(L) \in Nat /\ Len(M) \in Nat /\ k \in 1..Len(L) /\ k \in 1..Len(M)
          /\ k \in Nat /\ k <= Len(L) /\ k <= Len(M)
      BY <2>2, LogFacts DEF Min2
    <2>4. Agree(L, M, k)
      <3>1. L \in T /\ M \in T /\ Lineage(T)
        BY <2>1, <2>2 DEF TreeInv, LogsHeld
      <3>2. L[k].term = M[k].term /\ k <= k
        BY <2>2, <2>3
      <3> QED BY <2>3, <3>1, <3>2 DEF Lineage
    <2>5. /\ SubSeq(L, 1, k) \in Seq(Entry) /\ Len(SubSeq(L, 1, k)) = k
          /\ \A p \in 1..k : SubSeq(L, 1, k)[p] = L[p]
      BY <2>3, PrefixIs
    <2>6. /\ SubSeq(M, 1, k) \in Seq(Entry) /\ Len(SubSeq(M, 1, k)) = k
          /\ \A p \in 1..k : SubSeq(M, 1, k)[p] = M[p]
      BY <2>3, PrefixIs
    <2>7. SubSeq(L, 1, k) = SubSeq(M, 1, k)
      BY <2>4, <2>5, <2>6, SeqEqual DEF Agree
    <2> QED BY <2>2, <2>7
  <1>2. Spec => []LogInv
    BY LogsKept
  <1> QED BY <1>1, <1>2, TypeCorrect, PTL
=============================================================================
