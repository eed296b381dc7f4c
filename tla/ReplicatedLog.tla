---------------------------- MODULE ReplicatedLog ----------------------------
(***************************************************************************)
(* What the cluster of Assignment_2 promises its clients, without nodes:   *)
(* one log of decided entries that only grows, and a SET that is answered  *)
(* with success only when it is in that log.  The promise may be given up, *)
(* for good.  Raft implements this through the mapping at the end of       *)
(* RaftProperties, which says when it is given up.                         *)
(***************************************************************************)
EXTENDS Sequences, SequencesExt

CONSTANT Value   \* the values clients SET

VARIABLES
    decided,     \* the sequence of decided entries
    answered,    \* the values whose SET was answered with success
    kept         \* the promise still stands

Init == decided = <<>> /\ answered = {} /\ kept = TRUE

\* Entries are decided at the end of the log, and never undecided or replaced.
Decide == /\ kept /\ kept' /\ UNCHANGED answered
          /\ decided # decided' /\ IsPrefix(decided, decided')

\* A client is told of a decided SET.
Answer(v) ==
    /\ kept /\ kept'
    /\ v \notin answered /\ answered' = answered \cup {v}
    /\ \E k \in 1..Len(decided) : decided[k].value = v
    /\ UNCHANGED decided

\* Nothing is promised any more, from this step on.
GiveUp == ~kept'

Next == Decide \/ (\E v \in Value : Answer(v)) \/ GiveUp

Spec == Init /\ [][Next]_<<decided, answered, kept>>
=============================================================================
