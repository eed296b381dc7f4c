----------------------------- MODULE MCRaftLease -----------------------------
(* Small instances of RaftLease for TLC. *)
EXTENDS RaftLeaseProperties, TLC

Isolations == {{{i, j} : j \in Others(i)} : i \in Node}
Symmetry == Permutations(Node)
=============================================================================
