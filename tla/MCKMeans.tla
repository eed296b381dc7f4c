------------------------------ MODULE MCKMeans ------------------------------
(* Small instances of KMeans for TLC. *)
EXTENDS KMeansProperties
=============================================================================
