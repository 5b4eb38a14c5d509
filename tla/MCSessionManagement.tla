------------------------- MODULE MCSessionManagement -------------------------
(* Instances of SessionManagement for TLC. *)
EXTENDS SessionManagement, TLC

Interchangeable == Permutations(Threads) \cup Permutations(Subjects)
==============================================================================
