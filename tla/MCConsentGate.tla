---------------------------- MODULE MCConsentGate ----------------------------
(* Instances of ConsentGate for TLC. *)
EXTENDS ConsentGate, TLC

Interchangeable == Permutations(Threads) \cup Permutations(Subjects)
==============================================================================
