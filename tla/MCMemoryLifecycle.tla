-------------------------- MODULE MCMemoryLifecycle --------------------------
(* Instance of MemoryLifecycle for TLC: users and facts are symmetric. *)
EXTENDS MemoryLifecycle, TLC

UsersAndFacts == Permutations(Subjects) \cup Permutations(Facts)
==============================================================================
