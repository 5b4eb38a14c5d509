---------------------------- MODULE MCGraphMemory ----------------------------
(* An instance of GraphMemory for TLC: two memories of one user, the first     *)
(* about an entity, the second a correction of the first.                      *)
EXTENDS GraphMemory, TLC

CONSTANTS user, artist

MCMemories == {1, 2}
MCOwnerOf == [m \in MCMemories |-> user]
MCEntitiesOf == [m \in MCMemories |-> IF m = 1 THEN {artist} ELSE {}]
MCPredecessorOf == [m \in MCMemories |-> IF m = 1 THEN {} ELSE {1}]
Interchangeable == Permutations(Threads)

\* Bound: the first memory is put three times, or each of them twice.
MaxPuts == 4
FewPuts == life[1].revision + life[2].revision <= MaxPuts
==============================================================================
