------------------------ MODULE MCMemoryOrchestration ------------------------
(* Instances of MemoryOrchestration for TLC. *)
EXTENDS MemoryOrchestration, TLC

\* What the default registry allows: every registered type is eligible for both.
DefaultPolicies == {[retrieval_eligible |-> TRUE, embedding_eligible |-> TRUE]}

\* With a registry that keeps some types out of the embedding store.
MixedPolicies == {[retrieval_eligible |-> TRUE, embedding_eligible |-> e] : e \in BOOLEAN}

Interchangeable == Permutations(Threads) \cup Permutations(Subjects) \cup Permutations(Facts) \cup Permutations(Events)

\* The state without its history variables, which no guard and, TypeOK apart, no
\* invariant of the concurrent run reads.
Present == <<store, graph, embeddings, task>>
==============================================================================
