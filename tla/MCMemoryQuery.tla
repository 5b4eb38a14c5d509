---------------------------- MODULE MCMemoryQuery ----------------------------
(* An instance of MemoryQuery for TLC: four memories of one user, and another  *)
(* user who has none.  1 and 3 say the same, 1 and 2 are preferences that      *)
(* share their words, 2 is too large for the smaller budgets, and retrieval    *)
(* and composition order 3 and 4 differently when their scores are the same.   *)
EXTENDS MemoryQuery

MCMemories == 1 .. 4

Memory(subject, fact, type, confidence, recency, evidence, surfaces, characters) ==
  [ subject |-> subject, fact |-> fact, memory_type |-> type, confidence |-> confidence,
    recency |-> recency, evidence |-> evidence, surfaces |-> surfaces,
    negative_feedback |-> 0, linked |-> evidence > 1, characters |-> characters ]

MCContent ==
  << Memory("u1", "likes jazz", "explicit_preference", 80, 60, 2, {}, 40),
     Memory("u1", "likes jazz only", "explicit_preference", 85, 60, 2, {}, 100),
     Memory("u1", "likes jazz", "candidate_preference", 60, 90, 6, {"home"}, 40),
     Memory("u1", "plays jazz", "episode", 60, 60, 6, {"home", "car"}, 40) >>

MCPosition == <<3, 1, 2, 0>>
MCWordsOf ==
  [ f \in {"likes jazz", "likes jazz only", "plays jazz"} |->
      CASE f = "likes jazz" -> {"likes", "jazz"}
        [] f = "likes jazz only" -> {"likes", "jazz", "only"}
        [] OTHER -> {"plays", "jazz"} ]
MCVectorScores == {90}

Request(kind, subject, top_k, limit, vector_weight, min_score, max_items, characters, tokens) ==
  [ kind |-> kind, subject |-> subject, surface |-> "home", words |-> {"jazz", "night"},
    top_k |-> top_k, candidate_limit |-> limit,
    vector_weight |-> vector_weight, graph_weight |-> 45, min_score |-> min_score,
    max_items |-> max_items, max_characters |-> characters, max_tokens |-> tokens,
    max_response_characters |-> 100, include_memory_references |-> top_k # 3 ]

MCRequests ==
  { Request("query", "u1", 6, 50, 55, 0, 5, 120, 3000),
    Request("query", "u1", 3, 50, 55, 0, 5, 12000, 3000),
    Request("query", "u1", 6, 3, 55, 0, 5, 12000, 26),
    Request("query", "u1", 2, 50, 0, 60, 1, 12000, 3000),
    Request("search", "u1", 1, 50, 55, 70, 5, 12000, 3000),
    Request("query", "u2", 5, 50, 55, 0, 5, 12000, 3000) }
==============================================================================
