------------------------------- MODULE Retrieval -------------------------------
(* retrieval/retrieval.py: which memories a query may see, how they are scored  *)
(* and in which order they are ranked.  Scores of the code between 0 and 1 are  *)
(* hundredths here.  A fact is the set of words the code compares it by; its    *)
(* text is told apart by the fact itself.                                       *)
EXTENDS Integers, FiniteSets

CONSTANTS
  Memories,     \* ids, in their own order
  Content,      \* what the graph store holds about each memory
  Position,     \* the place of each memory in the order the store lists them
  WordsOf,      \* the words of each fact
  VectorScores  \* the similarities the vector index can report

Percent == 0 .. 100

MemoryTypes ==
  {"explicit_preference", "exclusion", "episode", "candidate_preference", "other"}

\* What the graph holds about a memory; recency and negative_feedback are the
\* scores the code makes of its times and of its metadata, linked says whether
\* the subject has a relationship to it.
IsContent(c) ==
  /\ c.memory_type \in MemoryTypes
  /\ c.confidence \in Percent /\ c.recency \in Percent
  /\ c.evidence \in Nat
  /\ c.negative_feedback \in Percent
  /\ c.linked \in BOOLEAN
  /\ c.characters \in Nat \ {0}

\* What is asked of retrieval.
IsRetrievalRequest(r) ==
  /\ IsFiniteSet(r.words)
  /\ r.top_k \in 1 .. 50 /\ r.candidate_limit \in 1 .. 200
  /\ r.vector_weight \in Percent /\ r.graph_weight \in Percent
  /\ r.vector_weight + r.graph_weight > 0
  /\ r.min_score \in Percent

ASSUME MemoriesAssumption == Memories \subseteq Nat /\ IsFiniteSet(Memories)
ASSUME ContentAssumption == \A m \in Memories : IsContent(Content[m])
ASSUME WordsAssumption == \A m \in Memories : IsFiniteSet(WordsOf[Content[m].fact])
ASSUME PositionAssumption == Position \in [Memories -> Nat]
ASSUME VectorScoresAssumption == VectorScores \subseteq Percent

Least(a, b) == IF a < b THEN a ELSE b
Most(a, b) == IF a > b THEN a ELSE b

------------------------------------------------------------------------------
\* Eligibility.

\* The active, retrievable memories of the user; open stands for status,
\* retrieval_eligible and the time of validity.
Eligible(open, request) == {m \in open : Content[m].subject = request.subject}

\* The store's order decides what is cut off, before anything is scored.
Cut(eligible, request) ==
  {m \in eligible :
     Cardinality({n \in eligible : Position[n] < Position[m]}) < request.candidate_limit}

------------------------------------------------------------------------------
\* Scores.

ExplicitnessScore(m) ==
  CASE Content[m].memory_type = "explicit_preference"  -> 100
    [] Content[m].memory_type = "exclusion"            -> 95
    [] Content[m].memory_type = "episode"              -> 65
    [] Content[m].memory_type = "candidate_preference" -> 45
    [] OTHER                                           -> 25

\* A fifth for each event or session the memory rests on.
RepetitionScore(m) == Least(100, 20 * Content[m].evidence)

SurfaceScore(m, request) ==
  IF Content[m].surfaces = {} THEN 50
  ELSE IF request.surface \in Content[m].surfaces THEN 100 ELSE 0

\* 0.7 for the share of the intent's words in the fact, 0.3 for a relationship
\* from the subject.
GraphScore(m, request) ==
  LET shared == Cardinality(WordsOf[Content[m].fact] \cap request.words)
  IN (70 * shared) \div Most(1, Cardinality(request.words))
       + (IF Content[m].linked THEN 30 ELSE 0)

\* The code divides by the sum of the weights; here every score of a request is
\* that sum times the code's, in ten-thousandths.
BaseWeight(request) == request.vector_weight + request.graph_weight

FinalScore(m, vector, request) ==
  45 * (vector * request.vector_weight + GraphScore(m, request) * request.graph_weight)
  + BaseWeight(request) *
      ( 15 * ExplicitnessScore(m) + 15 * Content[m].confidence + 10 * Content[m].recency
        + 5 * RepetitionScore(m) + 5 * SurfaceScore(m, request)
        + 5 * (100 - Content[m].negative_feedback) )

\* Memories the index does not list have no similarity.
Scored(known, vector, request) ==
  [m \in Memories |->
     IF m \notin known THEN 0
     ELSE FinalScore(m, IF m \in DOMAIN vector THEN vector[m] ELSE 0, request)]

ReachesMinimum(score, request) == score >= 100 * BaseWeight(request) * request.min_score

------------------------------------------------------------------------------
\* Ranking: keys are compared from left to right, the smaller one first.

Precedes(k, l) ==
  \E i \in 1 .. 4 : k[i] < l[i] /\ \A j \in 1 .. i - 1 : k[j] = l[j]

RetrievalKey(score, m) ==
  <<-score[m], -Content[m].confidence, -Content[m].recency, m>>

\* The diversity limit: how many memories of a type that is represented already
\* may still be taken.
Half(top_k) == Most(1, top_k \div 2)
================================================================================
