-------------------------- MODULE ContextComposition --------------------------
(* context_composition/context_composition.py: the rules by which a retrieved   *)
(* memory is taken into the context of a response or left out.                  *)
EXTENDS Retrieval

\* The budgets of a context.
IsContextRequest(r) ==
  /\ {r.max_items, r.max_characters, r.max_tokens} \subseteq Nat
  /\ 1 <= r.max_items /\ r.max_items <= 50
  /\ 100 <= r.max_characters /\ r.max_characters <= 100000
  /\ 1 <= r.max_tokens /\ r.max_tokens <= 20000

ExclusionReasons == {"duplicate", "conflicting_memory", "budget_exceeded"}

\* Composition sorts again, with explicitness where retrieval has recency.
CompositionKey(score, m) ==
  <<-score[m], -Content[m].confidence, -ExplicitnessScore(m), m>>

\* A token for four characters, rounded up.
TokensOf(m) == (Content[m].characters + 3) \div 4

SameFact(m, n) == Content[m].fact = Content[n].fact

\* Two different explicit preferences that share four fifths of the shorter one.
Conflicts(m, n) ==
  LET mine == WordsOf[Content[m].fact]  other == WordsOf[Content[n].fact] IN
  /\ Content[m].memory_type = "explicit_preference"
  /\ Content[n].memory_type = "explicit_preference"
  /\ ~SameFact(m, n)
  /\ mine # {} /\ other # {}
  /\ 5 * Cardinality(mine \cap other)
       >= 4 * Least(Cardinality(mine), Cardinality(other))

\* What is taken in so far, with its characters and tokens, has room for m.
Fits(m, items, characters, tokens, request) ==
  /\ items < request.max_items
  /\ characters + Content[m].characters <= request.max_characters
  /\ tokens + TokensOf(m) <= request.max_tokens
================================================================================
