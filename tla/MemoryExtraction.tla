--------------------------- MODULE MemoryExtraction ---------------------------
(***************************************************************************)
(* What an interaction event and the history of its user give rise to: the *)
(* candidate of RuleBasedMemoryExtractor (memory_extraction.py) and the    *)
(* decision of DefaultPolicyEngine about it (policy_consent.py), for the   *)
(* registry and the policy request that process_event uses.                *)
(*                                                                         *)
(* Abstractions.  A text event carries one of a few signals, the class the *)
(* extractor's phrase lists put its text in; which phrases these are is    *)
(* left out.  Scores are hundredths.  The code adds binary floats: a sum   *)
(* of exactly 75 may come out just below the threshold of 0.75, depending  *)
(* on the order of the additions, so both outcomes are taken as possible   *)
(* there.  The clamp of a score to [0, 0.99] does not move it across the   *)
(* threshold and is left out, and so is the BehavioralState record, which  *)
(* is kept and never read.                                                 *)
(***************************************************************************)
EXTENDS Integers, FiniteSetsExt, SequencesExt

CONSTANTS
  Window,      \* how many events _relevant_history looks at: 10 in the code
  Users,       \* the users
  Keys,        \* the idempotency keys
  Payloads,    \* what can be submitted: records as in Payload
  MaxArrivals  \* bound: how many events are ever submitted

ASSUME WindowAssumption == Window \in Nat \ {0}
ASSUME MaxArrivalsAssumption == MaxArrivals \in Nat

BehavioralSignals == {"save", "follow", "play", "pause", "skip"}
\* What the text of the other events is classified as; "nothing" stands for a
\* prohibited text and for a conversation without a cue, "missing" for the
\* explicit preference that the schema lets in without a text.
TextSignals ==
  {"preference", "exclusion", "episode", "sensitive", "correction", "nothing", "missing"}

ContentTypes == {"track", "show", "episode", "artist", "album", "playlist"}

\* A payload with the content type "none" names no content.  "valid" is the
\* verdict of EventValidator.
Payload ==
  [signal : BehavioralSignals \cup TextSignals,
   type   : ContentTypes \cup {"none"},
   name   : STRING,
   valid  : BOOLEAN]

ASSUME PayloadsAssumption == Payloads \subseteq Payload

Arrivals == 1 .. MaxArrivals

\* An event: its deterministic id (id), when it was submitted (at, which
\* identifies the submission and stands for its fresh source_event_id), and
\* the timestamp it carries (time).
EventId == [key : Keys, payload : Payloads, call : 0 .. MaxArrivals]
Event ==
  [at : Arrivals, user : Users, id : EventId, time : 0 .. MaxArrivals + 1]

Content(e) == <<e.id.payload.type, e.id.payload.name>>

------------------------------------------------------------------------------
\* BEHAVIOR_WEIGHTS, in hundredths; what is not listed weighs nothing.
Saved == [track |-> 30, show |-> 20, episode |-> 20, album |-> 25, playlist |-> 25]

BehaviorWeight(type, signal) ==
  CASE signal = "save" /\ type \in DOMAIN Saved -> Saved[type]
    [] signal = "follow" /\ type = "artist"     -> 40
    [] signal = "play" /\ type # "none"         -> 15
    [] signal = "skip" /\ type # "none"         ->
         IF type \in {"show", "episode"} THEN -10 ELSE -15
    [] OTHER -> 0

BEHAVIOR_MEMORY_THRESHOLD == 75

Combined(history, e) == Append(history, e)

\* _relevant_history: the newest events by timestamp, whatever they are about.
\* Equal timestamps keep the order of the history, the event comes last.
RelevantHistory(history, e) ==
  LET all == Combined(history, e)
      Newer(i) == {j \in DOMAIN all : \/ all[j].time > all[i].time
                                      \/ all[j].time = all[i].time /\ j > i}
  IN  {all[i] : i \in {j \in DOMAIN all : Cardinality(Newer(j)) < Window}}

\* Mutation of Supporting: the content is not compared.
SupportingAny(history, e) == RelevantHistory(history, e) \cup {e}

\* The events of the window about the same content; the event itself counts
\* even when newer ones have pushed it out.
Supporting(history, e) ==
  LET own == {x \in RelevantHistory(history, e) : Content(x) = Content(e)}
  IN  IF \E x \in own : x.id = e.id THEN own ELSE own \cup {e}

Score(events) ==
  MapThenSumSet(LAMBDA x : BehaviorWeight(x.id.payload.type, x.id.payload.signal), events)

\* Mutation of Crosses: the threshold has to be exceeded by far.
CrossesLate(score) == {score >= 100}

Crosses(score) ==
  IF score = BEHAVIOR_MEMORY_THRESHOLD THEN BOOLEAN
  ELSE {score > BEHAVIOR_MEMORY_THRESHOLD}

------------------------------------------------------------------------------
Behavioral(e) == e.id.payload.signal \in BehavioralSignals

\* _require_text: the extractor raises for an event that lacks its text.
HasText(e) == e.id.payload.signal # "missing"

\* The sets of candidates extract may return: none, or exactly one.
Extract(history, e) ==
  LET p == e.id.payload
      Single(type, class, sources) ==
        {[type |-> type, class |-> class, sources |-> sources]}
  IN  CASE Behavioral(e) /\ p.type = "none" -> {{}}
        [] Behavioral(e) /\ p.type # "none" ->
             LET sources == Supporting(history, e)
             IN  {IF crosses THEN Single("candidate_preference", "standard", sources) ELSE {} :
                    crosses \in Crosses(Score(sources))}
        [] p.signal = "preference" -> {Single("explicit_preference", "standard", {e})}
        [] p.signal = "exclusion"  -> {Single("exclusion", "standard", {e})}
        [] p.signal = "episode"    -> {Single("episode", "standard", {e})}
        [] p.signal = "sensitive"  -> {Single("candidate_preference", "sensitive", {e})}
        [] p.signal = "correction" -> {Single("correction_signal", "standard", {e})}
        [] OTHER -> {{}}

\* Mutation of Decide: correction signals are registered as allowed.
DecideCorrections(c) ==
  IF c.class = "sensitive" THEN "review" ELSE "allow"

\* evaluate: with consent given, the personalization purpose and the default
\* registry, these are the branches that can still deny or ask for a review.
Decide(c) ==
  CASE c.type = "correction_signal" -> "deny"
    [] c.type # "correction_signal" /\ c.class = "sensitive" -> "review"
    [] c.type = "candidate_preference" /\ c.class # "sensitive"
         /\ Cardinality(c.sources) < 2 -> "review"
    [] OTHER -> "allow"
==============================================================================
