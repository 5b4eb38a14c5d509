-------------------------- MODULE MemoryQueryProofs --------------------------
(* Proofs about MemoryQuery, for any memories, contents, scores and requests:   *)
(* an answer rests on current memories of its user only, what retrieval and     *)
(* composition leave out they leave out for a reason, and a query counts down   *)
(* to its end and is never stuck.                                               *)
EXTENDS MemoryQuery, FiniteSetTheorems, WellFoundedInduction, TLAPS

------------------------------------------------------------------------------
\* Scores.

LEMMA PartsOfScore ==
  ASSUME NEW m \in Memories, NEW request \in Requests
  PROVE  /\ ExplicitnessScore(m) \in Nat
         /\ RepetitionScore(m) \in Nat
         /\ SurfaceScore(m, request) \in Nat
         /\ GraphScore(m, request) \in Nat
<1>1. ExplicitnessScore(m) \in Nat
  BY DEF ExplicitnessScore
<1>2. RepetitionScore(m) \in Nat
  BY ContentAssumption DEF RepetitionScore, Least, IsContent
<1>3. SurfaceScore(m, request) \in Nat
  BY DEF SurfaceScore
<1>4. GraphScore(m, request) \in Nat
  <2> DEFINE shared == Cardinality(WordsOf[Content[m].fact] \cap request.words)
             asked == Cardinality(request.words)
             bonus == IF Content[m].linked THEN 30 ELSE 0
  <2>1. IsFiniteSet(request.words)
    BY RequestsAssumption DEF IsRetrievalRequest
  <2>2. shared \in Nat /\ asked \in Nat
    BY <2>1, FS_Subset, FS_CardinalityType
  <2>3. Most(1, asked) \in Nat \ {0}
    BY <2>2 DEF Most
  <2>4. bonus \in Nat
    OBVIOUS
  <2>5. GraphScore(m, request) = (70 * shared) \div Most(1, asked) + bonus
    BY DEF GraphScore
  <2>. HIDE DEF shared, asked, bonus
  <2>6. (70 * shared) \div Most(1, asked) \in Nat
    BY <2>2, <2>3
  <2>. QED  BY <2>4, <2>5, <2>6
<1>. QED  BY <1>1, <1>2, <1>3, <1>4

LEMMA ProductIsNatural ==
  ASSUME NEW a \in Nat, NEW b \in Nat
  PROVE  a * b \in Nat
OBVIOUS

LEMMA FinalScoreIsNatural ==
  ASSUME NEW m \in Memories, NEW vector \in Percent, NEW request \in Requests
  PROVE  FinalScore(m, vector, request) \in Nat
<1>1. /\ request.vector_weight \in Nat /\ request.graph_weight \in Nat
  BY RequestsAssumption DEF IsRetrievalRequest, Percent
<1>2. /\ Content[m].confidence \in Nat /\ Content[m].recency \in Nat
      /\ Content[m].negative_feedback \in Percent
  BY ContentAssumption DEF IsContent, Percent
<1>3. vector * request.vector_weight + GraphScore(m, request) * request.graph_weight \in Nat
  <2>1. vector \in Nat /\ GraphScore(m, request) \in Nat
    BY PartsOfScore DEF Percent
  <2>. QED  BY <1>1, <2>1, ProductIsNatural
<1> DEFINE base == vector * request.vector_weight + GraphScore(m, request) * request.graph_weight
           rest == 15 * ExplicitnessScore(m) + 15 * Content[m].confidence
                     + 10 * Content[m].recency
                     + 5 * RepetitionScore(m) + 5 * SurfaceScore(m, request)
                     + 5 * (100 - Content[m].negative_feedback)
<1>4. BaseWeight(request) \in Nat
  BY <1>1 DEF BaseWeight
<1>5. rest \in Nat
  <2>1. 100 - Content[m].negative_feedback \in Nat
    BY <1>2 DEF Percent
  <2>2. /\ ExplicitnessScore(m) \in Nat /\ RepetitionScore(m) \in Nat
        /\ SurfaceScore(m, request) \in Nat
    BY PartsOfScore
  <2>. QED  BY <1>2, <2>1, <2>2
<1>6. FinalScore(m, vector, request) = 45 * base + BaseWeight(request) * rest
  BY DEF FinalScore
<1>. HIDE DEF base, rest
<1>7. BaseWeight(request) * rest \in Nat
  BY <1>4, <1>5, ProductIsNatural
<1>8. base \in Nat
  BY <1>3 DEF base
<1>. QED  BY <1>6, <1>7, <1>8

LEMMA ScoredIsTyped ==
  ASSUME NEW known \in SUBSET Memories, NEW request \in Requests, NEW vector,
         \A m \in DOMAIN vector : vector[m] \in Percent
  PROVE  Scored(known, vector, request) \in [Memories -> Nat]
<1>1. ASSUME NEW m \in Memories
      PROVE  (IF m \notin known THEN 0
              ELSE FinalScore(m, IF m \in DOMAIN vector THEN vector[m] ELSE 0, request)) \in Nat
  <2>1. (IF m \in DOMAIN vector THEN vector[m] ELSE 0) \in Percent
    BY DEF Percent
  <2>. QED  BY <2>1, FinalScoreIsNatural
<1>. QED  BY <1>1 DEF Scored

------------------------------------------------------------------------------
\* The order of rank.

Keys == Int \X Int \X Int \X Int

\* Precedes is a strict total order of the keys.
LEMMA PrecedesByPlace ==
  ASSUME NEW k \in Keys, NEW l \in Keys
  PROVE  Precedes(k, l) <=>
           \/ k[1] < l[1]
           \/ k[1] = l[1] /\ k[2] < l[2]
           \/ k[1] = l[1] /\ k[2] = l[2] /\ k[3] < l[3]
           \/ k[1] = l[1] /\ k[2] = l[2] /\ k[3] = l[3] /\ k[4] < l[4]
<1> DEFINE At(i) == k[i] < l[i] /\ \A j \in 1 .. i - 1 : k[j] = l[j]
<1>1. At(1) <=> k[1] < l[1]
  OBVIOUS
<1>2. At(2) <=> k[1] = l[1] /\ k[2] < l[2]
  <2>1. 1 .. 2 - 1 = {1}
    OBVIOUS
  <2>. QED  BY <2>1
<1>3. At(3) <=> k[1] = l[1] /\ k[2] = l[2] /\ k[3] < l[3]
  <2>1. 1 .. 3 - 1 = {1, 2}
    OBVIOUS
  <2>. QED  BY <2>1
<1>4. At(4) <=> k[1] = l[1] /\ k[2] = l[2] /\ k[3] = l[3] /\ k[4] < l[4]
  <2>1. 1 .. 4 - 1 = {1, 2, 3}
    OBVIOUS
  <2>. QED  BY <2>1
<1>5. Precedes(k, l) <=> \E i \in 1 .. 4 : At(i)
  BY DEF Precedes
<1>6. 1 .. 4 = {1, 2, 3, 4}
  OBVIOUS
<1>. HIDE DEF At
<1>7. (\E i \in 1 .. 4 : At(i)) <=> At(1) \/ At(2) \/ At(3) \/ At(4)
  BY <1>6
<1>. QED  BY <1>1, <1>2, <1>3, <1>4, <1>5, <1>7

LEMMA PrecedesIsOrder ==
  ASSUME NEW k \in Keys, NEW l \in Keys, NEW n \in Keys
  PROVE  /\ ~Precedes(k, k)
         /\ Precedes(k, l) => ~Precedes(l, k)
         /\ Precedes(k, l) /\ Precedes(l, n) => Precedes(k, n)
<1>1. /\ k[1] \in Int /\ k[2] \in Int /\ k[3] \in Int /\ k[4] \in Int
      /\ l[1] \in Int /\ l[2] \in Int /\ l[3] \in Int /\ l[4] \in Int
      /\ n[1] \in Int /\ n[2] \in Int /\ n[3] \in Int /\ n[4] \in Int
  BY DEF Keys
<1>. QED  BY <1>1, PrecedesByPlace

------------------------------------------------------------------------------
\* Types.

LEMMA OfQuery ==
  ASSUME TypeOK, query # Idle
  PROVE  query \in QueryRecord
BY DEF TypeOK

LEMMA AtPlace ==
  ASSUME query.pc # "idle"
  PROVE  query # Idle
BY DEF Idle

LEMMA BegunIsTyped ==
  ASSUME TypeOK, NEW pc \in {"read", "compose", "answered"},
         NEW request \in Requests, NEW allowed \in BOOLEAN
  PROVE  Begun(pc, request, allowed) \in QueryRecord
<1>1. [m \in Memories |-> 0] \in [Memories -> Nat]
  OBVIOUS
<1>2. <<>> \in Seq(Memories)
  OBVIOUS
<1>. QED  BY <1>1, <1>2 DEF Begun, QueryRecord, TypeOK

LEMMA RanksIsTyped ==
  ASSUME TypeOK, query # Idle, NEW known \in SUBSET Memories,
         NEW score \in [Memories -> Nat], Ranks(known, score)
  PROVE  query' \in QueryRecord
BY OfQuery DEF Ranks, QueryRecord

LEMMA RetrievedIsOfMemories ==
  ASSUME TypeOK, query # Idle
  PROVE  /\ Elements(query.retrieved) \subseteq Memories
         /\ Elements(query.items) \subseteq Memories
<1>1. query.retrieved \in Seq(Memories) /\ query.items \in Seq(Memories)
  BY OfQuery DEF QueryRecord
<1>. QED  BY <1>1 DEF Elements

LEMMA SelectionIsTyped ==
  ASSUME TypeOK, query # Idle,
         \/ ReadGraph \/ ReadGraphOnly \/ SearchVectors
         \/ \E m \in Memories : Take(m) \/ Pass(m)
         \/ Retrieved
  PROVE  query' \in QueryRecord
<1>1. query \in QueryRecord
  BY OfQuery
<1>2. Cut(Eligible(open, query.request), query.request) \subseteq Memories
  BY DEF Cut, Eligible, TypeOK
<1>3. query.request \in Requests /\ query.known \subseteq Memories
  BY <1>1 DEF QueryRecord
<1>4. CASE ReadGraph
  BY <1>1, <1>2, <1>4 DEF ReadGraph, QueryRecord
<1>5. CASE ReadGraphOnly
  <2> DEFINE known == Cut(Eligible(open, query.request), query.request)
  <2>1. Scored(known, <<>>, query.request) \in [Memories -> Nat]
    <3>1. \A m \in DOMAIN <<>> : <<>>[m] \in Percent
      OBVIOUS
    <3>2. known \in SUBSET Memories
      BY <1>2
    <3>. HIDE DEF known
    <3>. QED  BY <1>3, <3>1, <3>2, ScoredIsTyped
  <2>. QED  BY <1>2, <1>5, <2>1, RanksIsTyped DEF ReadGraphOnly
<1>6. CASE SearchVectors
  <2>1. PICK vector \in Findings(query.request) :
          Ranks(query.known, Scored(query.known, vector, query.request))
    BY <1>6 DEF SearchVectors
  <2>2. \A m \in DOMAIN vector : vector[m] \in Percent
    BY <2>1, VectorScoresAssumption DEF Findings
  <2>3. Scored(query.known, vector, query.request) \in [Memories -> Nat]
    BY <1>3, <2>2, ScoredIsTyped
  <2>. QED  BY <1>3, <2>1, <2>3, RanksIsTyped
<1>7. CASE \E m \in Memories : Take(m) \/ Pass(m)
  <2>1. PICK m \in Memories : Take(m) \/ Pass(m)
    BY <1>7
  <2>2. query.left \ {m} \subseteq Memories /\ Append(query.retrieved, m) \in Seq(Memories)
    BY <1>1 DEF QueryRecord
  <2>. QED  BY ZenonT(40), <1>1, <2>1, <2>2 DEF Take, Pass, QueryRecord
<1>8. CASE Retrieved
  BY <1>1, <1>8, RetrievedIsOfMemories DEF Retrieved, QueryRecord
<1>. QED  BY <1>4, <1>5, <1>6, <1>7, <1>8

LEMMA CompositionIsTyped ==
  ASSUME TypeOK, query # Idle,
         \/ \E m \in Memories :
              ExcludeDuplicate(m) \/ ExcludeConflict(m) \/ ExcludeLarge(m) \/ Include(m)
         \/ Composed \/ Respond
  PROVE  query' \in QueryRecord
<1>1. query \in QueryRecord
  BY OfQuery
<1>2. CASE \E m \in Memories : ExcludeDuplicate(m) \/ ExcludeConflict(m) \/ ExcludeLarge(m)
  <2>1. PICK m \in Memories, reason \in ExclusionReasons : Exclude(m, reason)
    BY <1>2 DEF ExcludeDuplicate, ExcludeConflict, ExcludeLarge, ExclusionReasons
  <2>2. /\ query.pending \ {m} \subseteq Memories
        /\ query.excluded \cup {<<m, reason>>} \subseteq Memories \X ExclusionReasons
    BY <1>1 DEF QueryRecord
  <2>. QED  BY <1>1, <2>1, <2>2 DEF Exclude, QueryRecord
<1>3. CASE \E m \in Memories : Include(m)
  <2>1. PICK m \in Memories : Include(m)
    BY <1>3
  <2>2. Content[m].characters \in Nat
    BY ContentAssumption DEF IsContent
  <2>3. TokensOf(m) \in Nat
    BY <2>2 DEF TokensOf
  <2>4. /\ query.pending \ {m} \subseteq Memories /\ Append(query.items, m) \in Seq(Memories)
        /\ query.characters + Content[m].characters \in Nat
        /\ query.tokens + TokensOf(m) \in Nat
    BY SMTT(20), <1>1, <2>2, <2>3 DEF QueryRecord
  <2>. QED  BY <1>1, <2>1, <2>4 DEF Include, QueryRecord
<1>4. CASE Composed
  BY <1>1, <1>4 DEF Composed, QueryRecord
<1>5. CASE Respond
  <2>1. /\ query.items \in Seq(Memories) /\ <<>> \in Seq(Memories)
    BY <1>1 DEF QueryRecord
  <2>2. Response \in [grounded : BOOLEAN, references : Seq(Memories), cut : BOOLEAN]
    BY <2>1 DEF Response
  <2>. QED  BY <1>1, <1>5, <2>2 DEF Respond, QueryRecord
<1>. QED  BY <1>2, <1>3, <1>4, <1>5

\* Every step has a query under way, but the ones that begin one.
LEMMA NextKeepsType == TypeOK /\ [Next]_vars => TypeOK'
<1>. SUFFICES ASSUME TypeOK, [Next]_vars PROVE TypeOK'
  OBVIOUS
<1>1. ASSUME NEW request \in Requests, NEW allowed \in BOOLEAN,
             AskChat(request, allowed) \/ AskSearch(request, allowed)
      PROVE  TypeOK'
  <2>1. PICK pc \in {"read", "compose", "answered"} : Asks(request, allowed, pc)
    BY <1>1 DEF AskChat, AskSearch
  <2>. QED  BY <2>1, BegunIsTyped DEF Asks, TypeOK
<1>2. ASSUME NEW m \in Memories, MemoryChanges(m)
      PROVE  TypeOK'
  <2>1. query \in QueryRecord
    BY <1>2, OfQuery DEF MemoryChanges
  <2>2. query' = [query EXCEPT !.seen = query.seen \cup {m}]
    BY <1>2 DEF MemoryChanges
  <2>3. query' \in QueryRecord
    BY <2>1, <2>2 DEF QueryRecord
  <2>4. open' \subseteq Memories
    BY <1>2 DEF MemoryChanges, TypeOK
  <2>. QED  BY <2>3, <2>4 DEF TypeOK
<1>3. CASE Step
  <2>1. query # Idle
    BY <1>3, AtPlace DEF Step, ReadGraph, ReadGraphOnly, SearchVectors, Take, Pass, Selecting,
       Retrieved, ExcludeDuplicate, ExcludeConflict, ExcludeLarge, Include, Composing, Composed,
       Respond
  <2>2. query' \in QueryRecord
    BY <1>3, <2>1, SelectionIsTyped, CompositionIsTyped DEF Step
  <2>. QED  BY <1>3, <2>2 DEF Step, TypeOK
<1>4. CASE RetrievalFails \/ GeneratorFails
  BY <1>4 DEF RetrievalFails, GeneratorFails, Fails, TypeOK
<1>5. CASE UNCHANGED vars
  BY <1>5 DEF vars, TypeOK
<1>. QED  BY <1>1, <1>2, <1>3, <1>4, <1>5 DEF Next

\* Every field of a query keeps its type; in particular every final score is a
\* natural number, so that none is below zero (FinalScoreBreakdown).
THEOREM TypeCorrect == Spec => []TypeOK
<1>1. Init => TypeOK
  BY DEF Init, TypeOK
<1>. QED  BY <1>1, NextKeepsType, PTL DEF Spec

------------------------------------------------------------------------------
\* Answers are current.

\* Whatever has been open while the query ran is in its seen; everything it
\* deals with was read from there, or from what was read before.
CurrentQuery(q, now) ==
  /\ now \subseteq q.seen
  /\ q.known \subseteq q.seen \cap OfSubject(q.request)
  /\ q.left \cup Elements(q.retrieved) \subseteq q.known
  /\ q.pending \cup Elements(q.items) \subseteq Elements(q.retrieved)
  /\ q.pc \in {"read", "search"} => q.left = {} /\ q.retrieved = <<>>
  /\ ~q.allowed => /\ q.pc \in {"compose", "respond", "answered"}
                   /\ q.known = {} /\ q.retrieved = <<>>
  /\ q.pc # "answered" => q.response = {}
  /\ \A a \in q.response :
       a.references \in {<<>>, q.items} /\ (a.grounded <=> q.items # <<>>)

Current == query # Idle => CurrentQuery(query, open)

LEMMA ElementsOfAppend ==
  ASSUME NEW s \in Seq(Memories), NEW m \in Memories
  PROVE  /\ Elements(Append(s, m)) = Elements(s) \cup {m}
         /\ Append(s, m) # <<>>
<1>1. /\ Len(Append(s, m)) = Len(s) + 1 /\ Len(s) \in Nat
      /\ \A i \in 1 .. Len(s) : Append(s, m)[i] = s[i]
      /\ Append(s, m)[Len(s) + 1] = m
  OBVIOUS
<1>2. 1 .. Len(s) + 1 = (1 .. Len(s)) \cup {Len(s) + 1}
  BY <1>1
<1>. QED  BY <1>1, <1>2 DEF Elements

LEMMA CutIsSeen ==
  ASSUME NEW request
  PROVE  Cut(Eligible(open, request), request) \subseteq open \cap OfSubject(request)
         \/ ~(open \subseteq Memories)
BY DEF Cut, Eligible, OfSubject

LEMMA BegunIsCurrent ==
  ASSUME NEW pc \in {"read", "compose", "answered"}, NEW request, NEW allowed \in BOOLEAN,
         ~allowed => pc # "read"
  PROVE  CurrentQuery(Begun(pc, request, allowed), open)
<1>1. Elements(<<>>) = {}
  BY DEF Elements
<1>. QED  BY <1>1 DEF Begun, CurrentQuery

\* What reading, searching and ranking do to the query.
ReadsTo(pc, known, score, left) ==
  /\ query' = [query EXCEPT !.pc = pc, !.known = known, !.score = score, !.left = left]
  /\ pc \in {"search", "select"}
  /\ left \subseteq known
  /\ known \subseteq query.seen \cap OfSubject(query.request)
  /\ pc = "search" => left = {}

LEMMA ReadingIsCurrent ==
  ASSUME TypeOK, Current, query # Idle, UNCHANGED open,
         ReadGraph \/ ReadGraphOnly \/ SearchVectors
  PROVE  CurrentQuery(query', open')
<1>1. query \in QueryRecord /\ CurrentQuery(query, open)
  BY OfQuery DEF Current
<1>2. PICK pc, known, score, left : ReadsTo(pc, known, score, left)
  <2>1. CASE ReadGraph
    <3> DEFINE known == Cut(Eligible(open, query.request), query.request)
    <3>1. known \subseteq query.seen \cap OfSubject(query.request)
      BY <1>1, CutIsSeen DEF CurrentQuery, TypeOK
    <3>2. query.left = {}
      BY <1>1, <2>1 DEF ReadGraph, CurrentQuery
    <3>3. query' = [query EXCEPT !.pc = "search", !.known = known,
                                 !.score = query.score, !.left = query.left]
      BY <1>1, <2>1 DEF ReadGraph, QueryRecord
    <3>. HIDE DEF known
    <3>4. ReadsTo("search", known, query.score, query.left)
      BY <3>1, <3>2, <3>3 DEF ReadsTo
    <3>. QED  BY <3>4
  <2>2. CASE ReadGraphOnly \/ SearchVectors
    <3>1. PICK known, score : Ranks(known, score) /\ known \subseteq query.seen \cap OfSubject(query.request)
      <4>1. CASE ReadGraphOnly
        BY <1>1, <4>1, CutIsSeen DEF ReadGraphOnly, CurrentQuery, TypeOK
      <4>2. CASE SearchVectors
        BY <1>1, <4>2 DEF SearchVectors, CurrentQuery
      <4>. QED  BY <2>2, <4>1, <4>2
    <3> DEFINE left == {m \in known : ReachesMinimum(score[m], query.request)}
    <3>2. left \subseteq known
      OBVIOUS
    <3>3. query' = [query EXCEPT !.pc = "select", !.known = known, !.score = score, !.left = left]
      BY <3>1 DEF Ranks
    <3>. HIDE DEF left
    <3>4. ReadsTo("select", known, score, left)
      BY <3>1, <3>2, <3>3 DEF ReadsTo
    <3>. QED  BY <3>4
  <2>. QED  BY <2>1, <2>2
<1>3. query.pc \in {"read", "search"}
  BY DEF ReadGraph, ReadGraphOnly, SearchVectors
<1>4. /\ query.left = {} /\ query.retrieved = <<>> /\ query.allowed
      /\ query.response = {}
  BY <1>1, <1>3 DEF CurrentQuery, QueryRecord
<1>5. /\ query'.pc = pc /\ query'.known = known /\ query'.left = left
      /\ query'.seen = query.seen /\ query'.request = query.request
      /\ query'.retrieved = <<>> /\ query'.pending = query.pending
      /\ query'.items = query.items /\ query'.allowed /\ query'.response = {}
  BY <1>1, <1>2, <1>4 DEF ReadsTo, QueryRecord
<1>6. Elements(<<>>) = {}
  BY DEF Elements
<1>. QED  BY <1>1, <1>2, <1>4, <1>5, <1>6 DEF ReadsTo, CurrentQuery

LEMMA SelectingIsCurrent ==
  ASSUME TypeOK, Current, query # Idle, UNCHANGED open,
         (\E m \in Memories : Take(m) \/ Pass(m)) \/ Retrieved
  PROVE  CurrentQuery(query', open')
<1>1. query \in QueryRecord /\ CurrentQuery(query, open)
  BY OfQuery DEF Current
<1>2. query.pc = "select"
  BY DEF Take, Pass, Selecting, Retrieved
<1>3. CASE \E m \in Memories : Take(m)
  <2>1. PICK m \in Memories : Take(m)
    BY <1>3
  <2>2. /\ query'.pc = "select" /\ query'.left = query.left \ {m}
        /\ query'.retrieved = Append(query.retrieved, m)
        /\ query'.known = query.known /\ query'.seen = query.seen
        /\ query'.request = query.request /\ query'.pending = query.pending
        /\ query'.items = query.items /\ query'.allowed = query.allowed
        /\ query'.response = query.response
    BY <1>1, <1>2, <2>1 DEF Take, QueryRecord
  <2>3. Elements(query'.retrieved) = Elements(query.retrieved) \cup {m} /\ m \in query.left
    BY <1>1, <2>1, <2>2, ElementsOfAppend DEF QueryRecord, Take, Selecting
  <2>. QED  BY <1>1, <1>2, <2>2, <2>3 DEF CurrentQuery
<1>4. CASE \E m \in Memories : Pass(m)
  <2>1. PICK m \in Memories : Pass(m)
    BY <1>4
  <2>2. /\ query'.pc = "select" /\ query'.left = query.left \ {m}
        /\ query'.retrieved = query.retrieved
        /\ query'.known = query.known /\ query'.seen = query.seen
        /\ query'.request = query.request /\ query'.pending = query.pending
        /\ query'.items = query.items /\ query'.allowed = query.allowed
        /\ query'.response = query.response
    BY <1>1, <1>2, <2>1 DEF Pass, QueryRecord
  <2>. QED  BY <1>1, <1>2, <2>2 DEF CurrentQuery
<1>5. CASE Retrieved
  <2>1. /\ query'.pc \in {"answered", "compose"} /\ query'.left = query.left
        /\ query'.retrieved = query.retrieved
        /\ query'.known = query.known /\ query'.seen = query.seen
        /\ query'.request = query.request /\ query'.pending = Elements(query.retrieved)
        /\ query'.items = query.items /\ query'.allowed = query.allowed
        /\ query'.response = query.response
    BY <1>1, <1>5 DEF Retrieved, QueryRecord
  <2>. QED  BY <1>1, <1>2, <2>1 DEF CurrentQuery
<1>. QED  BY <1>3, <1>4, <1>5

LEMMA ComposingIsCurrent ==
  ASSUME TypeOK, Current, query # Idle, UNCHANGED open,
         \/ \E m \in Memories :
              ExcludeDuplicate(m) \/ ExcludeConflict(m) \/ ExcludeLarge(m) \/ Include(m)
         \/ Composed \/ Respond
  PROVE  CurrentQuery(query', open')
<1>1. query \in QueryRecord /\ CurrentQuery(query, open)
  BY OfQuery DEF Current
<1>2. query.pc \in {"compose", "respond"} /\ query.response = {}
  BY <1>1 DEF ExcludeDuplicate, ExcludeConflict, ExcludeLarge, Include, Composing, Composed,
     Respond, CurrentQuery
<1>3. CASE \E m \in Memories : ExcludeDuplicate(m) \/ ExcludeConflict(m) \/ ExcludeLarge(m)
  <2>1. PICK m, reason : m \in Memories /\ Exclude(m, reason)
    BY <1>3 DEF ExcludeDuplicate, ExcludeConflict, ExcludeLarge
  <2>2. /\ query'.pc = query.pc /\ query'.pending = query.pending \ {m}
        /\ query'.known = query.known /\ query'.seen = query.seen
        /\ query'.request = query.request /\ query'.left = query.left
        /\ query'.retrieved = query.retrieved
        /\ query'.items = query.items /\ query'.allowed = query.allowed
        /\ query'.response = query.response
    BY <1>1, <2>1 DEF Exclude, QueryRecord
  <2>. QED  BY <1>1, <1>2, <2>2 DEF CurrentQuery
<1>4. CASE \E m \in Memories : Include(m)
  <2>1. PICK m \in Memories : Include(m)
    BY <1>4
  <2>2. /\ query'.pc = query.pc /\ query'.pending = query.pending \ {m}
        /\ query'.known = query.known /\ query'.seen = query.seen
        /\ query'.request = query.request /\ query'.left = query.left
        /\ query'.retrieved = query.retrieved
        /\ query'.items = Append(query.items, m) /\ query'.allowed = query.allowed
        /\ query'.response = query.response
    BY <1>1, <2>1 DEF Include, QueryRecord
  <2>3. Elements(query'.items) = Elements(query.items) \cup {m} /\ m \in query.pending
    BY <1>1, <2>1, <2>2, ElementsOfAppend DEF QueryRecord, Include, Composing
  <2>. QED  BY <1>1, <1>2, <2>2, <2>3 DEF CurrentQuery
<1>5. CASE Composed \/ Respond
  <2>1. /\ query'.pc \in {"respond", "answered"} /\ query'.pending = query.pending
        /\ query'.known = query.known /\ query'.seen = query.seen
        /\ query'.request = query.request /\ query'.left = query.left
        /\ query'.retrieved = query.retrieved
        /\ query'.items = query.items /\ query'.allowed = query.allowed
        /\ \/ query'.response = query.response
           \/ query'.pc = "answered" /\ query'.response = {Response}
    BY ZenonT(40), <1>1, <1>2, <1>5 DEF Composed, Respond, QueryRecord
  <2>2. /\ Response.references \in {<<>>, query.items}
        /\ Response.grounded <=> query.items # <<>>
    BY DEF Response
  <2>. QED  BY <1>1, <1>2, <2>1, <2>2 DEF CurrentQuery
<1>. QED  BY <1>3, <1>4, <1>5

LEMMA NextKeepsCurrent == TypeOK /\ Current /\ [Next]_vars => Current'
<1>. SUFFICES ASSUME TypeOK, Current, [Next]_vars PROVE Current'
  OBVIOUS
<1>1. ASSUME NEW request \in Requests, NEW allowed \in BOOLEAN,
             AskChat(request, allowed) \/ AskSearch(request, allowed)
      PROVE  Current'
  <2>1. PICK pc \in {"read", "compose", "answered"} :
          Asks(request, allowed, pc) /\ (~allowed => pc # "read")
    BY <1>1 DEF AskChat, AskSearch
  <2>2. query' = Begun(pc, request, allowed) /\ open' = open
    BY <2>1 DEF Asks
  <2>. QED  BY <2>1, <2>2, BegunIsCurrent DEF Current
<1>2. ASSUME NEW m \in Memories, MemoryChanges(m)
      PROVE  Current'
  <2>1. query \in QueryRecord /\ CurrentQuery(query, open)
    BY <1>2, OfQuery DEF MemoryChanges, Current
  <2>2. /\ query'.seen = query.seen \cup {m} /\ open' \subseteq open \cup {m}
        /\ query'.pc = query.pc /\ query'.pending = query.pending
        /\ query'.known = query.known
        /\ query'.request = query.request /\ query'.left = query.left
        /\ query'.retrieved = query.retrieved
        /\ query'.items = query.items /\ query'.allowed = query.allowed
        /\ query'.response = query.response
    BY <1>2, <2>1 DEF MemoryChanges, QueryRecord
  <2>. QED  BY <2>1, <2>2 DEF CurrentQuery, Current
<1>3. CASE Step
  <2>1. query # Idle
    BY <1>3, AtPlace DEF Step, ReadGraph, ReadGraphOnly, SearchVectors, Take, Pass, Selecting,
       Retrieved, ExcludeDuplicate, ExcludeConflict, ExcludeLarge, Include, Composing, Composed,
       Respond
  <2>2. CurrentQuery(query', open')
    BY <1>3, <2>1, ReadingIsCurrent, SelectingIsCurrent, ComposingIsCurrent DEF Step
  <2>. QED  BY <2>2 DEF Current
<1>4. CASE RetrievalFails \/ GeneratorFails
  BY <1>4 DEF RetrievalFails, GeneratorFails, Fails, Current
<1>5. CASE UNCHANGED vars
  BY <1>5 DEF vars, Current
<1>. QED  BY <1>1, <1>2, <1>3, <1>4, <1>5 DEF Next

\* An answer rests on memories of its user alone that were active and
\* retrievable while the query ran, on none without consent, and names all it
\* rests on or none (process_query, retrieve_memory).
THEOREM AnswersAreCurrent == Spec => []AnswerIsCurrent
<1>1. Init => Current
  BY DEF Init, Current
<1>2. Current => AnswerIsCurrent
  <2>. SUFFICES ASSUME Current, query.pc = "answered" PROVE AnswerIsCurrent
    BY DEF AnswerIsCurrent
  <2>1. CurrentQuery(query, open)
    BY AtPlace DEF Current
  <2>. QED  BY <2>1 DEF CurrentQuery, AnswerIsCurrent
<1>. QED  BY <1>1, <1>2, TypeCorrect, NextKeepsCurrent, PTL DEF Spec

------------------------------------------------------------------------------
\* What retrieval leaves out.

Before(q, m, n) == Precedes(RetrievalKey(q.score, m), RetrievalKey(q.score, n))
AboveIn(q, m) == {n \in Elements(q.retrieved) : Before(q, n, m)}

\* The candidates the diversity limit passed over.
Passed(q) ==
  {m \in q.known \ (Elements(q.retrieved) \cup q.left) : ReachesMinimum(q.score[m], q.request)}

Outdone(q, m) ==
  /\ Cardinality(AboveIn(q, m)) >= Half(q.request.top_k)
  /\ \E n \in AboveIn(q, m) : Content[n].memory_type = Content[m].memory_type

\* The candidates are retrieved or passed over in the order of rank.
SortedSelection(q) ==
  /\ \A i, j \in 1 .. Len(q.retrieved) : i < j => Before(q, q.retrieved[i], q.retrieved[j])
  /\ \A m \in q.left, n \in Elements(q.retrieved) : Before(q, n, m)

JustSelection(q) ==
  q.pc \notin {"read", "search"} =>
    \A m \in Passed(q) :
      /\ Outdone(q, m)
      /\ \A n \in q.left : Before(q, m, n)

FullSelection(q) ==
  /\ Len(q.retrieved) <= q.request.top_k
  /\ q.pc \notin {"read", "search", "select"} /\ q.left # {} =>
       Len(q.retrieved) = q.request.top_k

SelectionInv(q) == SortedSelection(q) /\ JustSelection(q) /\ FullSelection(q)
Selection == query # Idle => SelectionInv(query)

LEMMA KeysOfMemories ==
  ASSUME NEW q, q.score \in [Memories -> Nat], NEW m \in Memories
  PROVE  RetrievalKey(q.score, m) \in Keys
<1>1. /\ q.score[m] \in Int /\ Content[m].confidence \in Int /\ Content[m].recency \in Int
      /\ m \in Int
  <2>1. IsContent(Content[m])
    BY ContentAssumption
  <2>. QED  BY <2>1, MemoriesAssumption DEF IsContent, Percent
<1>2. /\ -(q.score[m]) \in Int /\ -(Content[m].confidence) \in Int
      /\ -(Content[m].recency) \in Int
  BY <1>1
<1>. QED  BY <1>1, <1>2 DEF RetrievalKey, Keys

LEMMA BeforeIsOrder ==
  ASSUME NEW q, q.score \in [Memories -> Nat], NEW m \in Memories, NEW n \in Memories
  PROVE  ~Before(q, m, m) /\ (Before(q, m, n) => ~Before(q, n, m))
BY KeysOfMemories, PrecedesIsOrder DEF Before

\* A sequence without repetitions has as many elements as places.
LEMMA DistinctElements ==
  ASSUME NEW s \in Seq(Memories), \A i, j \in 1 .. Len(s) : i < j => s[i] # s[j]
  PROVE  Cardinality(Elements(s)) = Len(s)
<1> DEFINE f == [i \in 1 .. Len(s) |-> s[i]]
<1>1. Len(s) \in Nat
  OBVIOUS
<1>2. f \in [1 .. Len(s) -> Elements(s)]
  BY DEF Elements
<1>3. ASSUME NEW i \in DOMAIN f, NEW j \in DOMAIN f, f[i] = f[j]
      PROVE  i = j
  <2>1. i \in Int /\ j \in Int /\ s[i] = s[j]
    BY <1>1, <1>3
  <2>. QED  BY <2>1
<1>4. \A x \in Elements(s) : \E i \in 1 .. Len(s) : f[i] = x
  BY DEF Elements
<1>. HIDE DEF f
<1>5. f \in Bijection(1 .. Len(s), Elements(s))
  BY <1>2, <1>3, <1>4 DEF Bijection, Injection, Surjection, IsInjective
<1>6. ExistsBijection(1 .. Len(s), Elements(s))
  BY <1>5 DEF ExistsBijection
<1>. QED  BY <1>1, <1>6, FS_CountingElements

\* Where a step leaves the selection alone, it stays justified.
LEMMA SameSelection ==
  ASSUME query # Idle, Selection, query' # Idle,
         /\ query'.retrieved = query.retrieved /\ query'.left = query.left
         /\ query'.known = query.known /\ query'.score = query.score
         /\ query'.request = query.request,
         \/ query'.pc = query.pc
         \/ query.pc \in {"compose", "respond"} /\ query'.pc \in {"compose", "respond", "answered"}
  PROVE  SelectionInv(query')
<1>1. SelectionInv(query)
  BY DEF Selection
<1>2. \A m, n : Before(query', m, n) <=> Before(query, m, n)
  BY DEF Before
<1>3. SortedSelection(query')
  BY <1>1, <1>2 DEF SelectionInv, SortedSelection
<1>4. Passed(query') = Passed(query)
  BY DEF Passed
<1>5. \A m : AboveIn(query', m) = AboveIn(query, m)
  BY <1>2 DEF AboveIn
<1>6. \A m : Outdone(query', m) <=> Outdone(query, m)
  BY <1>5 DEF Outdone
<1>7. JustSelection(query')
  BY <1>1, <1>2, <1>4, <1>6 DEF SelectionInv, JustSelection
<1>8. FullSelection(query')
  BY <1>1 DEF SelectionInv, FullSelection
<1>. QED  BY <1>3, <1>7, <1>8 DEF SelectionInv

\* Nothing is selected yet.
LEMMA EmptySelection ==
  ASSUME NEW q, q.retrieved = <<>>, q.request \in Requests, q.left \subseteq q.known,
         q.pc \notin {"read", "search"} => Passed(q) = {},
         q.pc \in {"read", "search", "select"} \/ q.left = {}
  PROVE  SelectionInv(q)
<1>1. q.request.top_k \in 1 .. 50
  BY RequestsAssumption DEF IsRetrievalRequest
<1>2. Elements(q.retrieved) = {}
  BY DEF Elements
<1>3. SortedSelection(q)
  BY <1>2 DEF SortedSelection
<1>4. JustSelection(q)
  BY DEF JustSelection
<1>5. FullSelection(q)
  <2>1. Len(<<>>) = 0
    OBVIOUS
  <2>2. Len(q.retrieved) = 0
    BY <2>1
  <2>3. \A k \in 1 .. 50 : 0 <= k
    OBVIOUS
  <2>4. 0 <= q.request.top_k
    BY <1>1, <2>3, Zenon
  <2>5. Len(q.retrieved) <= q.request.top_k
    BY <2>2, <2>4, Zenon
  <2>. QED  BY <2>5 DEF FullSelection
<1>. QED  BY <1>3, <1>4, <1>5 DEF SelectionInv

LEMMA BegunIsJustified ==
  ASSUME NEW pc \in {"read", "compose", "answered"}, NEW request \in Requests,
         NEW allowed \in BOOLEAN
  PROVE  SelectionInv(Begun(pc, request, allowed))
<1> DEFINE q == Begun(pc, request, allowed)
<1>1. /\ q.retrieved = <<>> /\ q.request = request /\ q.left = {} /\ q.known = {} /\ q.pc = pc
  BY DEF Begun
<1>. HIDE DEF q
<1>2. Passed(q) = {}
  BY <1>1 DEF Passed
<1>3. SelectionInv(q)
  BY <1>1, <1>2, EmptySelection
<1>. QED  BY <1>3 DEF q

LEMMA ReadingIsJustified ==
  ASSUME TypeOK, Current, query # Idle, ReadGraph \/ ReadGraphOnly \/ SearchVectors
  PROVE  SelectionInv(query')
<1>1. query \in QueryRecord /\ CurrentQuery(query, open)
  BY OfQuery DEF Current
<1>2. query.left = {} /\ query.retrieved = <<>> /\ query.request \in Requests
  BY <1>1 DEF ReadGraph, ReadGraphOnly, SearchVectors, CurrentQuery, QueryRecord
<1>3. CASE ReadGraph
  <2>1. /\ query'.retrieved = <<>> /\ query'.request \in Requests
        /\ query'.left = {} /\ query'.pc = "search"
    BY <1>1, <1>2, <1>3 DEF ReadGraph, QueryRecord
  <2>. QED  BY <2>1, EmptySelection
<1>4. ASSUME NEW known, NEW score, Ranks(known, score)
      PROVE  SelectionInv(query')
  <2>1. /\ query'.retrieved = <<>> /\ query'.request = query.request
        /\ query'.pc = "select" /\ query'.known = known /\ query'.score = score
        /\ query'.left = {m \in known : ReachesMinimum(score[m], query.request)}
    BY <1>1, <1>2, <1>4 DEF Ranks, QueryRecord
  <2>2. Passed(query') = {}
    BY <2>1 DEF Passed
  <2>. QED  BY <1>2, <2>1, <2>2, EmptySelection
<1>. QED  BY <1>3, <1>4 DEF ReadGraphOnly, SearchVectors

\* What the candidate at hand has before it and after it.
LEMMA AtCandidate ==
  ASSUME TypeOK, Current, Selection, NEW m \in Memories, Selecting(m)
  PROVE  /\ query # Idle /\ query \in QueryRecord /\ SelectionInv(query)
         /\ query.pc = "select" /\ m \in query.left /\ m \in query.known
         /\ Len(query.retrieved) < query.request.top_k
         /\ \A n \in query.left \ {m} : Before(query, m, n)
         /\ \A n \in Elements(query.retrieved) : Before(query, n, m)
         /\ m \notin Elements(query.retrieved)
         /\ \A n, p \in Memories : ~Before(query, n, n) /\ (Before(query, n, p) => ~Before(query, p, n))
<1>1. query # Idle /\ query.pc = "select" /\ m \in query.left
      /\ Len(query.retrieved) < query.request.top_k
      /\ \A n \in query.left \ {m} : Before(query, m, n)
  BY AtPlace DEF Selecting, RetrievalPrecedes, Before
<1>2. query \in QueryRecord /\ SelectionInv(query)
  BY <1>1, OfQuery DEF Selection
<1>3. \A n \in Elements(query.retrieved) : Before(query, n, m)
  BY <1>1, <1>2 DEF SelectionInv, SortedSelection
<1>4. \A n, p \in Memories : ~Before(query, n, n) /\ (Before(query, n, p) => ~Before(query, p, n))
  <2>1. query.score \in [Memories -> Nat]
    BY <1>2 DEF QueryRecord
  <2>. QED  BY <2>1, BeforeIsOrder
<1>5. m \in query.known
  BY <1>1 DEF Current, CurrentQuery
<1>. QED  BY <1>1, <1>2, <1>3, <1>4, <1>5

LEMMA TakeIsJustified ==
  ASSUME TypeOK, Current, Selection, NEW m \in Memories, Take(m)
  PROVE  SelectionInv(query')
<1>1. Selecting(m)
  BY DEF Take
<1>2. /\ query \in QueryRecord /\ SelectionInv(query)
      /\ query.pc = "select" /\ m \in query.left
      /\ Len(query.retrieved) < query.request.top_k
      /\ \A n \in query.left \ {m} : Before(query, m, n)
      /\ \A n \in Elements(query.retrieved) : Before(query, n, m)
      /\ \A n, p \in Memories : Before(query, n, p) => ~Before(query, p, n)
  BY <1>1, AtCandidate
<1>3. /\ query'.pc = "select" /\ query'.left = query.left \ {m}
      /\ query'.retrieved = Append(query.retrieved, m)
      /\ query'.known = query.known /\ query'.score = query.score
      /\ query'.request = query.request
  BY <1>2 DEF Take, QueryRecord
<1>4. query.retrieved \in Seq(Memories) /\ query.left \subseteq Memories
      /\ query.known \subseteq Memories /\ query.request \in Requests
  BY <1>2 DEF QueryRecord
<1>5. Elements(query'.retrieved) = Elements(query.retrieved) \cup {m}
  BY <1>3, <1>4, ElementsOfAppend
<1>6. \A n, p : Before(query', n, p) <=> Before(query, n, p)
  BY <1>3 DEF Before
<1>7. SortedSelection(query')
  <2>1. ASSUME NEW i \in 1 .. Len(query'.retrieved), NEW j \in 1 .. Len(query'.retrieved), i < j
        PROVE  Before(query, query'.retrieved[i], query'.retrieved[j])
    <3>1. /\ Len(query'.retrieved) = Len(query.retrieved) + 1 /\ Len(query.retrieved) \in Nat
          /\ \A h \in 1 .. Len(query.retrieved) : query'.retrieved[h] = query.retrieved[h]
          /\ query'.retrieved[Len(query.retrieved) + 1] = m
      BY <1>3, <1>4
    <3>2. i \in 1 .. Len(query.retrieved)
      BY <2>1, <3>1
    <3>3. CASE j = Len(query.retrieved) + 1
      <4>1. query.retrieved[i] \in Elements(query.retrieved)
        BY <3>2 DEF Elements
      <4>. QED  BY <1>2, <3>1, <3>2, <3>3, <4>1
    <3>4. CASE j # Len(query.retrieved) + 1
      <4>1. j \in 1 .. Len(query.retrieved)
        BY <2>1, <3>1, <3>4
      <4>. QED  BY <1>2, <2>1, <3>1, <3>2, <4>1 DEF SelectionInv, SortedSelection
    <3>. QED  BY <3>3, <3>4
  <2>2. \A n \in query'.left, p \in Elements(query'.retrieved) : Before(query, p, n)
    BY <1>2, <1>3, <1>5 DEF SelectionInv, SortedSelection
  <2>. QED  BY <1>6, <2>1, <2>2 DEF SortedSelection
<1>8. JustSelection(query')
  <2>1. Passed(query') = Passed(query)
    BY <1>2, <1>3, <1>5 DEF Passed
  <2>2. ASSUME NEW p \in Passed(query)
        PROVE  Outdone(query', p) /\ \A n \in query'.left : Before(query, p, n)
    <3>1. Outdone(query, p) /\ \A n \in query.left : Before(query, p, n)
      BY <1>2 DEF SelectionInv, JustSelection
    <3>2. p \in Memories /\ ~Before(query, m, p)
      BY <1>2, <1>4, <3>1 DEF Passed
    <3>3. AboveIn(query', p) = AboveIn(query, p)
      BY <1>5, <1>6, <3>2 DEF AboveIn
    <3>. QED  BY <1>3, <3>1, <3>3 DEF Outdone
  <2>. QED  BY <1>6, <2>1, <2>2 DEF JustSelection
<1>9. FullSelection(query')
  <2>1. query.request.top_k \in Int
    <3>1. IsRetrievalRequest(query.request)
      BY <1>4, RequestsAssumption
    <3>. QED  BY <3>1 DEF IsRetrievalRequest
  <2>2. Len(query'.retrieved) = Len(query.retrieved) + 1 /\ Len(query.retrieved) \in Nat
    BY <1>3, <1>4
  <2>3. Len(query'.retrieved) <= query'.request.top_k
    BY <1>2, <1>3, <2>1, <2>2
  <2>. QED  BY <1>3, <2>3 DEF FullSelection
<1>. QED  BY <1>7, <1>8, <1>9 DEF SelectionInv

LEMMA PassIsJustified ==
  ASSUME TypeOK, Current, Selection, NEW m \in Memories, Pass(m)
  PROVE  SelectionInv(query')
<1>1. Selecting(m) /\ ~Diverse(m)
  BY DEF Pass
<1>2. /\ query \in QueryRecord /\ SelectionInv(query)
      /\ query.pc = "select" /\ m \in query.left
      /\ Len(query.retrieved) < query.request.top_k
      /\ \A n \in query.left \ {m} : Before(query, m, n)
      /\ \A n \in Elements(query.retrieved) : Before(query, n, m)
      /\ \A n, p \in Memories : ~Before(query, n, n)
  BY <1>1, AtCandidate
<1>3. /\ query'.pc = "select" /\ query'.left = query.left \ {m}
      /\ query'.retrieved = query.retrieved
      /\ query'.known = query.known /\ query'.score = query.score
      /\ query'.request = query.request
  BY <1>2 DEF Pass, QueryRecord
<1>4. query.retrieved \in Seq(Memories) /\ query.request \in Requests
  BY <1>2 DEF QueryRecord
<1>5. \A n, p : Before(query', n, p) <=> Before(query, n, p)
  BY <1>3 DEF Before
<1>6. \A p : AboveIn(query', p) = AboveIn(query, p)
  BY <1>3, <1>5 DEF AboveIn
<1>7. SortedSelection(query')
  BY <1>2, <1>3, <1>5 DEF SelectionInv, SortedSelection
<1>8. Outdone(query, m)
  <2>1. AboveIn(query, m) = Elements(query.retrieved)
    BY <1>2 DEF AboveIn
  <2>2. \A i \in 1 .. Len(query.retrieved) : query.retrieved[i] \in Memories
    BY <1>4
  <2>3. \A i, j \in 1 .. Len(query.retrieved) : i < j => query.retrieved[i] # query.retrieved[j]
    BY <1>2, <2>2 DEF SelectionInv, SortedSelection
  <2>4. Cardinality(AboveIn(query, m)) = Len(query.retrieved)
    BY <1>4, <2>1, <2>3, DistinctElements
  <2>5. /\ Content[m].memory_type \in Types(query.retrieved)
        /\ ~(Len(query.retrieved) < Half(query.request.top_k))
    BY <1>1 DEF Diverse
  <2>6. \E n \in AboveIn(query, m) : Content[n].memory_type = Content[m].memory_type
    BY <2>1, <2>5 DEF Types, Elements
  <2>7. Cardinality(AboveIn(query, m)) >= Half(query.request.top_k)
    <3>1. query.request.top_k \in 1 .. 50
      BY <1>4, RequestsAssumption DEF IsRetrievalRequest
    <3>2. Half(query.request.top_k) \in Int
      BY <3>1 DEF Half, Most
    <3>3. Len(query.retrieved) \in Int
      BY <1>4
    <3>. QED  BY <2>4, <2>5, <3>2, <3>3
  <2>. QED  BY <2>6, <2>7 DEF Outdone
<1>9. JustSelection(query')
  <2>1. Passed(query') \subseteq Passed(query) \cup {m}
    BY <1>3 DEF Passed
  <2>2. \A p \in Passed(query) : Outdone(query, p) /\ \A n \in query.left : Before(query, p, n)
    BY <1>2 DEF SelectionInv, JustSelection
  <2>3. \A p : Outdone(query', p) <=> Outdone(query, p)
    BY <1>3, <1>6 DEF Outdone
  <2>4. \A n \in query'.left : n \in query.left \ {m}
    BY <1>3
  <2>. QED  BY <1>2, <1>5, <1>8, <2>1, <2>2, <2>3, <2>4 DEF JustSelection
<1>10. FullSelection(query')
  BY <1>2, <1>3 DEF SelectionInv, FullSelection
<1>. QED  BY <1>7, <1>9, <1>10 DEF SelectionInv

LEMMA RetrievedIsJustified ==
  ASSUME TypeOK, Selection, Retrieved
  PROVE  SelectionInv(query')
<1>1. query \in QueryRecord /\ SelectionInv(query) /\ query.pc = "select"
  BY AtPlace, OfQuery DEF Retrieved, Selection
<1>2. /\ query'.retrieved = query.retrieved /\ query'.left = query.left
      /\ query'.known = query.known /\ query'.score = query.score
      /\ query'.request = query.request
  BY <1>1 DEF Retrieved, QueryRecord
<1>3. \A m, n : Before(query', m, n) <=> Before(query, m, n)
  BY <1>2 DEF Before
<1>4. SortedSelection(query')
  BY <1>1, <1>2, <1>3 DEF SelectionInv, SortedSelection
<1>5. JustSelection(query')
  <2>1. Passed(query') = Passed(query)
    BY <1>2 DEF Passed
  <2>2. \A m : Outdone(query', m) <=> Outdone(query, m)
    BY <1>2, <1>3 DEF Outdone, AboveIn
  <2>. QED  BY <1>1, <1>2, <1>3, <2>1, <2>2 DEF SelectionInv, JustSelection
<1>6. FullSelection(query')
  <2>1. query.left = {} \/ Len(query.retrieved) >= query.request.top_k
    BY DEF Retrieved
  <2>2. query.request.top_k \in Int /\ Len(query.retrieved) \in Int
    <3>1. IsRetrievalRequest(query.request)
      BY <1>1, RequestsAssumption DEF QueryRecord
    <3>2. query.request.top_k \in Int
      BY <3>1 DEF IsRetrievalRequest
    <3>3. query.retrieved \in Seq(Memories)
      BY <1>1 DEF QueryRecord
    <3>4. Len(query.retrieved) \in Int
      BY <3>3
    <3>. QED  BY <3>2, <3>4
  <2>3. Len(query.retrieved) <= query.request.top_k
    BY <1>1 DEF SelectionInv, FullSelection
  <2>4. query.left # {} => Len(query.retrieved) = query.request.top_k
    BY <2>1, <2>2, <2>3
  <2>. QED  BY <1>2, <2>3, <2>4 DEF FullSelection
<1>. QED  BY <1>4, <1>5, <1>6 DEF SelectionInv

\* Composition and the response leave the selection as it is.
LEMMA ComposingIsJustified ==
  ASSUME TypeOK, Selection, query' # Idle,
         \/ \E m \in Memories :
              ExcludeDuplicate(m) \/ ExcludeConflict(m) \/ ExcludeLarge(m) \/ Include(m)
         \/ Composed \/ Respond
  PROVE  SelectionInv(query')
<1>1. query.pc \in {"compose", "respond"}
  BY DEF ExcludeDuplicate, ExcludeConflict, ExcludeLarge, Include, Composing, Composed, Respond
<1>2. query # Idle /\ query \in QueryRecord
  BY <1>1, OfQuery DEF Idle
<1>3. /\ query'.retrieved = query.retrieved /\ query'.left = query.left
      /\ query'.known = query.known /\ query'.score = query.score
      /\ query'.request = query.request
      /\ query'.pc \in {query.pc, "respond", "answered"}
  BY ZenonT(40), <1>2 DEF ExcludeDuplicate, ExcludeConflict, ExcludeLarge, Exclude, Include, Composed, Respond,
     QueryRecord
<1>. QED  BY <1>1, <1>2, <1>3, SameSelection

LEMMA NextKeepsSelection ==
  TypeOK /\ TypeOK' /\ Current /\ Selection /\ [Next]_vars => Selection'
<1>. SUFFICES ASSUME TypeOK, TypeOK', Current, Selection, [Next]_vars, query' # Idle
              PROVE  SelectionInv(query')
  BY DEF Selection
<1>1. ASSUME NEW request \in Requests, NEW allowed \in BOOLEAN,
             AskChat(request, allowed) \/ AskSearch(request, allowed)
      PROVE  SelectionInv(query')
  <2>1. PICK pc \in {"read", "compose", "answered"} : query' = Begun(pc, request, allowed)
    BY <1>1 DEF AskChat, AskSearch, Asks
  <2>. QED  BY <2>1, BegunIsJustified
<1>2. ASSUME NEW m \in Memories, MemoryChanges(m)
      PROVE  SelectionInv(query')
  <2>1. query # Idle /\ query \in QueryRecord
    BY <1>2, OfQuery DEF MemoryChanges
  <2>2. /\ query'.retrieved = query.retrieved /\ query'.left = query.left
        /\ query'.known = query.known /\ query'.score = query.score
        /\ query'.request = query.request /\ query'.pc = query.pc
    BY <1>2, <2>1 DEF MemoryChanges, QueryRecord
  <2>. QED  BY <2>1, <2>2, SameSelection
<1>3. CASE Step
  <2>1. CASE ReadGraph \/ ReadGraphOnly \/ SearchVectors
    <3>1. query # Idle
      BY <2>1, AtPlace DEF ReadGraph, ReadGraphOnly, SearchVectors
    <3>. QED  BY <2>1, <3>1, ReadingIsJustified
  <2>. QED  BY <1>3, <2>1, TakeIsJustified, PassIsJustified, RetrievedIsJustified,
            ComposingIsJustified DEF Step
<1>4. CASE RetrievalFails \/ GeneratorFails
  BY <1>4 DEF RetrievalFails, GeneratorFails, Fails
<1>5. CASE UNCHANGED vars
  BY <1>5 DEF vars, Selection
<1>. QED  BY <1>1, <1>2, <1>3, <1>4, <1>5 DEF Next

\* What retrieval returns is in the order of rank, and a candidate that reaches
\* the minimum is left out only when the places are taken, or when half of them
\* are, by better ones, one of them of its type (_apply_diversity_limit).
THEOREM OmissionsAreJustified == Spec => []RetrievalIsJustified
<1>1. Init => Current /\ Selection
  BY DEF Init, Current, Selection
<1>2. TypeOK /\ Selection => RetrievalIsJustified
  <2>. SUFFICES ASSUME TypeOK, Selection, query # Idle PROVE RetrievalIsJustified
    BY DEF RetrievalIsJustified
  <2>1. SelectionInv(query)
    BY DEF Selection
  <2>2. \A m, n : RetrievalPrecedes(m, n) <=> Before(query, m, n)
    BY DEF RetrievalPrecedes, Before
  <2>3. \A m : Above(m) = AboveIn(query, m)
    BY <2>2 DEF Above, AboveIn
  <2>. QED  BY <2>1, <2>2, <2>3 DEF SelectionInv, SortedSelection, JustSelection, FullSelection,
            Passed, Outdone, RetrievalIsJustified
<1>. QED  BY <1>1, <1>2, TypeCorrect, NextKeepsCurrent, NextKeepsSelection, PTL DEF Spec

------------------------------------------------------------------------------
\* Sums over a sequence.  A sum is a function defined by recursion, which in TLA+
\* is a CHOOSE: that there is one with its equation, and that it depends on the
\* first elements only, is shown by a smallest counterexample.

\* A set of numbers that holds 0 and with a number the next one holds all.
LEMMA CountingUp ==
  ASSUME NEW P, 0 \in P, \A n \in Nat : n \in P => n + 1 \in P
  PROVE  \A n \in Nat : n \in P
<1> DEFINE R == {p \in Nat \X Nat : p[1] < p[2]}
<1>. SUFFICES ASSUME Nat \ P # {} PROVE FALSE
  OBVIOUS
<1>1. IsWellFoundedOn(R, Nat)
  BY NatLessThanWellFounded, Zenon DEF OpToRel
<1>2. \A x, y \in Nat : x < y => <<x, y>> \in R
  OBVIOUS
<1>. HIDE DEF R
<1>3. PICK x \in Nat \ P : \A y \in Nat \ P : <<y, x>> \notin R
  <2>1. Nat \ P \subseteq Nat
    OBVIOUS
  <2>. QED  BY <1>1, <2>1, WFMin, Zenon
<1>4. x # 0 /\ x - 1 \in Nat /\ x - 1 < x /\ (x - 1) + 1 = x
  BY <1>3
<1>5. x - 1 \in P
  BY <1>2, <1>3, <1>4
<1>. QED  BY <1>3, <1>4, <1>5

\* g holds the sums of the first elements of s, up to n of them.
Sums(g, s, size, n) ==
  g = [i \in 0 .. n |-> IF i = 0 THEN 0 ELSE g[i - 1] + size[s[i]]]

LEMMA TotalIsSum ==
  ASSUME NEW s, NEW size
  PROVE  Total(s, size) = (CHOOSE g : Sums(g, s, size, Len(s)))[Len(s)]
BY DEF Total, Sums

LEMMA SumsExist ==
  ASSUME NEW s, NEW size
  PROVE  \A n \in Nat : \E g : Sums(g, s, size, n)
<1> DEFINE P == {n \in Nat : \E g : Sums(g, s, size, n)}
<1>1. 0 \in P
  <2> DEFINE g == [i \in 0 .. 0 |-> 0]
  <2>1. Sums(g, s, size, 0)
    BY DEF Sums
  <2>. QED  BY <2>1
<1>2. ASSUME NEW n \in Nat, n \in P
      PROVE  n + 1 \in P
  <2>1. PICK g : Sums(g, s, size, n)
    BY <1>2
  <2> DEFINE h == [i \in 0 .. n + 1 |-> IF i = n + 1 THEN g[n] + size[s[n + 1]] ELSE g[i]]
  <2>2. ASSUME NEW i \in 0 .. n + 1
        PROVE  h[i] = IF i = 0 THEN 0 ELSE h[i - 1] + size[s[i]]
    <3>1. CASE i = n + 1
      <4>1. i # 0 /\ i - 1 = n /\ n \in 0 .. n + 1 /\ n # n + 1
        BY <3>1
      <4>. QED  BY <3>1, <4>1
    <3>2. CASE i # n + 1
      <4>1. i \in 0 .. n
        BY <3>2
      <4>2. g[i] = IF i = 0 THEN 0 ELSE g[i - 1] + size[s[i]]
        BY <2>1, <4>1 DEF Sums
      <4>3. i # 0 => i - 1 \in 0 .. n + 1 /\ i - 1 # n + 1
        BY <4>1
      <4>. QED  BY <3>2, <4>2, <4>3
    <3>. QED  BY <3>1, <3>2
  <2>3. h = [i \in 0 .. n + 1 |-> h[i]]
    OBVIOUS
  <2>. HIDE DEF h
  <2>4. Sums(h, s, size, n + 1)
    BY <2>2, <2>3 DEF Sums
  <2>. QED  BY <2>4
<1>. QED
  <2>. HIDE DEF P
  <2>1. \A n \in Nat : n \in P
    BY <1>1, <1>2, CountingUp
  <2>. QED  BY <2>1 DEF P

LEMMA TotalObeysEquation ==
  ASSUME NEW s \in Seq(Memories), NEW size
  PROVE  \E g : Sums(g, s, size, Len(s)) /\ Total(s, size) = g[Len(s)]
<1>1. Len(s) \in Nat
  OBVIOUS
<1>2. \E g : Sums(g, s, size, Len(s))
  BY <1>1, SumsExist
<1>. QED  BY <1>2, TotalIsSum

\* Two sequences with the same first elements have the same first sums, which
\* are natural numbers.
LEMMA SumsAgree ==
  ASSUME NEW s \in Seq(Memories), NEW t \in Seq(Memories), NEW size \in [Memories -> Nat],
         NEW g, NEW h, NEW k \in Nat, k <= Len(s), k <= Len(t),
         Sums(g, s, size, Len(s)), Sums(h, t, size, Len(t)),
         \A i \in 1 .. k : s[i] = t[i]
  PROVE  g[k] = h[k] /\ g[k] \in Nat
<1> DEFINE P == {i \in Nat : i <= k => g[i] = h[i] /\ g[i] \in Nat}
<1>1. 0 \in P
  BY DEF Sums
<1>2. ASSUME NEW i \in Nat, i \in P
      PROVE  i + 1 \in P
  <2>. SUFFICES ASSUME i + 1 <= k
                PROVE  g[i + 1] = h[i + 1] /\ g[i + 1] \in Nat
    OBVIOUS
  <2>1. /\ i + 1 \in 0 .. Len(s) /\ i + 1 \in 0 .. Len(t) /\ i + 1 # 0 /\ (i + 1) - 1 = i
        /\ i + 1 \in 1 .. k /\ i + 1 \in 1 .. Len(s)
    OBVIOUS
  <2>2. g[i + 1] = g[i] + size[s[i + 1]]
    BY <2>1 DEF Sums
  <2>3. h[i + 1] = h[i] + size[t[i + 1]]
    BY <2>1 DEF Sums
  <2>4. g[i] = h[i] /\ g[i] \in Nat
    BY <1>2
  <2>5. s[i + 1] = t[i + 1] /\ s[i + 1] \in Memories
    BY <2>1
  <2>6. size[s[i + 1]] \in Nat
    BY <2>5
  <2>. QED  BY SMTT(20), <2>2, <2>3, <2>4, <2>5, <2>6
<1>. QED
  <2>. HIDE DEF P
  <2>1. \A i \in Nat : i \in P
    BY <1>1, <1>2, CountingUp
  <2>. QED  BY <2>1 DEF P

\* A sum grows by the size of what is appended.
LEMMA TotalOfAppend ==
  ASSUME NEW s \in Seq(Memories), NEW m \in Memories, NEW size \in [Memories -> Nat]
  PROVE  /\ Total(s, size) \in Nat
         /\ Total(Append(s, m), size) = Total(s, size) + size[m]
<1> DEFINE t == Append(s, m)
<1>1. /\ t \in Seq(Memories) /\ Len(s) \in Nat /\ Len(t) = Len(s) + 1
      /\ \A i \in 1 .. Len(s) : s[i] = t[i]
      /\ t[Len(s) + 1] = m
  OBVIOUS
<1>. HIDE DEF t
<1>2. PICK g : Sums(g, s, size, Len(s)) /\ Total(s, size) = g[Len(s)]
  BY TotalObeysEquation
<1>3. PICK h : Sums(h, t, size, Len(t)) /\ Total(t, size) = h[Len(t)]
  BY <1>1, TotalObeysEquation
<1>4. g[Len(s)] = h[Len(s)] /\ g[Len(s)] \in Nat
  <2>1. Len(s) \in Nat /\ Len(s) <= Len(s) /\ Len(s) <= Len(t)
    BY <1>1
  <2>2. Sums(g, s, size, Len(s)) /\ Sums(h, t, size, Len(t)) /\ t \in Seq(Memories)
    BY <1>1, <1>2, <1>3
  <2>3. \A i \in 1 .. Len(s) : s[i] = t[i]
    BY <1>1
  <2>4. ASSUME NEW k \in Nat, k <= Len(s), k <= Len(t), \A i \in 1 .. k : s[i] = t[i]
        PROVE  g[k] = h[k] /\ g[k] \in Nat
    BY <2>2, <2>4, SumsAgree
  <2>. QED  BY <2>1, <2>3, <2>4
<1>5. Len(t) \in 0 .. Len(t) /\ Len(t) # 0 /\ Len(t) - 1 = Len(s)
  BY <1>1
<1>6. h[Len(t)] = h[Len(s)] + size[m]
  BY <1>1, <1>3, <1>5 DEF Sums
<1>. QED  BY <1>2, <1>3, <1>4, <1>6 DEF t

LEMMA TotalOfNothing ==
  ASSUME NEW size
  PROVE  Total(<<>>, size) = 0
<1>1. <<>> \in Seq(Memories) /\ Len(<<>>) = 0
  OBVIOUS
<1>2. PICK g : Sums(g, <<>>, size, 0) /\ Total(<<>>, size) = g[0]
  BY <1>1, TotalObeysEquation
<1>. QED  BY <1>2 DEF Sums

------------------------------------------------------------------------------
\* What composition leaves out.

Ranked(q, m, n) == Precedes(CompositionKey(q.score, m), CompositionKey(q.score, n))

\* The items are in the order of rank and agree with each other, and the
\* candidates left rank after them.
SortedContext(q) ==
  /\ \A i, j \in 1 .. Len(q.items) : i < j =>
       /\ Ranked(q, q.items[i], q.items[j])
       /\ ~SameFact(q.items[i], q.items[j]) /\ ~Conflicts(q.items[i], q.items[j])
  /\ \A n \in Elements(q.items), m \in q.pending : Ranked(q, n, m)

\* The counters of the code are the sizes of the items.
WithinBudgets(q) ==
  /\ q.characters = Total(q.items, Characters) /\ q.tokens = Total(q.items, Tokens)
  /\ Len(q.items) <= q.request.max_items
  /\ q.characters <= q.request.max_characters /\ q.tokens <= q.request.max_tokens

\* The reason is true of the items before, which were all the items there were
\* when m was left out.
Reason(q, m, reason, before) ==
  CASE reason = "duplicate" -> \E n \in Elements(before) : SameFact(m, n)
    [] reason = "conflicting_memory" -> \E n \in Elements(before) : Conflicts(m, n)
    [] OTHER -> ~Fits(m, Len(before), Total(before, Characters), Total(before, Tokens), q.request)

JustExclusion(q, m, reason) ==
  \E k \in 0 .. Len(q.items) :
    /\ \A i \in 1 .. Len(q.items) : Ranked(q, q.items[i], m) <=> i <= k
    /\ Reason(q, m, reason, SubSeq(q.items, 1, k))

\* What was left out ranks before the candidates left, so that no item added
\* later changes why.
JustExclusions(q) ==
  \A e \in q.excluded : JustExclusion(q, e[1], e[2]) /\ \A n \in q.pending : Ranked(q, e[1], n)

\* Every memory retrieved is an item, left out or still to come.
Accounted(q) ==
  /\ q.pc \in {"read", "search", "select"} =>
       q.items = <<>> /\ q.excluded = {} /\ q.characters = 0 /\ q.tokens = 0
  /\ q.pc \in {"compose", "respond"} =>
       Elements(q.retrieved) = Elements(q.items) \cup {e[1] : e \in q.excluded} \cup q.pending
  /\ q.pc = "respond" => q.pending = {}

ContextInv(q) == SortedContext(q) /\ WithinBudgets(q) /\ JustExclusions(q) /\ Accounted(q)
Composition == query # Idle => ContextInv(query)

LEMMA CompositionKeysOfMemories ==
  ASSUME NEW q, q.score \in [Memories -> Nat], NEW m \in Memories
  PROVE  CompositionKey(q.score, m) \in Keys
<1>1. /\ q.score[m] \in Int /\ Content[m].confidence \in Int
      /\ ExplicitnessScore(m) \in Int /\ m \in Int
  <2>1. IsContent(Content[m])
    BY ContentAssumption
  <2>2. ExplicitnessScore(m) \in Int
    BY DEF ExplicitnessScore
  <2>. QED  BY <2>1, <2>2, MemoriesAssumption DEF IsContent, Percent
<1>2. -(q.score[m]) \in Int /\ -(Content[m].confidence) \in Int /\ -ExplicitnessScore(m) \in Int
  BY <1>1
<1>. QED  BY <1>1, <1>2 DEF CompositionKey, Keys

LEMMA RankedIsOrder ==
  ASSUME NEW q, q.score \in [Memories -> Nat], NEW m \in Memories, NEW n \in Memories
  PROVE  Ranked(q, m, n) => ~Ranked(q, n, m)
BY CompositionKeysOfMemories, PrecedesIsOrder DEF Ranked

LEMMA ConflictsIsSymmetric ==
  ASSUME NEW m \in Memories, NEW n \in Memories
  PROVE  Conflicts(m, n) <=> Conflicts(n, m)
<1> DEFINE mine == WordsOf[Content[m].fact]
           other == WordsOf[Content[n].fact]
<1>1. Cardinality(mine) \in Nat /\ Cardinality(other) \in Nat
  BY WordsAssumption, FS_CardinalityType
<1>2. Least(Cardinality(mine), Cardinality(other)) = Least(Cardinality(other), Cardinality(mine))
  BY <1>1 DEF Least
<1>3. mine \cap other = other \cap mine
  OBVIOUS
<1>4. SameFact(m, n) <=> SameFact(n, m)
  BY DEF SameFact
<1>5. Conflicts(m, n) <=>
        /\ Content[m].memory_type = "explicit_preference"
        /\ Content[n].memory_type = "explicit_preference"
        /\ ~SameFact(m, n) /\ mine # {} /\ other # {}
        /\ 5 * Cardinality(mine \cap other) >= 4 * Least(Cardinality(mine), Cardinality(other))
  BY DEF Conflicts
<1>6. Conflicts(n, m) <=>
        /\ Content[n].memory_type = "explicit_preference"
        /\ Content[m].memory_type = "explicit_preference"
        /\ ~SameFact(n, m) /\ other # {} /\ mine # {}
        /\ 5 * Cardinality(other \cap mine) >= 4 * Least(Cardinality(other), Cardinality(mine))
  BY DEF Conflicts
<1>. HIDE DEF mine, other
<1>. QED  BY <1>2, <1>3, <1>4, <1>5, <1>6

LEMMA SizesAreNatural ==
  /\ Characters \in [Memories -> Nat] /\ Tokens \in [Memories -> Nat]
  /\ \A m \in Memories : Characters[m] = Content[m].characters /\ Tokens[m] = TokensOf(m)
<1>1. \A m \in Memories : Content[m].characters \in Nat
  BY ContentAssumption DEF IsContent
<1>2. \A m \in Memories : TokensOf(m) \in Nat
  BY <1>1 DEF TokensOf
<1>. QED  BY <1>1, <1>2 DEF Characters, Tokens

LEMMA BudgetsAreTyped ==
  ASSUME NEW request \in Requests
  PROVE  /\ request.max_items \in Nat /\ request.max_characters \in Nat
         /\ request.max_tokens \in Nat
<1>1. IsContextRequest(request)
  BY RequestsAssumption
<1>. QED  BY <1>1 DEF IsContextRequest

\* Nothing is composed yet.
LEMMA EmptyContext ==
  ASSUME NEW q, q.items = <<>>, q.excluded = {}, q.characters = 0, q.tokens = 0,
         q.request \in Requests,
         q.pc \in {"compose", "respond"} => q.pending = Elements(q.retrieved),
         q.pc # "respond"
  PROVE  ContextInv(q)
<1>1. Elements(q.items) = {} /\ Len(q.items) = 0
  <2>1. Len(<<>>) = 0
    OBVIOUS
  <2>. QED  BY <2>1 DEF Elements
<1>2. SortedContext(q)
  BY <1>1 DEF SortedContext
<1>3. WithinBudgets(q)
  <2>1. Total(q.items, Characters) = 0 /\ Total(q.items, Tokens) = 0
    BY TotalOfNothing
  <2>. QED  BY <1>1, <2>1, BudgetsAreTyped DEF WithinBudgets
<1>4. JustExclusions(q)
  BY DEF JustExclusions
<1>5. Accounted(q)
  BY <1>1 DEF Accounted
<1>. QED  BY <1>2, <1>3, <1>4, <1>5 DEF ContextInv

\* Where a step leaves the context alone, it stays justified.
LEMMA SameContext ==
  ASSUME query # Idle, Composition,
         /\ query'.items = query.items /\ query'.excluded = query.excluded
         /\ query'.characters = query.characters /\ query'.tokens = query.tokens
         /\ query'.score = query.score /\ query'.request = query.request
         /\ query'.pending = query.pending /\ query'.retrieved = query.retrieved,
         \/ query'.pc \in {query.pc, "answered"}
         \/ query.pc = "compose" /\ query'.pc = "respond" /\ query.pending = {}
  PROVE  ContextInv(query')
<1>1. ContextInv(query)
  BY DEF Composition
<1>2. \A m, n : Ranked(query', m, n) <=> Ranked(query, m, n)
  BY DEF Ranked
<1>3. SortedContext(query')
  BY <1>1, <1>2 DEF ContextInv, SortedContext
<1>4. WithinBudgets(query')
  BY <1>1 DEF ContextInv, WithinBudgets
<1>5. JustExclusions(query')
  <2>1. ASSUME NEW m, NEW reason, NEW s
        PROVE  Reason(query', m, reason, s) <=> Reason(query, m, reason, s)
    BY DEF Reason
  <2>2. \A m, reason : JustExclusion(query', m, reason) <=> JustExclusion(query, m, reason)
    BY <1>2, <2>1 DEF JustExclusion
  <2>. QED  BY <1>1, <1>2, <2>2 DEF ContextInv, JustExclusions
<1>6. Accounted(query')
  BY <1>1 DEF ContextInv, Accounted
<1>. QED  BY <1>3, <1>4, <1>5, <1>6 DEF ContextInv

LEMMA SelectingKeepsContext ==
  ASSUME TypeOK, Composition, query # Idle,
         \/ ReadGraph \/ ReadGraphOnly \/ SearchVectors
         \/ \E m \in Memories : Take(m) \/ Pass(m)
         \/ Retrieved
  PROVE  ContextInv(query')
<1>1. query \in QueryRecord /\ ContextInv(query)
  BY OfQuery DEF Composition
<1>2. query.pc \in {"read", "search", "select"}
  BY DEF ReadGraph, ReadGraphOnly, SearchVectors, Take, Pass, Selecting, Retrieved
<1>3. /\ query.items = <<>> /\ query.excluded = {} /\ query.characters = 0 /\ query.tokens = 0
      /\ query.request \in Requests
  BY <1>1, <1>2 DEF ContextInv, Accounted, QueryRecord
<1>4. /\ query'.items = query.items /\ query'.excluded = query.excluded
      /\ query'.characters = query.characters /\ query'.tokens = query.tokens
      /\ query'.request = query.request
  <2>1. CASE ReadGraph
    BY <1>1, <2>1 DEF ReadGraph, QueryRecord
  <2>2. CASE ReadGraphOnly \/ SearchVectors
    <3>1. PICK known, score : Ranks(known, score)
      BY <2>2 DEF ReadGraphOnly, SearchVectors
    <3>. QED  BY <1>1, <3>1 DEF Ranks, QueryRecord
  <2>3. CASE \E m \in Memories : Take(m) \/ Pass(m)
    <3>1. PICK m \in Memories : Take(m) \/ Pass(m)
      BY <2>3
    <3>. QED  BY <1>1, <3>1 DEF Take, Pass, QueryRecord
  <2>4. CASE Retrieved
    BY <1>1, <2>4 DEF Retrieved, QueryRecord
  <2>. QED  BY <2>1, <2>2, <2>3, <2>4
<1>5. /\ query'.pc # "respond"
      /\ query'.pc = "compose" => query'.pending = Elements(query'.retrieved)
  <2>1. CASE ReadGraph
    BY <1>1, <2>1 DEF ReadGraph, QueryRecord
  <2>2. CASE ReadGraphOnly \/ SearchVectors
    <3>1. PICK known, score : Ranks(known, score)
      BY <2>2 DEF ReadGraphOnly, SearchVectors
    <3>. QED  BY <1>1, <3>1 DEF Ranks, QueryRecord
  <2>3. CASE \E m \in Memories : Take(m) \/ Pass(m)
    <3>1. query'.pc = "select"
      BY <1>1, <2>3 DEF Take, Pass, Selecting, QueryRecord
    <3>. QED  BY <3>1
  <2>4. CASE Retrieved
    <3>1. /\ query'.pc \in {"answered", "compose"} /\ query'.retrieved = query.retrieved
          /\ query'.pending = Elements(query.retrieved)
      BY <1>1, <2>4 DEF Retrieved, QueryRecord
    <3>. QED  BY <3>1
  <2>. QED  BY <2>1, <2>2, <2>3, <2>4
<1>. QED  BY <1>3, <1>4, <1>5, EmptyContext

\* What the candidate at hand has before it and after it.
LEMMA AtItem ==
  ASSUME TypeOK, Composition, NEW m \in Memories, Composing(m)
  PROVE  /\ query # Idle /\ query \in QueryRecord /\ ContextInv(query)
         /\ query.pc = "compose" /\ m \in query.pending
         /\ query.items \in Seq(Memories) /\ query.pending \subseteq Memories
         /\ \A n \in query.pending \ {m} : Ranked(query, m, n)
         /\ \A n \in Elements(query.items) : Ranked(query, n, m)
         /\ \A n, p \in Memories : Ranked(query, n, p) => ~Ranked(query, p, n)
<1>1. /\ query # Idle /\ query.pc = "compose" /\ m \in query.pending
      /\ \A n \in query.pending \ {m} : Ranked(query, m, n)
  BY AtPlace DEF Composing, CompositionPrecedes, Ranked
<1>2. query \in QueryRecord /\ ContextInv(query)
  BY <1>1, OfQuery DEF Composition
<1>3. \A n \in Elements(query.items) : Ranked(query, n, m)
  BY <1>1, <1>2 DEF ContextInv, SortedContext
<1>4. \A n, p \in Memories : Ranked(query, n, p) => ~Ranked(query, p, n)
  <2>1. query.score \in [Memories -> Nat]
    BY <1>2 DEF QueryRecord
  <2>. QED  BY <2>1, RankedIsOrder
<1>. QED  BY <1>1, <1>2, <1>3, <1>4 DEF QueryRecord

LEMMA WholeSequence ==
  ASSUME NEW s \in Seq(Memories)
  PROVE  SubSeq(s, 1, Len(s)) = s
OBVIOUS

LEMMA PrefixOfAppend ==
  ASSUME NEW s \in Seq(Memories), NEW m \in Memories, NEW k \in 0 .. Len(s)
  PROVE  SubSeq(Append(s, m), 1, k) = SubSeq(s, 1, k)
OBVIOUS

\* A candidate is left out for the reason the items before it give.
LEMMA ExcludingIsJustified ==
  ASSUME TypeOK, Composition, NEW m \in Memories,
         ExcludeDuplicate(m) \/ ExcludeConflict(m) \/ ExcludeLarge(m)
  PROVE  ContextInv(query')
<1>1. Composing(m)
  BY DEF ExcludeDuplicate, ExcludeConflict, ExcludeLarge
<1>2. /\ query # Idle /\ query \in QueryRecord /\ ContextInv(query)
      /\ query.pc = "compose" /\ m \in query.pending
      /\ query.items \in Seq(Memories) /\ query.pending \subseteq Memories
      /\ \A n \in query.pending \ {m} : Ranked(query, m, n)
      /\ \A n \in Elements(query.items) : Ranked(query, n, m)
  BY <1>1, AtItem
<1>3. PICK reason \in ExclusionReasons :
        Exclude(m, reason) /\ Reason(query, m, reason, query.items)
  <2>1. CASE ExcludeDuplicate(m)
    <3>1. Reason(query, m, "duplicate", query.items)
      BY <2>1 DEF ExcludeDuplicate, Duplicate, Reason
    <3>. QED  BY <2>1, <3>1 DEF ExcludeDuplicate, ExclusionReasons
  <2>2. CASE ExcludeConflict(m)
    <3>1. Reason(query, m, "conflicting_memory", query.items)
      BY <2>2 DEF ExcludeConflict, Conflicting, Reason
    <3>. QED  BY <2>2, <3>1 DEF ExcludeConflict, ExclusionReasons
  <2>3. CASE ExcludeLarge(m)
    <3>1. /\ query.characters = Total(query.items, Characters)
          /\ query.tokens = Total(query.items, Tokens)
      BY <1>2 DEF ContextInv, WithinBudgets
    <3>2. ~Fits(m, Len(query.items), Total(query.items, Characters),
                Total(query.items, Tokens), query.request)
      BY <2>3, <3>1 DEF ExcludeLarge, HasRoom
    <3>3. Reason(query, m, "budget_exceeded", query.items)
      BY <3>2 DEF Reason
    <3>. QED  BY <2>3, <3>3 DEF ExcludeLarge, ExclusionReasons
  <2>. QED  BY <2>1, <2>2, <2>3
<1>4. /\ query'.items = query.items /\ query'.excluded = query.excluded \cup {<<m, reason>>}
      /\ query'.characters = query.characters /\ query'.tokens = query.tokens
      /\ query'.score = query.score /\ query'.request = query.request
      /\ query'.pending = query.pending \ {m} /\ query'.retrieved = query.retrieved
      /\ query'.pc = "compose"
  BY <1>2, <1>3 DEF Exclude, QueryRecord
<1>5. \A n, p : Ranked(query', n, p) <=> Ranked(query, n, p)
  BY <1>4 DEF Ranked
<1>6. \A n, r, s : Reason(query', n, r, s) <=> Reason(query, n, r, s)
  BY <1>4 DEF Reason
<1>7. SortedContext(query')
  BY <1>2, <1>4, <1>5 DEF ContextInv, SortedContext
<1>8. WithinBudgets(query')
  BY <1>2, <1>4 DEF ContextInv, WithinBudgets
<1>9. JustExclusions(query')
  <2>1. JustExclusion(query', m, reason)
    <3>1. Len(query.items) \in 0 .. Len(query.items)
      BY <1>2
    <3>2. \A i \in 1 .. Len(query.items) : Ranked(query, query.items[i], m) /\ i <= Len(query.items)
      BY <1>2 DEF Elements
    <3>3. Reason(query, m, reason, SubSeq(query.items, 1, Len(query.items)))
      BY <1>2, <1>3, WholeSequence
    <3>. QED  BY <1>4, <1>5, <1>6, <3>1, <3>2, <3>3 DEF JustExclusion
  <2>2. \A n, r : JustExclusion(query', n, r) <=> JustExclusion(query, n, r)
    BY <1>4, <1>5, <1>6 DEF JustExclusion
  <2>3. \A e \in query.excluded :
          JustExclusion(query, e[1], e[2]) /\ \A n \in query.pending : Ranked(query, e[1], n)
    BY <1>2 DEF ContextInv, JustExclusions
  <2>4. <<m, reason>>[1] = m /\ <<m, reason>>[2] = reason
    OBVIOUS
  <2>. QED  BY <1>2, <1>4, <1>5, <2>1, <2>2, <2>3, <2>4 DEF JustExclusions
<1>10. Accounted(query')
  <2>1. Elements(query.retrieved)
          = Elements(query.items) \cup {e[1] : e \in query.excluded} \cup query.pending
    BY <1>2 DEF ContextInv, Accounted
  <2>2. {e[1] : e \in query'.excluded} = {e[1] : e \in query.excluded} \cup {m}
    <3>1. <<m, reason>>[1] = m
      OBVIOUS
    <3>. QED  BY <1>4, <3>1
  <2>3. Elements(query'.retrieved)
          = Elements(query'.items) \cup {e[1] : e \in query'.excluded} \cup query'.pending
    BY <1>2, <1>4, <2>1, <2>2
  <2>. QED  BY <1>4, <2>3 DEF Accounted
<1>. QED  BY <1>7, <1>8, <1>9, <1>10 DEF ContextInv

\* The last place of a sequence with one more element.
LEMMA PlacesOfAppend ==
  ASSUME NEW s \in Seq(Memories), NEW m \in Memories
  PROVE  /\ Len(Append(s, m)) = Len(s) + 1 /\ Len(s) \in Nat
         /\ \A i \in 1 .. Len(s) : Append(s, m)[i] = s[i]
         /\ Append(s, m)[Len(s) + 1] = m
         /\ \A i \in 1 .. Len(Append(s, m)) : i \in 1 .. Len(s) \/ i = Len(s) + 1
OBVIOUS

\* An item agrees with the ones before it, has room, and comes after everything
\* a reason was given from.
LEMMA IncludingIsJustified ==
  ASSUME TypeOK, Composition, NEW m \in Memories, Include(m)
  PROVE  ContextInv(query')
<1>1. Composing(m) /\ ~Duplicate(m) /\ ~Conflicting(m) /\ HasRoom(m)
  BY DEF Include
<1>2. /\ query # Idle /\ query \in QueryRecord /\ ContextInv(query)
      /\ query.pc = "compose" /\ m \in query.pending
      /\ query.items \in Seq(Memories) /\ query.pending \subseteq Memories
      /\ \A n \in query.pending \ {m} : Ranked(query, m, n)
      /\ \A n \in Elements(query.items) : Ranked(query, n, m)
      /\ \A n, p \in Memories : Ranked(query, n, p) => ~Ranked(query, p, n)
  BY <1>1, AtItem
<1> DEFINE s == query.items
           t == Append(s, m)
<1>3. /\ query'.items = t /\ query'.excluded = query.excluded
      /\ query'.characters = query.characters + Content[m].characters
      /\ query'.tokens = query.tokens + TokensOf(m)
      /\ query'.score = query.score /\ query'.request = query.request
      /\ query'.pending = query.pending \ {m} /\ query'.retrieved = query.retrieved
      /\ query'.pc = "compose"
  BY <1>2 DEF Include, QueryRecord
<1>4. \A n, p : Ranked(query', n, p) <=> Ranked(query, n, p)
  BY <1>3 DEF Ranked
<1>5. \A n, r, u : Reason(query', n, r, u) <=> Reason(query, n, r, u)
  BY <1>3 DEF Reason
<1>6. /\ Len(t) = Len(s) + 1 /\ Len(s) \in Nat
      /\ \A i \in 1 .. Len(s) : t[i] = s[i]
      /\ t[Len(s) + 1] = m
      /\ \A i \in 1 .. Len(t) : i \in 1 .. Len(s) \/ i = Len(s) + 1
  BY <1>2, PlacesOfAppend
<1>7. Elements(t) = Elements(s) \cup {m}
  BY <1>2, ElementsOfAppend
<1>8. \A k \in 0 .. Len(s) : SubSeq(t, 1, k) = SubSeq(s, 1, k)
  BY <1>2, PrefixOfAppend
<1>9. s \in Seq(Memories)
  BY <1>2
<1>10. \A i \in 1 .. Len(s) : s[i] \in Elements(s) /\ s[i] \in Memories
  BY <1>9 DEF Elements
<1>11. Total(t, Characters) = Total(s, Characters) + Content[m].characters
       /\ Total(t, Tokens) = Total(s, Tokens) + TokensOf(m)
  BY <1>9, TotalOfAppend, SizesAreNatural
<1>. HIDE DEF s, t
<1>12. SortedContext(query')
  <2>1. ASSUME NEW i \in 1 .. Len(t), NEW j \in 1 .. Len(t), i < j
        PROVE  Ranked(query, t[i], t[j]) /\ ~SameFact(t[i], t[j]) /\ ~Conflicts(t[i], t[j])
    <3>1. i \in 1 .. Len(s)
      BY <1>6, <2>1
    <3>2. CASE j = Len(s) + 1
      <4>1. t[i] = s[i] /\ t[j] = m /\ s[i] \in Elements(s) /\ s[i] \in Memories
        BY <1>6, <1>10, <3>1, <3>2
      <4>2. ~SameFact(m, s[i]) /\ ~Conflicts(m, s[i])
        BY <1>1, <4>1 DEF Duplicate, Conflicting, s
      <4>3. ~SameFact(s[i], m) /\ ~Conflicts(s[i], m)
        BY <4>1, <4>2, ConflictsIsSymmetric DEF SameFact
      <4>4. Ranked(query, s[i], m)
        BY <1>2, <4>1 DEF s
      <4>. QED  BY <4>1, <4>3, <4>4
    <3>3. CASE j # Len(s) + 1
      <4>1. j \in 1 .. Len(s) /\ t[i] = s[i] /\ t[j] = s[j]
        BY <1>6, <3>1, <3>3
      <4>. QED  BY <1>2, <2>1, <3>1, <4>1 DEF ContextInv, SortedContext, s
    <3>. QED  BY <3>2, <3>3
  <2>2. \A n \in Elements(t), p \in query'.pending : Ranked(query, n, p)
    BY <1>2, <1>3, <1>7 DEF ContextInv, SortedContext, s
  <2>. QED  BY <1>3, <1>4, <2>1, <2>2 DEF SortedContext
<1>13. WithinBudgets(query')
  <2>1. /\ query.characters = Total(s, Characters) /\ query.tokens = Total(s, Tokens)
    BY <1>2 DEF ContextInv, WithinBudgets, s
  <2>2. /\ Len(s) < query.request.max_items
        /\ query.characters + Content[m].characters <= query.request.max_characters
        /\ query.tokens + TokensOf(m) <= query.request.max_tokens
    BY <1>1 DEF HasRoom, Fits, s
  <2>3. query.request.max_items \in Nat
    BY <1>2, BudgetsAreTyped DEF QueryRecord
  <2>4. Len(t) <= query.request.max_items
    BY <1>6, <2>2, <2>3
  <2>. QED  BY <1>3, <1>11, <2>1, <2>2, <2>4 DEF WithinBudgets
<1>14. JustExclusions(query')
  <2>1. ASSUME NEW e \in query.excluded
        PROVE  /\ JustExclusion(query', e[1], e[2])
               /\ \A n \in query'.pending : Ranked(query', e[1], n)
    <3>1. /\ JustExclusion(query, e[1], e[2])
          /\ \A n \in query.pending : Ranked(query, e[1], n)
      BY <1>2 DEF ContextInv, JustExclusions
    <3>2. e[1] \in Memories
      BY <1>2 DEF QueryRecord
    <3>3. ~Ranked(query, m, e[1])
      BY <1>2, <3>1, <3>2
    <3>4. PICK k \in 0 .. Len(s) :
            /\ \A i \in 1 .. Len(s) : Ranked(query, s[i], e[1]) <=> i <= k
            /\ Reason(query, e[1], e[2], SubSeq(s, 1, k))
      BY <3>1 DEF JustExclusion, s
    <3>5. ASSUME NEW i \in 1 .. Len(t)
          PROVE  Ranked(query, t[i], e[1]) <=> i <= k
      <4>1. CASE i \in 1 .. Len(s)
        BY <1>6, <3>4, <4>1
      <4>2. CASE i = Len(s) + 1
        <5>1. ~(i <= k)
          BY <1>6, <4>2
        <5>. QED  BY <1>6, <3>3, <4>2, <5>1
      <4>. QED  BY <1>6, <4>1, <4>2
    <3>6. k \in 0 .. Len(t) /\ Reason(query, e[1], e[2], SubSeq(t, 1, k))
      <4>1. k \in 0 .. Len(t)
        BY <1>6
      <4>2. SubSeq(t, 1, k) = SubSeq(s, 1, k)
        BY <1>8
      <4>. QED  BY <3>4, <4>1, <4>2
    <3>. QED  BY <1>3, <1>4, <1>5, <3>1, <3>5, <3>6 DEF JustExclusion
  <2>. QED  BY <1>3, <2>1 DEF JustExclusions
<1>15. Accounted(query')
  <2>1. Elements(query.retrieved)
          = Elements(s) \cup {e[1] : e \in query.excluded} \cup query.pending
    BY <1>2 DEF ContextInv, Accounted, s
  <2>2. Elements(query'.retrieved)
          = Elements(t) \cup {e[1] : e \in query'.excluded} \cup query'.pending
    BY <1>2, <1>3, <1>7, <2>1
  <2>. QED  BY <1>3, <2>2 DEF Accounted
<1>. QED  BY <1>12, <1>13, <1>14, <1>15 DEF ContextInv

LEMMA NextKeepsComposition ==
  TypeOK /\ TypeOK' /\ Composition /\ [Next]_vars => Composition'
<1>. SUFFICES ASSUME TypeOK, TypeOK', Composition, [Next]_vars, query' # Idle
              PROVE  ContextInv(query')
  BY DEF Composition
<1>1. ASSUME NEW request \in Requests, NEW allowed \in BOOLEAN,
             AskChat(request, allowed) \/ AskSearch(request, allowed)
      PROVE  ContextInv(query')
  <2>1. PICK pc \in {"read", "compose", "answered"} : query' = Begun(pc, request, allowed)
    BY <1>1 DEF AskChat, AskSearch, Asks
  <2>2. /\ query'.items = <<>> /\ query'.excluded = {} /\ query'.request = request
        /\ query'.characters = 0 /\ query'.tokens = 0
        /\ query'.retrieved = <<>> /\ query'.pending = {} /\ query'.pc = pc
    BY <2>1 DEF Begun
  <2>3. Elements(query'.retrieved) = {}
    BY <2>2 DEF Elements
  <2>. QED  BY <2>2, <2>3, EmptyContext
<1>2. ASSUME NEW m \in Memories, MemoryChanges(m)
      PROVE  ContextInv(query')
  <2>1. query # Idle /\ query \in QueryRecord
    BY <1>2, OfQuery DEF MemoryChanges
  <2>2. /\ query'.items = query.items /\ query'.excluded = query.excluded
        /\ query'.characters = query.characters /\ query'.tokens = query.tokens
        /\ query'.score = query.score /\ query'.request = query.request
        /\ query'.pending = query.pending /\ query'.retrieved = query.retrieved
        /\ query'.pc = query.pc
    BY <1>2, <2>1 DEF MemoryChanges, QueryRecord
  <2>. QED  BY <2>1, <2>2, SameContext
<1>3. CASE Step
  <2>1. query # Idle
    BY <1>3, AtPlace DEF Step, ReadGraph, ReadGraphOnly, SearchVectors, Take, Pass, Selecting,
       Retrieved, ExcludeDuplicate, ExcludeConflict, ExcludeLarge, Include, Composing, Composed,
       Respond
  <2>2. CASE Composed \/ Respond
    <3>1. query \in QueryRecord
      BY <2>1, OfQuery
    <3>2. /\ query'.items = query.items /\ query'.excluded = query.excluded
          /\ query'.characters = query.characters /\ query'.tokens = query.tokens
          /\ query'.score = query.score /\ query'.request = query.request
          /\ query'.pending = query.pending /\ query'.retrieved = query.retrieved
          /\ \/ query'.pc = "answered"
             \/ query.pc = "compose" /\ query'.pc = "respond" /\ query.pending = {}
      BY ZenonT(40), <2>2, <3>1 DEF Composed, Respond, QueryRecord
    <3>. QED  BY <2>1, <3>2, SameContext
  <2>. QED  BY <1>3, <2>1, <2>2, SelectingKeepsContext, ExcludingIsJustified,
            IncludingIsJustified DEF Step
<1>4. CASE RetrievalFails \/ GeneratorFails
  BY <1>4 DEF RetrievalFails, GeneratorFails, Fails
<1>5. CASE UNCHANGED vars
  BY <1>5 DEF vars, Composition
<1>. QED  BY <1>1, <1>2, <1>3, <1>4, <1>5 DEF Next

\* The context is in the order of rank, says nothing twice and nothing that
\* contradicts another item, stays within the budgets by the true sizes of its
\* items, and every memory retrieved is in it or was left out for a reason that
\* is true of the items before it (compose).
THEOREM ContextsAreJustified == Spec => []ContextIsJustified
<1>1. Init => Composition
  BY DEF Init, Composition
<1>2. TypeOK /\ Composition => ContextIsJustified
  <2>. SUFFICES ASSUME TypeOK, Composition, query # Idle PROVE ContextIsJustified
    BY DEF ContextIsJustified
  <2>1. ContextInv(query)
    BY DEF Composition
  <2>2. query.items \in Seq(Memories) /\ Len(query.items) \in Nat
    BY OfQuery DEF QueryRecord
  <2>3. \A m, n : CompositionPrecedes(m, n) <=> Ranked(query, m, n)
    BY DEF CompositionPrecedes, Ranked
  <2>4. ASSUME NEW e \in query.excluded
        PROVE  ReasonHolds(e[1], e[2])
    <3>1. PICK k \in 0 .. Len(query.items) :
            /\ \A i \in 1 .. Len(query.items) : Ranked(query, query.items[i], e[1]) <=> i <= k
            /\ Reason(query, e[1], e[2], SubSeq(query.items, 1, k))
      BY <2>1 DEF ContextInv, JustExclusions, JustExclusion
    <3>2. Len(SubSeq(query.items, 1, k)) = k
      BY <2>2
    <3>. QED  BY <2>3, <3>1, <3>2 DEF ReasonHolds, Reason
  <2>. QED  BY <2>1, <2>3, <2>4 DEF ContextInv, SortedContext, WithinBudgets, Accounted,
            ContextIsJustified
<1>. QED  BY <1>1, <1>2, TypeCorrect, NextKeepsComposition, PTL DEF Spec

------------------------------------------------------------------------------
(* Why a query ends.  EveryQueryEnds itself needs fairness and stays with TLC;  *)
(* proved is what it rests on: every step of a query brings it nearer to its    *)
(* end, no other step takes it back, and until the end there is a step to take. *)

\* How many steps a query has left at most.
Remaining(q) ==
  CASE q.pc = "read"    -> 2 * Cardinality(Memories) + 5
    [] q.pc = "search"  -> 2 * Cardinality(Memories) + 4
    [] q.pc = "select"  -> Cardinality(Memories) + Cardinality(q.left) + 3
    [] q.pc = "compose" -> Cardinality(q.pending) + 2
    [] q.pc = "respond" -> 1
    [] OTHER            -> 0

UnderWay == query.pc \notin {"idle", "answered"}

\* A step of the query counts down, and nothing counts up until it has ended.
CountsDown ==
  /\ Remaining(query) \in Nat /\ Remaining(query') \in Nat
  /\ Step => Remaining(query') < Remaining(query)
  /\ UnderWay => Remaining(query') <= Remaining(query)

\* The guards of Step: the index may always report nothing; the loops are at a
\* candidate, or at their end.
HasStep ==
  \/ query.pc \in {"read", "respond"}
  \/ query.pc = "search" /\ Findings(query.request) # {}
  \/ query.pc = "select" /\ (query.left = {} \/ Len(query.retrieved) >= query.request.top_k)
  \/ \E m \in Memories : Selecting(m)
  \/ query.pc = "compose" /\ query.pending = {}
  \/ \E m \in Memories : Composing(m)

LEMMA CountsOfMemories ==
  /\ Cardinality(Memories) \in Nat
  /\ \A S \in SUBSET Memories :
       /\ IsFiniteSet(S) /\ Cardinality(S) \in Nat /\ Cardinality(S) <= Cardinality(Memories)
       /\ \A m \in S : Cardinality(S \ {m}) = Cardinality(S) - 1
<1>1. IsFiniteSet(Memories)
  BY MemoriesAssumption
<1>2. ASSUME NEW S \in SUBSET Memories
      PROVE  IsFiniteSet(S) /\ Cardinality(S) \in Nat /\ Cardinality(S) <= Cardinality(Memories)
  BY <1>1, FS_Subset, FS_CardinalityType
<1>3. ASSUME NEW S \in SUBSET Memories, NEW m \in S
      PROVE  Cardinality(S \ {m}) = Cardinality(S) - 1
  BY <1>2, <1>3, FS_RemoveElement
<1>. QED  BY <1>1, <1>2, <1>3, FS_CardinalityType

\* A set of candidates that are in a strict total order has a first one: the one
\* that the fewest come before.
LEMMA FirstInOrder ==
  ASSUME NEW key \in [Memories -> Keys], \A m, n \in Memories : m # n => key[m][4] # key[n][4],
         NEW S \in SUBSET Memories, S # {}
  PROVE  \E m \in S : \A n \in S \ {m} : Precedes(key[m], key[n])
<1> DEFINE Earlier(m) == {n \in S : Precedes(key[n], key[m])}
<1>1. \A m \in Memories : key[m] \in Keys
  OBVIOUS
<1>2. \A m, n \in Memories : m # n => Precedes(key[m], key[n]) \/ Precedes(key[n], key[m])
  <2>. SUFFICES ASSUME NEW m \in Memories, NEW n \in Memories, m # n
                PROVE  Precedes(key[m], key[n]) \/ Precedes(key[n], key[m])
    OBVIOUS
  <2>1. /\ key[m][1] \in Int /\ key[m][2] \in Int /\ key[m][3] \in Int /\ key[m][4] \in Int
        /\ key[n][1] \in Int /\ key[n][2] \in Int /\ key[n][3] \in Int /\ key[n][4] \in Int
    BY <1>1 DEF Keys
  <2>2. key[m][4] # key[n][4]
    OBVIOUS
  <2>. QED  BY <1>1, <2>1, <2>2, PrecedesByPlace
<1>3. \A m \in S : Earlier(m) \in SUBSET Memories /\ Cardinality(Earlier(m)) \in Nat
  BY CountsOfMemories
<1>4. \E m \in S : \A n \in S : Cardinality(Earlier(m)) <= Cardinality(Earlier(n))
  <2> DEFINE P == {k \in Nat : \A n \in S : k <= Cardinality(Earlier(n))}
  <2>. HIDE DEF Earlier
  <2>1. 0 \in P
    BY <1>3
  <2>2. ASSUME \A m \in S : \E n \in S : ~(Cardinality(Earlier(m)) <= Cardinality(Earlier(n)))
        PROVE  FALSE
    <3>1. ASSUME NEW k \in Nat, k \in P
          PROVE  k + 1 \in P
      <4>. SUFFICES ASSUME NEW m \in S PROVE k + 1 <= Cardinality(Earlier(m))
        OBVIOUS
      <4>1. PICK n \in S : ~(Cardinality(Earlier(m)) <= Cardinality(Earlier(n)))
        BY <2>2
      <4>2. k <= Cardinality(Earlier(n))
        BY <3>1
      <4>. QED  BY <1>3, <4>1, <4>2
    <3>. HIDE DEF P
    <3>2. \A k \in Nat : k \in P
      BY <2>1, <3>1, CountingUp
    <3>3. PICK m \in S : TRUE
      OBVIOUS
    <3>4. Cardinality(Earlier(m)) + 1 \in P
      BY <1>3, <3>2, <3>3
    <3>. QED  BY <1>3, <3>3, <3>4 DEF P
  <2>. QED  BY <2>2
<1>5. PICK m \in S : \A n \in S : Cardinality(Earlier(m)) <= Cardinality(Earlier(n))
  BY <1>4
<1>6. ASSUME NEW n \in S \ {m}
      PROVE  Precedes(key[m], key[n])
  <2>1. SUFFICES ASSUME Precedes(key[n], key[m]) PROVE FALSE
    BY <1>2
  <2>2. Earlier(n) \subseteq Earlier(m)
    <3>1. ASSUME NEW p \in S, Precedes(key[p], key[n])
          PROVE  Precedes(key[p], key[m])
      <4>1. key[p] \in Keys /\ key[n] \in Keys /\ key[m] \in Keys
        BY <1>1
      <4>. QED  BY <2>1, <3>1, <4>1, PrecedesIsOrder
    <3>. QED  BY <3>1
  <2>3. n \in Earlier(m) /\ n \notin Earlier(n)
    <3>1. ~Precedes(key[n], key[n])
      BY <1>1, PrecedesIsOrder
    <3>. QED  BY <2>1, <3>1
  <2>4. IsFiniteSet(Earlier(m))
    BY <1>3, CountsOfMemories
  <2>. HIDE DEF Earlier
  <2>5. /\ Cardinality(Earlier(n)) <= Cardinality(Earlier(m))
        /\ Cardinality(Earlier(m)) # Cardinality(Earlier(n))
    BY <2>2, <2>3, <2>4, FS_Subset
  <2>. QED  BY <1>3, <1>5, <2>5
<1>. QED  BY <1>5, <1>6

LEMMA RemainingIsNatural ==
  ASSUME NEW q, q = Idle \/ q \in QueryRecord
  PROVE  Remaining(q) \in Nat
<1>1. CASE q = Idle
  BY <1>1 DEF Idle, Remaining
<1>2. CASE q \in QueryRecord
  <2>1. q.left \in SUBSET Memories /\ q.pending \in SUBSET Memories
    BY <1>2 DEF QueryRecord
  <2>2. /\ Cardinality(Memories) \in Nat
        /\ Cardinality(q.left) \in Nat /\ Cardinality(q.pending) \in Nat
    BY <2>1, CountsOfMemories
  <2>. QED  BY <2>2 DEF Remaining
<1>. QED  BY <1>1, <1>2

\* Reading and searching lead on to the selection, which then has every memory
\* before it at most.
LEMMA ReadingCounts ==
  ASSUME TypeOK, TypeOK', ReadGraph \/ ReadGraphOnly \/ SearchVectors
  PROVE  Remaining(query') < Remaining(query)
<1>1. query # Idle /\ query.pc \in {"read", "search"}
  BY AtPlace DEF ReadGraph, ReadGraphOnly, SearchVectors
<1>2. /\ query' # Idle
      /\ query'.pc = "select" \/ (query.pc = "read" /\ query'.pc = "search")
  <2>1. query \in QueryRecord
    BY <1>1, OfQuery
  <2>2. query'.pc = "select" \/ (query.pc = "read" /\ query'.pc = "search")
    BY <2>1 DEF ReadGraph, ReadGraphOnly, SearchVectors, Ranks, QueryRecord
  <2>. QED  BY <2>2 DEF Idle
<1>3. query' \in QueryRecord
  BY <1>2 DEF TypeOK
<1>4. /\ Cardinality(Memories) \in Nat /\ Cardinality(query'.left) \in Nat
      /\ Cardinality(query'.left) <= Cardinality(Memories)
  BY <1>3, CountsOfMemories DEF QueryRecord
<1>. QED  BY <1>1, <1>2, <1>4 DEF Remaining

LEMMA SelectingCounts ==
  ASSUME TypeOK, NEW m \in Memories, Take(m) \/ Pass(m)
  PROVE  Remaining(query') < Remaining(query)
<1>1. query.pc = "select" /\ m \in query.left
  BY DEF Take, Pass, Selecting
<1>2. query \in QueryRecord
  BY <1>1, AtPlace, OfQuery
<1>3. query'.pc = "select" /\ query'.left = query.left \ {m}
  BY <1>1, <1>2 DEF Take, Pass, QueryRecord
<1>4. /\ Cardinality(query.left) \in Nat /\ Cardinality(Memories) \in Nat
      /\ Cardinality(query.left \ {m}) = Cardinality(query.left) - 1
  BY <1>1, <1>2, CountsOfMemories DEF QueryRecord
<1>. QED  BY <1>1, <1>3, <1>4 DEF Remaining

LEMMA RetrievedCounts ==
  ASSUME TypeOK, Retrieved
  PROVE  Remaining(query') < Remaining(query)
<1>1. query.pc = "select"
  BY DEF Retrieved
<1>2. query # Idle /\ query \in QueryRecord
  BY <1>1, AtPlace, OfQuery
<1>3. query'.pc \in {"answered", "compose"} /\ query'.pending = Elements(query.retrieved)
  BY <1>2 DEF Retrieved, QueryRecord
<1>4. query'.pending \in SUBSET Memories /\ query.left \in SUBSET Memories
  BY <1>2, <1>3, RetrievedIsOfMemories DEF QueryRecord
<1>5. /\ Cardinality(Memories) \in Nat /\ Cardinality(query.left) \in Nat
      /\ Cardinality(query'.pending) \in Nat
      /\ Cardinality(query'.pending) <= Cardinality(Memories)
  BY <1>4, CountsOfMemories
<1>. QED  BY <1>1, <1>3, <1>5 DEF Remaining

LEMMA ComposingCounts ==
  ASSUME TypeOK, NEW m \in Memories,
         ExcludeDuplicate(m) \/ ExcludeConflict(m) \/ ExcludeLarge(m) \/ Include(m)
  PROVE  Remaining(query') < Remaining(query)
<1>1. query.pc = "compose" /\ m \in query.pending
  BY DEF ExcludeDuplicate, ExcludeConflict, ExcludeLarge, Include, Composing
<1>2. query \in QueryRecord
  BY <1>1, AtPlace, OfQuery
<1>3. query'.pc = "compose" /\ query'.pending = query.pending \ {m}
  BY <1>1, <1>2 DEF ExcludeDuplicate, ExcludeConflict, ExcludeLarge, Include, Exclude, QueryRecord
<1>4. /\ Cardinality(query.pending) \in Nat
      /\ Cardinality(query.pending \ {m}) = Cardinality(query.pending) - 1
  BY <1>1, <1>2, CountsOfMemories DEF QueryRecord
<1>. QED  BY <1>1, <1>3, <1>4 DEF Remaining

LEMMA EndingCounts ==
  ASSUME TypeOK, Composed \/ Respond
  PROVE  Remaining(query') < Remaining(query)
<1>1. query # Idle /\ query \in QueryRecord
  BY AtPlace, OfQuery DEF Composed, Respond
<1>2. \/ query.pc = "compose" /\ query'.pc = "respond"
      \/ query.pc = "respond" /\ query'.pc = "answered"
  BY <1>1 DEF Composed, Respond, QueryRecord
<1>3. Cardinality(query.pending) \in Nat
  BY <1>1, CountsOfMemories DEF QueryRecord
<1>. QED  BY <1>2, <1>3 DEF Remaining

LEMMA NextCountsDown == TypeOK /\ TypeOK' /\ [Next]_vars => CountsDown
<1>. SUFFICES ASSUME TypeOK, TypeOK', [Next]_vars PROVE CountsDown
  OBVIOUS
<1>1. Remaining(query) \in Nat /\ Remaining(query') \in Nat
  BY RemainingIsNatural DEF TypeOK
<1>2. Step => Remaining(query') < Remaining(query)
  BY ReadingCounts, SelectingCounts, RetrievedCounts, ComposingCounts, EndingCounts DEF Step
<1>3. ASSUME UnderWay
      PROVE  Remaining(query') <= Remaining(query)
  <2>1. ASSUME NEW request \in Requests, NEW allowed \in BOOLEAN,
               AskChat(request, allowed) \/ AskSearch(request, allowed)
        PROVE  FALSE
    BY <1>3, <2>1 DEF AskChat, AskSearch, Asks, UnderWay
  <2>2. ASSUME NEW m \in Memories, MemoryChanges(m)
        PROVE  Remaining(query') = Remaining(query)
    <3>1. query \in QueryRecord
      BY <2>2, OfQuery DEF MemoryChanges
    <3>2. query'.pc = query.pc /\ query'.left = query.left /\ query'.pending = query.pending
      BY <2>2, <3>1 DEF MemoryChanges, QueryRecord
    <3>. QED  BY <3>2 DEF Remaining
  <2>3. CASE RetrievalFails \/ GeneratorFails
    <3>1. Remaining(query') = 0
      BY <2>3 DEF RetrievalFails, GeneratorFails, Fails, Remaining, Idle
    <3>. QED  BY <1>1, <3>1
  <2>4. CASE UNCHANGED vars
    BY <1>1, <2>4 DEF vars
  <2>. QED  BY <1>1, <1>2, <2>1, <2>2, <2>3, <2>4 DEF Next
<1>. QED  BY <1>1, <1>2, <1>3 DEF CountsDown

\* Neither loop is ever between candidates: what is left has a first one.
LEMMA AlwaysHasStep == TypeOK /\ UnderWay => HasStep
<1>. SUFFICES ASSUME TypeOK, UnderWay PROVE HasStep
  OBVIOUS
<1>1. query # Idle /\ query \in QueryRecord
  BY AtPlace, OfQuery DEF UnderWay
<1>2. /\ query.pc \in {"read", "search", "select", "compose", "respond"}
      /\ query.score \in [Memories -> Nat] /\ query.request \in Requests
      /\ query.left \in SUBSET Memories /\ query.pending \in SUBSET Memories
      /\ query.retrieved \in Seq(Memories)
  BY <1>1 DEF QueryRecord, UnderWay
<1>3. CASE query.pc = "search"
  <2>1. Cardinality({}) <= query.request.candidate_limit
    <3>1. query.request.candidate_limit \in 1 .. 200
      BY <1>2, RequestsAssumption DEF IsRetrievalRequest
    <3>. QED  BY <3>1, FS_EmptySet
  <2>2. [m \in {} |-> 0] \in [{} -> VectorScores]
    OBVIOUS
  <2>3. [m \in {} |-> 0] \in Findings(query.request)
    BY <2>1, <2>2 DEF Findings
  <2>. QED  BY <1>3, <2>3 DEF HasStep
<1>4. ASSUME query.pc = "select", query.left # {}, ~(Len(query.retrieved) >= query.request.top_k)
      PROVE  \E m \in Memories : Selecting(m)
  <2> DEFINE key == [m \in Memories |-> RetrievalKey(query.score, m)]
  <2>1. key \in [Memories -> Keys]
    BY <1>2, KeysOfMemories
  <2>2. \A m, n \in Memories : m # n => key[m][4] # key[n][4]
    BY DEF RetrievalKey
  <2>3. \A m \in Memories : key[m] = RetrievalKey(query.score, m)
    OBVIOUS
  <2>. HIDE DEF key
  <2>4. PICK m \in query.left : \A n \in query.left \ {m} : Precedes(key[m], key[n])
    BY <1>2, <1>4, <2>1, <2>2, FirstInOrder
  <2>5. m \in Memories /\ \A n \in query.left \ {m} : RetrievalPrecedes(m, n)
    BY <1>2, <2>3, <2>4 DEF RetrievalPrecedes
  <2>6. Len(query.retrieved) < query.request.top_k
    <3>1. query.request.top_k \in 1 .. 50
      BY <1>2, RequestsAssumption DEF IsRetrievalRequest
    <3>2. Len(query.retrieved) \in Nat
      BY <1>2
    <3>3. query.request.top_k \in Int
      BY <3>1
    <3>. QED  BY <1>4, <3>2, <3>3
  <2>. QED  BY <1>4, <2>4, <2>5, <2>6 DEF Selecting
<1>5. ASSUME query.pc = "compose", query.pending # {}
      PROVE  \E m \in Memories : Composing(m)
  <2> DEFINE key == [m \in Memories |-> CompositionKey(query.score, m)]
  <2>1. key \in [Memories -> Keys]
    BY <1>2, CompositionKeysOfMemories
  <2>2. \A m, n \in Memories : m # n => key[m][4] # key[n][4]
    BY DEF CompositionKey
  <2>3. \A m \in Memories : key[m] = CompositionKey(query.score, m)
    OBVIOUS
  <2>. HIDE DEF key
  <2>4. PICK m \in query.pending : \A n \in query.pending \ {m} : Precedes(key[m], key[n])
    BY <1>2, <1>5, <2>1, <2>2, FirstInOrder
  <2>5. m \in Memories /\ \A n \in query.pending \ {m} : CompositionPrecedes(m, n)
    BY <1>2, <2>3, <2>4 DEF CompositionPrecedes
  <2>. QED  BY <1>5, <2>4, <2>5 DEF Composing
<1>. QED  BY <1>2, <1>3, <1>4, <1>5 DEF HasStep

\* Every step of a query counts down a natural number that nothing else counts
\* up, not even a memory that changes under it (process_query, retrieve).
THEOREM StepsAreBounded == Spec => [][CountsDown]_vars
<1>1. TypeOK /\ TypeOK' /\ [Next]_vars => [CountsDown]_vars
  BY NextCountsDown
<1>. QED  BY <1>1, TypeCorrect, PTL DEF Spec

\* A query that is under way can always go on: the selection and the composition
\* have a next candidate or are at their end (_apply_diversity_limit, compose).
THEOREM QueriesAreNeverStuck == Spec => [](UnderWay => HasStep)
BY TypeCorrect, AlwaysHasStep, PTL
==============================================================================
