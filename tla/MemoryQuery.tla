------------------------------ MODULE MemoryQuery ------------------------------
(* MemoryQueryOrchestrator: process_query and retrieve_memory, from the consent *)
(* of the user over retrieval and the composition of a context to the response. *)
(* A query shares nothing with other queries, so one is followed at a time;     *)
(* what it reads is changed by other requests while it runs.                    *)
EXTENDS ContextComposition, Sequences

CONSTANTS
  Requests  \* the requests made, a set of records

IsResponseRequest(r) ==
  /\ r.max_response_characters \in 100 .. 100000
  /\ r.include_memory_references \in BOOLEAN

ASSUME RequestsAssumption ==
  \A r \in Requests :
    /\ r.kind \in {"query", "search"}
    /\ IsRetrievalRequest(r) /\ IsContextRequest(r) /\ IsResponseRequest(r)

VARIABLES
  open,   \* the memories the graph shows as active and retrievable
  query   \* the query under way, and what it has made so far

vars == <<open, query>>

OfSubject(request) == {m \in Memories : Content[m].subject = request.subject}
Elements(s) == {s[i] : i \in 1 .. Len(s)}
Types(s) == {Content[s[i]].memory_type : i \in 1 .. Len(s)}

Idle == [pc |-> "idle"]

Begun(pc, request, allowed) ==
  [ pc         |-> pc,
    request    |-> request,
    allowed    |-> allowed,
    seen       |-> open,     \* history: memories that were open while it ran
    known      |-> {},       \* memory_map
    score      |-> [m \in Memories |-> 0],  \* final scores, 0 without one
    left       |-> {},       \* ranked, from the current candidate on
    retrieved  |-> <<>>,
    pending    |-> {},       \* ordered_candidates, from the current one on
    items      |-> <<>>,
    excluded   |-> {},       \* exclusions with their reasons
    characters |-> 0,
    tokens     |-> 0,
    response   |-> {} ]

QueryRecord ==
  [ pc         : {"read", "search", "select", "compose", "respond", "answered"},
    request    : Requests,
    allowed    : BOOLEAN,
    seen       : SUBSET Memories,
    known      : SUBSET Memories,
    score      : [Memories -> Nat],
    left       : SUBSET Memories,
    retrieved  : Seq(Memories),
    pending    : SUBSET Memories,
    items      : Seq(Memories),
    excluded   : SUBSET (Memories \X ExclusionReasons),
    characters : Nat,
    tokens     : Nat,
    response   : SUBSET [grounded : BOOLEAN, references : Seq(Memories), cut : BOOLEAN] ]

TypeOK ==
  /\ open \subseteq Memories
  /\ query = Idle \/ query \in QueryRecord

Init ==
  /\ open \in SUBSET Memories
  /\ query = Idle

------------------------------------------------------------------------------
\* Other requests write, close and delete memories meanwhile.
MemoryChanges(m) ==
  /\ query # Idle
  /\ open' = IF m \in open THEN open \ {m} ELSE open \cup {m}
  /\ query' = [query EXCEPT !.seen = @ \cup {m}]

Asks(request, allowed, pc) ==
  /\ query.pc \in {"idle", "answered"}
  /\ query' = Begun(pc, request, allowed)
  /\ UNCHANGED open

\* A question, whose answer goes on without memories when the consent, which is
\* read once, does not allow them: chat and process_query.
AskChat(request, allowed) ==
  /\ request.kind = "query"
  /\ Asks(request, allowed, IF allowed THEN "read" ELSE "compose")

\* A search, which then is over: search_memory and retrieve_memory.
AskSearch(request, allowed) ==
  /\ request.kind = "search"
  /\ Asks(request, allowed, IF allowed THEN "read" ELSE "answered")

\* An exception ends the query.
Fails ==
  /\ query' = Idle
  /\ UNCHANGED open

------------------------------------------------------------------------------
\* RetrievalService.retrieve.

Ranks(known, score) ==
  query' = [query EXCEPT !.pc = "select", !.known = known, !.score = score,
              !.left = {m \in known : ReachesMinimum(score[m], query.request)}]

\* The memories are read, filtered and cut.
ReadGraph ==
  /\ query.pc = "read"
  /\ query.request.vector_weight > 0
  /\ query' = [query EXCEPT !.pc = "search",
                            !.known = Cut(Eligible(open, query.request), query.request)]

\* Without a weight for vectors none are searched.
ReadGraphOnly ==
  /\ query.pc = "read"
  /\ query.request.vector_weight = 0
  /\ LET known == Cut(Eligible(open, query.request), query.request) IN
       Ranks(known, Scored(known, <<>>, query.request))

\* The similarities the index reports: of any memories of the user, also closed
\* ones and ones the graph does not have, as many as candidates are wanted.
Findings(request) ==
  UNION {[found -> VectorScores] :
           found \in {S \in SUBSET OfSubject(request) : Cardinality(S) <= request.candidate_limit}}

\* Mutation of SearchVectors: what the index finds is ranked unchecked.
SearchUnchecked ==
  /\ query.pc = "search"
  /\ \E vector \in Findings(query.request) :
       LET known == query.known \cup DOMAIN vector IN
       Ranks(known, Scored(known, vector, query.request))

\* Only memories the graph was seen to have are candidates.
SearchVectors ==
  /\ query.pc = "search"
  /\ \E vector \in Findings(query.request) :
       Ranks(query.known, Scored(query.known, vector, query.request))

\* The graph cannot be read, or the vector index cannot be searched.
RetrievalFails == query.pc \in {"read", "search"} /\ Fails

RetrievalPrecedes(m, n) == Precedes(RetrievalKey(query.score, m), RetrievalKey(query.score, n))

\* Mutation of Diverse: half the places is half of those taken so far.
DiverseSoFar(m) ==
  \/ Content[m].memory_type \notin Types(query.retrieved)
  \/ Len(query.retrieved) < Half(Len(query.retrieved))

\* _apply_diversity_limit takes a candidate of a new type always, and one of a
\* type it has until half the places are taken.
Diverse(m) ==
  \/ Content[m].memory_type \notin Types(query.retrieved)
  \/ Len(query.retrieved) < Half(query.request.top_k)

\* The loop over the ranked candidates is at m.
Selecting(m) ==
  /\ query.pc = "select"
  /\ Len(query.retrieved) < query.request.top_k
  /\ m \in query.left /\ \A n \in query.left \ {m} : RetrievalPrecedes(m, n)

Take(m) ==
  /\ Selecting(m) /\ Diverse(m)
  /\ query' = [query EXCEPT !.left = @ \ {m}, !.retrieved = Append(@, m)]

\* Mutation of Pass: the loop stays at the candidate it passes over.
PassInPlace(m) ==
  /\ Selecting(m) /\ ~Diverse(m)
  /\ UNCHANGED query

Pass(m) ==
  /\ Selecting(m) /\ ~Diverse(m)
  /\ query' = [query EXCEPT !.left = @ \ {m}]

Retrieved ==
  /\ query.pc = "select"
  /\ query.left = {} \/ Len(query.retrieved) >= query.request.top_k
  /\ query' = [query EXCEPT
                 !.pc = IF query.request.kind = "search" THEN "answered" ELSE "compose",
                 !.pending = Elements(query.retrieved)]

------------------------------------------------------------------------------
\* RuleBasedContextComposer.compose.

CompositionPrecedes(m, n) ==
  Precedes(CompositionKey(query.score, m), CompositionKey(query.score, n))

Duplicate(m) == \E n \in Elements(query.items) : SameFact(m, n)
Conflicting(m) == \E n \in Elements(query.items) : Conflicts(m, n)
HasRoom(m) == Fits(m, Len(query.items), query.characters, query.tokens, query.request)

\* The loop over the ordered candidates is at m.
Composing(m) ==
  /\ query.pc = "compose"
  /\ m \in query.pending /\ \A n \in query.pending \ {m} : CompositionPrecedes(m, n)

Exclude(m, reason) ==
  query' = [query EXCEPT !.pending = @ \ {m}, !.excluded = @ \cup {<<m, reason>>}]

ExcludeDuplicate(m) ==
  Composing(m) /\ Duplicate(m) /\ Exclude(m, "duplicate")

ExcludeConflict(m) ==
  Composing(m) /\ ~Duplicate(m) /\ Conflicting(m) /\ Exclude(m, "conflicting_memory")

\* Mutation of ExcludeLarge: the first candidate without room ends the loop.
ExcludeRest(m) ==
  /\ Composing(m) /\ ~Duplicate(m) /\ ~Conflicting(m) /\ ~HasRoom(m)
  /\ query' = [query EXCEPT !.pending = {},
                 !.excluded = @ \cup {<<n, "budget_exceeded">> : n \in query.pending}]

\* A candidate that does not fit is left out, a smaller one after it may fit.
ExcludeLarge(m) ==
  Composing(m) /\ ~Duplicate(m) /\ ~Conflicting(m) /\ ~HasRoom(m)
    /\ Exclude(m, "budget_exceeded")

\* Mutation of Include: the characters are counted down.
IncludeDown(m) ==
  /\ Composing(m) /\ ~Duplicate(m) /\ ~Conflicting(m) /\ HasRoom(m)
  /\ query' = [query EXCEPT !.pending = @ \ {m}, !.items = Append(@, m),
                 !.characters = @ - Content[m].characters, !.tokens = @ + TokensOf(m)]

Include(m) ==
  /\ Composing(m) /\ ~Duplicate(m) /\ ~Conflicting(m) /\ HasRoom(m)
  /\ query' = [query EXCEPT !.pending = @ \ {m}, !.items = Append(@, m),
                 !.characters = @ + Content[m].characters, !.tokens = @ + TokensOf(m)]

Composed ==
  /\ query.pc = "compose" /\ query.pending = {}
  /\ query' = [query EXCEPT !.pc = "respond"]

------------------------------------------------------------------------------
\* ResponseGenerationService.generate.

\* "Based on what I remember: " and the contents, with a space between two.
TextLength == 26 + query.characters + Len(query.items) - 1

Response ==
  [ grounded   |-> query.items # <<>>,
    references |-> IF query.request.include_memory_references THEN query.items ELSE <<>>,
    cut        |-> query.items # <<>> /\ TextLength > query.request.max_response_characters ]

Respond ==
  /\ query.pc = "respond"
  /\ query' = [query EXCEPT !.pc = "answered", !.response = {Response}]

\* A language model that is asked about memories can fail, return nothing or
\* something unsafe.
GeneratorFails == query.pc = "respond" /\ query.items # <<>> /\ Fails

\* Nothing a query does changes the memories.
Step ==
  /\ UNCHANGED open
  /\ \/ ReadGraph \/ ReadGraphOnly \/ SearchVectors
     \/ \E m \in Memories : Take(m) \/ Pass(m)
     \/ Retrieved
     \/ \E m \in Memories :
          ExcludeDuplicate(m) \/ ExcludeConflict(m) \/ ExcludeLarge(m) \/ Include(m)
     \/ Composed \/ Respond

Next ==
  \/ \E request \in Requests, allowed \in BOOLEAN :
       AskChat(request, allowed) \/ AskSearch(request, allowed)
  \/ \E m \in Memories : MemoryChanges(m)
  \/ Step \/ RetrievalFails \/ GeneratorFails

Spec == Init /\ [][Next]_vars

\* A query is code that runs without waiting for anybody: once begun it goes on.
FairSpec == Spec /\ WF_vars(Step)

------------------------------------------------------------------------------
\* The memories retrieved that rank before m.
Above(m) == {n \in Elements(query.retrieved) : RetrievalPrecedes(n, m)}

\* What retrieval returns is sorted, and what it leaves out it leaves out for a
\* reason: a score below the minimum, no place left, or better memories that
\* represent its type and take half the places (retrieve, _apply_diversity_limit).
RetrievalIsJustified ==
  query # Idle =>
    LET r == query.retrieved IN
    /\ Len(r) <= query.request.top_k
    /\ \A i, j \in 1 .. Len(r) : i < j => RetrievalPrecedes(r[i], r[j])
    /\ \A m \in query.left, n \in Elements(r) : RetrievalPrecedes(n, m)
    /\ query.pc \notin {"read", "search"} =>
         \A m \in query.known \ (Elements(r) \cup query.left) :
           ReachesMinimum(query.score[m], query.request) =>
             /\ Cardinality(Above(m)) >= Half(query.request.top_k)
             /\ \E n \in Above(m) : Content[n].memory_type = Content[m].memory_type
    /\ query.pc \notin {"read", "search", "select"} /\ query.left # {} =>
         Len(r) = query.request.top_k

\* The sizes of what the sequence s holds, added up.
Total(s, size) ==
  LET sum[i \in 0 .. Len(s)] == IF i = 0 THEN 0 ELSE sum[i - 1] + size[s[i]]
  IN sum[Len(s)]
Characters == [m \in Memories |-> Content[m].characters]
Tokens == [m \in Memories |-> TokensOf(m)]

\* The reason given for leaving m out is true of the items that rank before it,
\* which are the first ones.
ReasonHolds(m, reason) ==
  \E k \in 0 .. Len(query.items) :
    LET before == SubSeq(query.items, 1, k) IN
    /\ \A i \in 1 .. Len(query.items) : CompositionPrecedes(query.items[i], m) <=> i <= k
    /\ CASE reason = "duplicate" -> \E n \in Elements(before) : SameFact(m, n)
         [] reason = "conflicting_memory" -> \E n \in Elements(before) : Conflicts(m, n)
         [] OTHER -> ~Fits(m, k, Total(before, Characters), Total(before, Tokens),
                           query.request)

\* The context is in the order of rank, contains no fact twice and no two
\* preferences that contradict each other, stays within the three budgets by
\* the true sizes of its items, loses no candidate, and gives a true reason for
\* each one left out (compose).
ContextIsJustified ==
  query # Idle =>
    LET c == query.items IN
    /\ \A i, j \in 1 .. Len(c) : i < j =>
         /\ CompositionPrecedes(c[i], c[j])
         /\ ~SameFact(c[i], c[j]) /\ ~Conflicts(c[i], c[j])
    /\ Len(c) <= query.request.max_items
    /\ Total(c, Characters) <= query.request.max_characters
    /\ Total(c, Tokens) <= query.request.max_tokens
    /\ \A e \in query.excluded : ReasonHolds(e[1], e[2])
    /\ query.pc = "respond" =>
         Elements(query.retrieved) = Elements(c) \cup {e[1] : e \in query.excluded}

\* An answer rests on memories of its user only that were active and retrievable
\* at some time while the query ran, whatever the vector index still lists and
\* whatever changes meanwhile, and on none without consent; it names either all
\* it rests on, in order of rank, or none (process_query, retrieve_memory).
AnswerIsCurrent ==
  query.pc = "answered" =>
    /\ Elements(query.retrieved) \subseteq query.seen \cap OfSubject(query.request)
    /\ ~query.allowed => query.retrieved = <<>>
    /\ \A a \in query.response :
         /\ Elements(query.items) \subseteq Elements(query.retrieved)
         /\ a.references \in {<<>>, query.items}
         /\ a.grounded <=> query.items # <<>>

\* A query that has begun is answered or fails: neither the selection nor the
\* composition gets stuck, whatever other requests do to the memories.
EveryQueryEnds == query.pc \notin {"idle", "answered"} ~> query.pc \in {"idle", "answered"}
================================================================================
