-------------------------- MODULE MemoryOrchestration --------------------------
(***************************************************************************)
(* The orchestrators that write memories (orchestration.py) over the three *)
(* stores they keep in step: the lifecycle store, which decides, and the   *)
(* graph and embedding stores, which hold copies for retrieval.            *)
(*                                                                         *)
(* The routes are synchronous functions, which FastAPI runs in a pool of   *)
(* threads over singletons built once (dependencies.py); no lock is taken. *)
(* A request is therefore taken apart into its accesses to shared state,   *)
(* and the requests of different threads interleave between them:          *)
(*                                                                         *)
(*    read the store, decide  ->  put, put  ->  load  ->  graph  ->  embed *)
(*                                                                         *)
(* What a request does before it first reads the store (ingestion,         *)
(* extraction, the policy decision) only supplies its arguments here; a    *)
(* request that is turned away takes no step.  The extractor yields at     *)
(* most one candidate per event.  The subject checks of the graph and      *)
(* embedding services are left out: OwnersAgree shows they never fail.     *)
(* Looking an embedding up and writing or deleting it is one step.         *)
(***************************************************************************)
EXTENDS MemoryRecords, Sequences, FiniteSets

CONSTANTS
  Threads,      \* the threads of the server's pool
  Operations,   \* the requests issued: a subset of AllOperations
  Policies,     \* the ALLOW decisions of the policy engine
  Faults,       \* the external stores that may raise: "graph", "embedding"
  GraphStores,  \* the graph stores dependencies.py builds
  WrittenGraph  \* the one the write and control orchestrators write to

\* process_event, process_memory_correction, and the actions that
\* apply_lifecycle_action dispatches on, of which CORRECT is "recorrect" and
\* RETAIN changes nothing.
AllOperations ==
  {"write", "correct", "delete", "expire", "update", "supersede", "recorrect"}

ASSUME OperationsAssumption == Operations \subseteq AllOperations
ASSUME PoliciesAssumption == Policies \subseteq PolicyDecision
ASSUME GraphStoresAssumption == WrittenGraph \in GraphStores

VARIABLES
  store,         \* InMemoryMemoryStore._records
  graph,         \* the memories each graph store holds
  embeddings,    \* InMemoryEmbeddingStore._records
  task,          \* what each thread is doing
  acknowledged,  \* history: the memories reported as deleted
  unsynced       \* history: the memories whose last request failed half-way

vars == <<store, graph, embeddings, task, acknowledged, unsynced>>

\* A write to the store that a request has decided on; id is None until the
\* new memory gets its id.
PendingPut == [id : MemoryIds \cup {None}, memory : MemoryRecord]

\* A request between two accesses: the memory it works on, the puts it still
\* has to make and the snapshots it has loaded, as a set of at most one.
Task ==
  [ op     : Operations,
    pc     : {"put", "load", "graph", "embed"},
    by     : Subjects,
    id     : MemoryIds \cup {None},
    puts   : Seq(PendingPut),
    loaded : SUBSET MemoryRecord ]

Idle == [pc |-> "idle"]

EmbeddingRecord ==
  [ subject            : Subjects,
    fact               : Facts,
    sources            : SUBSET Events,
    status             : MemoryStatus,
    retrieval_eligible : BOOLEAN,
    embedding_eligible : BOOLEAN ]

TypeOK ==
  /\ DOMAIN store \subseteq MemoryIds
  /\ \A id \in DOMAIN store : store[id] \in MemoryRecord
  /\ DOMAIN graph = GraphStores
  /\ \A g \in GraphStores : \A id \in DOMAIN graph[g] : graph[g][id] \in MemoryRecord
  /\ \A id \in DOMAIN embeddings : embeddings[id] \in EmbeddingRecord
  /\ DOMAIN task = Threads
  /\ \A t \in Threads : task[t] = Idle \/ task[t] \in Task
  /\ acknowledged \subseteq MemoryIds
  /\ unsynced \subseteq MemoryIds

Nothing == [id \in {} |-> None]

Init ==
  /\ store = Nothing
  /\ graph = [g \in GraphStores |-> Nothing]
  /\ embeddings = Nothing
  /\ task = [t \in Threads |-> Idle]
  /\ acknowledged = {}
  /\ unsynced = {}

------------------------------------------------------------------------------
\* Deciding: a request reads the store once and settles on its puts.

Stored(id, m) == [id |-> id, memory |-> m]

Begin(t, op, by, id, puts) ==
  /\ task[t] = Idle
  /\ op \in Operations
  /\ task' = [task EXCEPT ![t] =
                [op |-> op, pc |-> IF puts = <<>> THEN "load" ELSE "put",
                 by |-> by, id |-> id, puts |-> puts, loaded |-> {}]]
  /\ UNCHANGED <<store, graph, embeddings, acknowledged, unsynced>>

\* Bound: no request starts that could need an id beyond MaxMemories.
Creating == {t \in Threads : /\ task[t] # Idle
                             /\ \E i \in DOMAIN task[t].puts : task[t].puts[i].id = None}
HasRoom == Cardinality(DOMAIN store) + Cardinality(Creating) < MaxMemories

\* process_event up to the put of create_from_approved_candidate.
DecideWrite(t, c, p, at) ==
  \/ \E id \in FindEquivalent(store, c) :
       Begin(t, "write", c.subject, id, <<Stored(id, Reinforce(store[id], c))>>)
  \/ /\ HasRoom
     /\ FindEquivalent(store, c) = {}
     /\ Begin(t, "write", c.subject, None, <<Stored(None, NewRecord(c, p, at))>>)

\* process_memory_correction, and apply_lifecycle_action with CORRECT, up to the
\* first put of correct.
DecideCorrect(t, op, target, c, p, at) ==
  /\ op \in {"correct", "recorrect"}
  /\ HasRoom
  /\ Owns(store, c.subject, target)
  /\ Replaceable(store[target])
  /\ CanClose(store[target], at)
  /\ Begin(t, op, c.subject, target,
           << Stored(target, Close(store[target], at, "corrected")),
              Stored(None, Correction(c, p, at, target)) >>)

\* apply_lifecycle_action with SUPERSEDE.
DecideSupersede(t, target, c, p, at) ==
  /\ HasRoom
  /\ Owns(store, c.subject, target)
  /\ Replaceable(store[target])
  /\ CanClose(store[target], at)
  /\ Begin(t, "supersede", c.subject, target,
           << Stored(target, Close(store[target], at, "superseded")),
              Stored(None, Supersession(c, p, at, target)) >>)

\* apply_lifecycle_action with DELETE: a memory whose deletion is under way is
\* not put again, and its propagation is repeated.
DecideDelete(t, by, id, at) ==
  /\ Owns(store, by, id)
  /\ \/ /\ Deleting(store[id])
        /\ Begin(t, "delete", by, id, <<>>)
     \/ /\ store[id].status = "active"
        /\ CanClose(store[id], at)
        /\ Begin(t, "delete", by, id,
                 << Stored(id, [Close(store[id], at, "deleted")
                                  EXCEPT !.status = "pending_deletion"]) >>)

\* apply_lifecycle_action with EXPIRE and with UPDATE.
DecideExpire(t, by, id, at) ==
  /\ Owns(store, by, id)
  /\ Replaceable(store[id])
  /\ CanClose(store[id], at)
  /\ Begin(t, "expire", by, id, <<Stored(id, Close(store[id], at, "expired"))>>)

\* Mutation of DecideUpdate: the status is not checked.
DecideUpdateAny(t, by, id, fact, p) ==
  /\ Owns(store, by, id)
  /\ Begin(t, "update", by, id,
           << Stored(id, [store[id] EXCEPT !.fact = fact,
                                           !.retrieval_eligible = p.retrieval_eligible,
                                           !.embedding_eligible = p.embedding_eligible]) >>)

DecideUpdate(t, by, id, fact, p) ==
  /\ Owns(store, by, id)
  /\ store[id].status = "active"
  /\ Begin(t, "update", by, id,
           << Stored(id, [store[id] EXCEPT !.fact = fact,
                                           !.retrieval_eligible = p.retrieval_eligible,
                                           !.embedding_eligible = p.embedding_eligible]) >>)

------------------------------------------------------------------------------
\* Storing and propagating.

\* Of the actions of apply_lifecycle_action only DELETE binds the memory_id it
\* loads next: after the last put of any other one the call raises.
Propagated == {"write", "correct", "delete"}

AfterPut(w, id) ==
  IF Tail(w.puts) # <<>> THEN [w EXCEPT !.puts = Tail(@)]
  ELSE IF w.op \in Propagated
       THEN [w EXCEPT !.puts = <<>>, !.pc = "load", !.id = id]
       ELSE Idle

\* store.put, of a memory that exists or of a new one.
StorePut(t) ==
  /\ task[t].pc = "put"
  /\ LET put == Head(task[t].puts) IN
       \E id \in IF put.id = None THEN FreshIds(store) ELSE {put.id} :
         /\ store' = Put(store, id, put.memory)
         /\ task' = [task EXCEPT ![t] = AfterPut(task[t], id)]
  /\ UNCHANGED <<graph, embeddings, acknowledged, unsynced>>

LoadMemory(t) ==
  /\ task[t].pc = "load"
  /\ task' = [task EXCEPT ![t].pc = "graph", ![t].loaded = {store[task[t].id]}]
  /\ UNCHANGED <<store, graph, embeddings, acknowledged, unsynced>>

Finish(t) ==
  /\ task' = [task EXCEPT ![t] = Idle]
  /\ unsynced' = unsynced \ {task[t].id}

\* The request ends with an OrchestrationError.
Abort(t) ==
  /\ task' = [task EXCEPT ![t] = Idle]
  /\ unsynced' = unsynced \cup {task[t].id}

\* Mutation of WithCopy: a memory the graph knows is not written again.
WithNewCopy(id, m) ==
  IF id \in DOMAIN graph[WrittenGraph] THEN graph
  ELSE [graph EXCEPT ![WrittenGraph] = Put(@, id, m)]

WithCopy(id, m) == [graph EXCEPT ![WrittenGraph] = Put(@, id, m)]

\* graph.delete_memory wants a memory the graph knows and that is on its way
\* out; no memory is ever in state deleted, so it always upserts.
GraphAccepts(w, m) ==
  w.op = "delete" => /\ w.id \in DOMAIN graph[WrittenGraph]
                     /\ m.status = "pending_deletion"

\* graph.upsert_memory, graph.delete_memory.
SyncGraph(t) ==
  /\ task[t].pc = "graph"
  /\ \E m \in task[t].loaded :
       /\ GraphAccepts(task[t], m)
       /\ graph' = WithCopy(task[t].id, m)
       /\ \/ /\ task[t].op = "delete" \/ m.embedding_eligible
             /\ task' = [task EXCEPT ![t].pc = "embed"]
             /\ UNCHANGED unsynced
          \/ /\ task[t].op # "delete" /\ ~m.embedding_eligible
             /\ Finish(t)
  /\ UNCHANGED <<store, embeddings, acknowledged>>

\* Mutation of GraphFails: the failure is swallowed and the request goes on.
GraphFailsSilently(t) ==
  /\ task[t].pc = "graph" /\ "graph" \in Faults
  /\ task' = [task EXCEPT ![t].pc = "embed"]
  /\ UNCHANGED <<store, graph, embeddings, acknowledged, unsynced>>

\* The graph service refuses, or its database fails before or after the
\* memory itself was written.
GraphFails(t) ==
  /\ task[t].pc = "graph"
  /\ \E m \in task[t].loaded :
       \/ /\ ~GraphAccepts(task[t], m)
          /\ UNCHANGED graph
       \/ /\ "graph" \in Faults
          /\ GraphAccepts(task[t], m)
          /\ graph' \in {graph, WithCopy(task[t].id, m)}
  /\ Abort(t)
  /\ UNCHANGED <<store, embeddings, acknowledged>>

EmbeddingOf(m) ==
  [ subject            |-> m.subject,
    fact               |-> m.fact,
    sources            |-> m.sources,
    status             |-> m.status,
    retrieval_eligible |-> m.retrieval_eligible,
    embedding_eligible |-> m.embedding_eligible ]

\* What upsert_memory_embedding takes for an unchanged memory.
SameContent(e, m) ==
  /\ e.fact = m.fact
  /\ e.embedding_eligible = m.embedding_eligible
  /\ e.status = m.status

IsCurrent(id, m) == id \in DOMAIN embeddings /\ SameContent(embeddings[id], m)

\* embedding.upsert_memory_embedding.
SyncEmbedding(t) ==
  /\ task[t].pc = "embed" /\ task[t].op # "delete"
  /\ \E m \in task[t].loaded :
       embeddings' = IF IsCurrent(task[t].id, m) THEN embeddings
                     ELSE Put(embeddings, task[t].id, EmbeddingOf(m))
  /\ Finish(t)
  /\ UNCHANGED <<store, graph, acknowledged>>

\* Mutation of ForgetEmbedding: the embedding is only marked as gone.
ForgetNothing(t) ==
  /\ task[t].pc = "embed" /\ task[t].op = "delete"
  /\ acknowledged' = acknowledged \cup {task[t].id}
  /\ Finish(t)
  /\ UNCHANGED <<store, graph, embeddings>>

\* embedding.delete_memory_embedding; a missing embedding is tolerated.  The
\* request reports success.
ForgetEmbedding(t) ==
  /\ task[t].pc = "embed" /\ task[t].op = "delete"
  /\ embeddings' = [id \in DOMAIN embeddings \ {task[t].id} |-> embeddings[id]]
  /\ acknowledged' = acknowledged \cup {task[t].id}
  /\ Finish(t)
  /\ UNCHANGED <<store, graph>>

EmbeddingFails(t) ==
  /\ task[t].pc = "embed" /\ "embedding" \in Faults
  /\ Abort(t)
  /\ UNCHANGED <<store, graph, embeddings, acknowledged>>

Step(t) ==
  \/ StorePut(t) \/ LoadMemory(t)
  \/ SyncGraph(t) \/ GraphFails(t)
  \/ SyncEmbedding(t) \/ ForgetEmbedding(t) \/ EmbeddingFails(t)

Decide(t) ==
  \/ \E c \in Candidate, p \in Policies, at \in Times : DecideWrite(t, c, p, at)
  \/ \E target \in MemoryIds, c \in Candidate, p \in Policies, at \in Times :
       \/ \E op \in Operations : DecideCorrect(t, op, target, c, p, at)
       \/ DecideSupersede(t, target, c, p, at)
  \/ \E by \in Subjects, id \in MemoryIds, at \in Times :
       \/ DecideDelete(t, by, id, at)
       \/ DecideExpire(t, by, id, at)
  \/ \E by \in Subjects, id \in MemoryIds, fact \in Facts, p \in Policies :
       DecideUpdate(t, by, id, fact, p)

Next == \E t \in Threads : Decide(t) \/ Step(t)

Spec == Init /\ [][Next]_vars

InFlight(t) == task[t] # Idle

Serves(t, u) == InFlight(t) /\ task[t].by = u

\* The requests of user u do not overlap.
OneRequestOf(u) == \A s, t \in Threads : Serves(s, u) /\ Serves(t, u) => s = t

\* Every user waits for the answer to a request before the next; the requests
\* of different users run together.
Serial == \A u \in Subjects : OneRequestOf(u)

SerialSpec == Init /\ [][Next /\ Serial']_vars

------------------------------------------------------------------------------
\* What holds however many requests interleave.

\* A copy never outlives or precedes its origin: what is embedded is in the
\* graph, what is in the graph was stored first, and so was every memory a
\* request in flight works on (the order store, graph, embedding of
\* process_event and process_memory_correction, under failures of either).
CopiesHaveOrigin ==
  /\ DOMAIN embeddings \subseteq DOMAIN graph[WrittenGraph]
  /\ \A g \in GraphStores : DOMAIN graph[g] \subseteq DOMAIN store
  /\ \A t \in Threads : InFlight(t) => task[t].id \in DOMAIN store \cup {None}

\* No user's memory reaches another user: each copy, each snapshot a request
\* holds and each put it has pending belongs to the user the stored memory
\* belongs to, though ownership was checked before other requests ran
\* (_get_owned_memory, and the subject checks of the graph and embedding
\* services, which therefore never fail).
OwnersAgree ==
  /\ \A g \in GraphStores : \A id \in DOMAIN graph[g] :
       id \in DOMAIN store => graph[g][id].subject = store[id].subject
  /\ \A id \in DOMAIN embeddings :
       id \in DOMAIN store => embeddings[id].subject = store[id].subject
  /\ \A t \in Threads : InFlight(t) =>
       /\ task[t].id \in DOMAIN store => store[task[t].id].subject = task[t].by
       /\ \A m \in task[t].loaded : m.subject = task[t].by
       /\ \A i \in DOMAIN task[t].puts :
            LET put == task[t].puts[i] IN
            /\ put.memory.subject = task[t].by
            /\ put.id \in DOMAIN store => store[put.id].subject = task[t].by

Sealed(m) ==
  /\ Validates(m)
  /\ m.status = "active" <=> m.valid_to = None
  /\ m.status # "active" => ~m.retrieval_eligible /\ ~m.embedding_eligible

\* Interleaved read-modify-write cycles never mix two versions of a memory:
\* whatever is stored, copied or about to be put is open and possibly eligible
\* or closed and ineligible, and only a memory that was active and eligible
\* is ever embedded (_close_memory, _retain_existing, upsert_memory_embedding).
NothingHalfClosed ==
  /\ \A id \in DOMAIN store : Sealed(store[id])
  /\ \A g \in GraphStores : \A id \in DOMAIN graph[g] : Sealed(graph[g][id])
  /\ \A id \in DOMAIN embeddings :
       embeddings[id].status = "active" /\ embeddings[id].embedding_eligible
  /\ \A t \in Threads : InFlight(t) =>
       /\ \A m \in task[t].loaded : Sealed(m)
       /\ \A i \in DOMAIN task[t].puts : Sealed(task[t].puts[i].memory)

\* Memory m takes the place of memory id, which is closed with that status.
Replaces(m, id, status) ==
  \/ status = "corrected"  /\ m.correction_of = id
  \/ status = "superseded" /\ m.supersedes = id

\* What a user is told to be replaced is replaced: the two puts of correct and
\* supersede are apart, other requests put what they read before, delete or
\* replace the same memory in between, and still a memory that is closed for a
\* replacement has one, or the request that is about to put it.
ReplacedIsSucceeded ==
  \A id \in DOMAIN store : store[id].status \in {"corrected", "superseded"} =>
    \/ \E other \in DOMAIN store : Replaces(store[other], id, store[id].status)
    \/ \E t \in Threads : InFlight(t) /\
         \E i \in DOMAIN task[t].puts :
           Replaces(task[t].puts[i].memory, id, store[id].status)

------------------------------------------------------------------------------
\* What users are guaranteed whose requests do not overlap.

\* The memories a retrieval service over graph store g can return to their owner.
\* dependencies.py builds one over the store that is not written to; what is
\* said of deletions holds whichever it is built over.
Searchable(g) ==
  {id \in DOMAIN graph[g] : graph[g][id].status = "active" /\ graph[g][id].retrieval_eligible}

\* A deletion that was reported as accepted is final: the memory never comes
\* back into use, cannot be retrieved and has no embedding
\* (test_api_memory_deletion.py:125).
DeletionIsFinal ==
  \A id \in acknowledged :
    /\ Deleting(store[id])
    /\ \A g \in GraphStores : id \notin Searchable(g)
    /\ id \notin DOMAIN embeddings

\* The copies of memory id show what the store holds.
InStep(id) ==
  /\ store[id].status = "active" =>
       /\ id \in DOMAIN graph[WrittenGraph]
       /\ graph[WrittenGraph][id] = store[id]
       /\ store[id].embedding_eligible <=> id \in DOMAIN embeddings
       /\ store[id].embedding_eligible => SameContent(embeddings[id], store[id])
  /\ Deleting(store[id]) =>
       /\ graph[WrittenGraph][id] = store[id]
       /\ id \notin DOMAIN embeddings

\* Between the requests of a user the copies of every memory the user wrote or
\* deleted are in step, whatever other users are doing, unless its last request
\* failed half-way; a repeated request therefore repairs what an earlier one
\* left behind.
CopiesAreInStep ==
  \A id \in DOMAIN store \ unsynced :
    (\A t \in Threads : ~Serves(t, store[id].subject)) => InStep(id)

\* A fact a user states again strengthens the memory of it and never makes a
\* second one (_find_equivalent and its "Equivalent active memory already
\* exists", memory_lifecycle.py:606).
OneMemoryPerFact ==
  \A one, other \in DOMAIN store :
    /\ store[one].status = "active" /\ store[other].status = "active"
    /\ store[one].subject = store[other].subject
    /\ store[one].fact = store[other].fact
    /\ store[one].correction_of = None /\ store[other].correction_of = None
    => one = other

\* "evidence was retained and lineage strengthened" (memory_lifecycle.py:606):
\* no put drops an event that a memory already rests on.
EvidenceStep ==
  \A id \in DOMAIN store : id \in DOMAIN store' /\ store[id].sources \subseteq store'[id].sources

EvidenceIsRetained == [][EvidenceStep]_vars

PhaseOf(m) ==
  CASE m.status = "active" -> "live"
    [] m.status \in {"superseded", "corrected", "expired"} -> "closed"
    [] OTHER -> "doomed"

PhaseOfStore ==
  [m \in MemoryIds |-> IF m \in DOMAIN store THEN PhaseOf(store[m]) ELSE "unborn"]

Life == INSTANCE MemoryLife WITH Memories <- MemoryIds, phase <- PhaseOfStore

\* The puts of a request, one at a time, live the life MemoryLife promises: a
\* replaced, expired or deleted memory never becomes live again.
LivesOnce == Life!LifeSpec

------------------------------------------------------------------------------
\* What a test of the repository says, and the code does not keep: when a memory
\* was corrected, its copy in the graph is closed with it
\* (test_api_memory_correction.py:114,
\* test_memory_correction_closes_old_memory_and_creates_new_memory, and
\* test_graph_memory.py:291, test_close_memory_updates_graph).
CorrectionClosesCopy ==
  (\A t \in Threads : ~InFlight(t)) =>
    \A id \in DOMAIN store \ unsynced :
      store[id].status = "corrected" => id \notin Searchable(WrittenGraph)
================================================================================
