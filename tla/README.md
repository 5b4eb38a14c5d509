# Verification of the memory backend

TLA+ specifications, TLC models and TLAPS proofs for
`src/backend_memory_pipeline/`, a FastAPI backend that learns facts about the
users of a streaming service from their interaction events, keeps them as
memories with evidence, lineage and lifecycle, and uses them to answer
questions. Paths below are relative to `src/backend_memory_pipeline/`.

## 1. The system

### Parts, state, operations

| Part (source) | State | Operations that change it |
|---|---|---|
| Memory lifecycle (`memory_lifecycle/`) | dict of memory records; the durable truth | create, supersede, correct, update, retain, expire, delete |
| Graph memory (`graph_memory/`, `persistence/neo4j/`) | memory nodes with versions, entity nodes, relationships | upsert, close, delete |
| Embedding (`embedding/`, `persistence/qdrant/`) | one embedding record per memory | upsert, delete |
| Orchestrators (`orchestration/`) | evidence history per user | process_event, add_explicit_preference, process_memory_correction, apply_lifecycle_action, apply_consent_control, process_query |
| Ingestion and validation (`ingestion/`, `event_validation/`) | idempotency keys | ingest |
| Extraction (`memory_extraction/`, `language_detection/`) | a behavioural state that is kept and never read | extract |
| Policy and consent (`policy_consent/`) | consent state per user | apply (opt in, opt out, pause, resume); evaluate is pure |
| Sessions (`session_management/`) | sessions | get_active, start, touch, end, expire |
| Retrieval, context composition, response generation | none across requests; one query builds a candidate list, a context and an answer | pure functions of what they read |
| Entity resolution (`entity_resolution/`) | a catalogue | pure |
| Authentication (`auth/`, `api/routes/auth.py`, `mcp/auth.py`) | users and tokens | register, log in |
| API and MCP (`api/`, `mcp/`) | none of their own | wrappers of the orchestrators |

### How the parts interact

Everything is a method call. An event goes route -> session manager -> write
orchestrator -> ingestion -> extraction (with the user's evidence history) ->
policy -> lifecycle -> graph -> embedding -> evidence history. A correction goes
route -> session manager -> policy -> lifecycle -> graph -> embedding. A deletion goes
control orchestrator -> lifecycle -> graph -> embedding. A query reads consent,
then retrieval over a graph store and the embedding store, then composition and
generation.

The services are built once per process (`api/dependencies.py`, cached) and
their in-memory stores are plain dicts. The routes are ordinary functions
(`def`, not `async def`), which FastAPI runs in a pool of threads, and no store
takes a lock across calls. So requests of different users, and of the same user,
interleave between any two accesses to a store, while one dict access is atomic.

### What is hard

* Read-modify-write cycles without a lock: a record is read, copied with
  `model_copy` and put back, in the lifecycle, session and consent stores.
* Three stores that are kept in step one after the other, where the second or
  third may fail after the first was written.
* A validator that runs on the first version of a record only, because
  `model_copy` skips it.
* Consent, ownership and liveness are checked early in a request and relied on later.
* A graph write is a sequence of transactions, each of which may fail, and a
  restart loses the stores in memory and keeps the graph.
* A query reads the graph, then a vector index that may list what is closed or
  gone, while other requests change both; it sorts twice by different keys.
* Retries and duplicates under idempotency keys, and an evidence history that
  is cut to a length in a step of its own.

`PROJECT.json` lists these as hazards at their lines, with the properties that would catch
them. About half have none, and a note says why: mostly they are races of two
requests of one user that the code does lose and that nothing in the sources claims it wins. The models
make these steps too; what is checked is what holds in spite of them, and what holds for a user
who waits for each answer.

### What makes each part correct

* Lifecycle: a closed record is sealed; replacement links lead to older, closed
  memories of the same user; nothing comes back to life; evidence and lineage are never lost.
* Orchestration: copies have an origin and the right owner; a deletion reported as
  accepted is final; a repeated request repairs what a failed one left; one memory per fact.
* Consent: it follows its table, an opt-out stands, and no gated operation goes on without it.
* Sessions: one live session per user, continued only within the idle timeout, never reopened.
* Graph: a write that ends undisturbed leaves a whole copy of one revision,
  whatever was left before; copies do not go back.
* Queries: an answer rests on live memories of its user; what is left out is left
  out for a reason that holds; a query ends.
* Events: a key stands for one event, evidence is the user's own and counted
  once, and enough of it becomes a memory.

## 2. Modules

| Module | Models | Built on |
|---|---|---|
| `MemoryRecords` | the record of `memory_lifecycle.py` and its helpers | |
| `MemoryLife` | abstract: the phases unborn, live, closed, doomed of a memory | |
| `MemoryLifecycle` | the seven operations, each in one step | `MemoryRecords`, implements `MemoryLife` |
| `MemoryOrchestration` | the write and control paths over lifecycle, graph and embedding stores, one step per access, with failures | `MemoryRecords`, implements `MemoryLife` under `SerialSpec` |
| `SessionManagement` | sessions as the routes use them, one step per access | |
| `ConsentGate` | consent control and the operations that ask for consent | |
| `MemoryExtraction` | window, weights, score, candidate, decision (pure) | |
| `EventPipeline` | idempotency keys, evidence history, learning | `MemoryExtraction` |
| `GraphMemory` | one write of a copy into Neo4j, one step per transaction, with failures and restarts | |
| `Retrieval` | eligibility, scores and keys of rank (pure) | |
| `ContextComposition` | sizes, duplicates, conflicts, budgets (pure) | `Retrieval` |
| `MemoryQuery` | a query from consent to answer, over memories that change meanwhile | `ContextComposition` |
| `MemoryLifecycleProofs`, `MemoryOrchestrationProofs`, `SessionManagementProofs`, `ConsentGateProofs`, `EventPipelineProofs`, `GraphMemoryProofs`, `MemoryQueryProofs` | theorems | the module they are named after |
| `MemoryOrchestrationSerialProofs` | theorems about users whose requests do not overlap | `MemoryOrchestrationProofs` |
| `MC...` | instances: symmetry, payloads, policies | |

State and actions correspond to the code as follows; `map` in `PROJECT.json` has the lines.

**MemoryRecords, MemoryLifecycle.** `store` is `InMemoryMemoryStore._records`.
Ids are numbered in the order of storing, which is the order of the dict that
`_find_equivalent` scans. A fact stands for memory type plus normalised text,
which is what equivalence compares. `Create`, `Supersede`, `Correct`, `Update`,
`Retain`, `Expire` and `Delete` are the methods of the service, guards in the
order of the code's errors; a call that raises is no step. Confidence,
entities, retention and metadata are carried along without influencing a
transition and are left out.

**MemoryOrchestration.** `Decide...` is a request up to the point where it has
read the lifecycle store and settled on its puts; `StorePut`, `LoadMemory`,
`SyncGraph`, `SyncEmbedding` and `ForgetEmbedding` are its later accesses, in the
code's order; `GraphFails` and `EmbeddingFails` are the errors, with the graph
written or not. An access to the embedding store is one step, the look-up for its shortcut and
the write together. `acknowledged` and `unsynced` are history variables. Two graph
stores are modelled because `dependencies.py` builds two, of which requests write one
(`WrittenGraph`); what is said of retrieval is said of each. The action CORRECT of
`apply_lifecycle_action` is the operation "recorrect", which propagates nothing. `Spec` lets any requests overlap,
as the server does; `SerialSpec` is the same system with users who wait for the answer to one
request before they make the next, while the requests of different users still run together.

**SessionManagement.** `Arrive`, `Scan`, `ExpireIdle`, `Choose`, `Start`, `Touch`,
`TouchSave` and `TouchRejected` are the accesses of one request; `End` and
`ForceExpire` the calls of the service that no route makes. A snapshot that was
read is kept in `task` and written back as read.

**ConsentGate.** `Control` and `PutConsent` are the read and the write of
`ConsentControlService.apply`; `Ask` is the check of a gated operation and `Use` the later
moment at which it stores or discloses a memory. `SubmitEvent` asks nobody, as
`submit_event` does.

**MemoryExtraction, EventPipeline.** `Ingest` and `Register` are the look-up and
the registration of the idempotency key, `ReadHistory` the copy of the history
with extraction and policy, `ExtractionFails` the extractor's error for an event without the
text it needs, `StoreMemory` the lifecycle write and the copies,
which may fail, `AppendEvidence` and `TrimEvidence` the two writes of the history. A text is
modelled by the class the phrase lists put it in. Scores are hundredths; at exactly the threshold
the code's binary sum can fall on either side, depending on the order of the
additions, so the model takes both. The evidence of a habit is every event of the
window about its content, statements included, although those score nothing:
`SourcesAreOwn` therefore counts the behaviour among it.

**GraphMemory.** `life` is what `GraphMemoryService` is handed: status and revision of
each memory of the lifecycle store, where a revision counts the puts and stands for the
content. `node`, `places` and `related` are the graph: the Memory nodes and
relationships with the revision they show, the Subject and Entity nodes. `task` is the
write a thread is at: `Load` reads the memory, `Look` and `CreateNode` or `SetNode` are
`Neo4jGraphStore.upsert_memory`, `PutNode`, `PutPlace` and `PutRelation` the MERGE
transactions after it, `Return` reads the version. `AlreadyCreated` is the
unique constraint of `schema.cypher`, `EndMissing` the relationship whose end has no node,
`DatabaseFails` a `Neo4jError` at any access; a transaction that is committed while its answer is
lost is that step followed by `DatabaseFails`. `Restart` empties the lifecycle store
(its memories become "lost") and the threads, and keeps the graph. This module and
`MemoryOrchestration` meet at `SyncGraph`: there a graph write is one step that
succeeds or fails with the graph written or not, here it is taken apart.

**Retrieval, ContextComposition, MemoryQuery.** `open` are the memories the graph
shows as active, retrievable and valid; `MemoryChanges` is every other request that writes,
closes or deletes one. `query` is the one query under way, which shares nothing with
another: `AskChat` and `AskSearch` with the consent that is read once, `ReadGraph`
(or `ReadGraphOnly` without a weight for vectors), `SearchVectors` with any
similarities of any memories of the user, `Take`, `Pass` and `Retrieved` for the loop of
`_apply_diversity_limit`, `Include`, the three `Exclude...` and `Composed` for the loop of
`compose`, and `Respond`. Scores are those of `_final_score`, times the
sum of the two weights the code divides by, in ten-thousandths, so that no
division is left but the one of the graph score; comparing is the same. `RetrievalFails` is
the graph or the vector index that raises, `GeneratorFails` the language model.

**History variables.** `settled` is the revision of the last graph write that came to its
end, `disturbed` the memories a write of which failed or overlapped another since the last
write began alone, `seen` what was open while a query ran. Several properties are about users whose requests never overlap,
whatever other users do meanwhile: `overlapped` records the users two
of whose requests ran at once, `raced` the keys two requests used at once,
`resent` the users who sent an event again that had not failed. No action's
guard reads them. They separate what the code promises under any
interleaving from what it promises to a client that waits for its answer, and
both kinds are checked in one run in which interleavings do happen.

## 3. What is checked

All runs are exhaustive within their bounds. Deadlock checking is off where a
bound on ids, instants, revisions or arrivals ends the behaviour and where nobody may
ask any more, and on for `ConsentGate`, which is unbounded and finite.

| Run | Instance | Shows |
|---|---|---|
| `MCMemoryLifecycle` | 2 users, 2 facts, 1 event, 3 memories, 2 instants | `ClosedIsSealed`, `LineageIsSound`, `HistoryIsKept`, `ImplementsLife` |
| `MCOrchestrationSerial` | 2 threads and users, no user's requests overlap (`SerialSpec`), 1 fact, 2 events, 2 memories; graph and embedding may fail | `DeletionIsFinal`, `CopiesAreInStep`, `OneMemoryPerFact`, `EvidenceIsRetained`, `LivesOnce` |
| `MCOrchestrationConcurrent` | 2 threads, 2 users, 2 memories, all seven kinds of request, both failures; states that differ in history variables only count as one (`Present`) | `CopiesHaveOrigin`, `OwnersAgree`, `NothingHalfClosed`, `ReplacedIsSucceeded` |
| `MCSessions` | 2 threads, 1 user, with `end` and `expire`, 3 sessions, timeout 2, instants 0..2 | `RecordsAreConsistent`, `AsManyAsThreads`, `OneActiveSession`, `NobodyIsTurnedAway`, `IdentityIsKept`, `ClosedStaysClosed`, `ActivityIsContinuous` |
| `MCConsent` | 3 threads, 2 users, every operation | `LateUseIsBounded`, `NobodyUsedUnasked`, `OptOutStands`, `OnlyWithConsent`, `ConsentFollowsTable` |
| `MCEventPipeline` | 2 threads, 2 users, 2 keys, 6 payloads, 3 arrivals, window 2, history 2 | `HistoryIsRecent`, `SourcesAreOwn`, `RetriesCountOnce`, `HistoryMatchesKeys`, `LearningIsSettled` |
| `MCGraphMemory` | 2 threads, a memory with an entity and its correction, 3 revisions of the one or 2 of each (`FewPuts`), failures and restarts | `WholeWhenWritten`, `CopyMovesForward` |
| `MCMemoryQuery` | 4 memories of 1 of 2 users, 6 requests, an index that finds any of them or none | `RetrievalIsJustified`, `ContextIsJustified`, `AnswerIsCurrent`, `EveryQueryEnds` |

`TypeOK` is checked in one run of each module, but for `ConsentGate`,
`SessionManagement` and `GraphMemory`, where it is proved.

**Why the bounds are enough.** Three memories allow a replacement of a
replacement and a memory beside it; two, where other users' requests run too, a memory and its
replacement, or one of each of two users; two instants allow a close at and after the
start. Races in this code are between a read and a write of two requests, so two
threads produce each of them; consent has three, so that its bound
(threads minus one) is distinguished from one. A timeout of 2 with three instants has gaps of
less than and of exactly the timeout, where the comparisons differ. One user is enough
for the sessions: all they promise is said of each user, and the theorems hold for any number of them. A window and a history of 2 with
three arrivals overflow both, and two follows of an artist (80) cross the
threshold (75) where one (40) does not; a stated preference that names the artist
is among the payloads, so that statements and behaviour share a window. In the graph, two revisions make an old and a new copy and a third lets a closed
memory be closed again; the first memory has an
entity and no predecessor, the second a predecessor and no entity. The
four memories of the query run contain a duplicate, two
preferences that conflict, one that is too large for a budget while a smaller one
after it fits, and two whose order in retrieval and in composition differs; the
requests have a place too few, a candidate limit that cuts one off, a minimum score,
each of the three budgets exceeded, no weight for vectors, a text that is cut, and a
user without memories. Policies that keep a memory
out of the embedding store are included although the default registry has
none, because the code branches on them.

**Disagreements.** Four runs look for a counterexample to what a test or a message of
the repository says, and find it.

* `MCCorrectedMemory`: after an ordinary correction, with one thread and no failure, the copy of
  the corrected memory in the graph that is written to stays active and eligible. Only the
  replacement is synchronised, and `GraphMemoryService.close_memory`, which has a test of its
  own, has no caller. (As the process is wired, retrieval reads another graph store, so
  that the copy is wrong where it is kept and not in today's answers.)
* `MCDeletionRace`: a write that found a memory before its deletion puts its
  snapshot back and makes the deleted memory active again.
* `MCEventConsent`: a user's opt-out is accepted and stored, and the next event of that user
  still becomes a memory. The extractor refuses an event that says it is of an opted-out
  subject, but the events route writes "opted in" into every event and never reads what is stored.
* `MCDuplicateEvidence`: an event that ingestion reports as a duplicate is processed again,
  so one follow sent twice under its key becomes a strong preference.

**Behaviours the models have and no run singles out.** The write side uses the Neo4j
graph store and the query side the in-memory one (`api/dependencies.py:413` and
`:432`), so what is written cannot be retrieved in that process. A superseded or corrected
memory can be replaced again, so a memory can have two successors.
`apply_lifecycle_action` raises after the store was changed for every action but
DELETE. Two simultaneous writes of a new fact store it twice. Two
simultaneous requests of a user can open two sessions, reopen an expired one or turn
one request away. A paused user must resume before opting out, because the table has no
such move, and a user who never decided can pause and resume
into consent. Events the validator rejects are appended to the history and count as
evidence later. Idempotency keys are shared by all users. A preference that failed cannot
be retried under its key, because every call makes a new event. Evidence survives the
deletion of the memory made from it, so the next event makes the memory again. A correction whose
predecessor never reached the graph can never be written whole, since its last
relationship is refused each time. The diversity limit can leave places empty while
candidates are left. The eligible memories are cut to the candidate limit in the order
the store lists them, before any is scored. A response text that is cut keeps the references to every item.

**Fairness.** `MemoryQuery` states `WF_vars(Step)` (`FairSpec`): a query is
synchronous code on one thread that waits for nobody, so once begun it goes on, and
`EveryQueryEnds` says that it then reaches its end, although other requests may change the
memories at every moment (no step of theirs disables the query's). The fairness is on
the query's own steps only: nothing makes a client ask, a memory change or an external
call fail. The other specifications are safety only. A write is a
thread's call that may stop anywhere with an exception, the code
retries nothing and has no background work, so there is no scheduling that promises that an
event is learnt or a copy repaired; such a property would have to assume the client's behaviour.

## 4. What is proved

The theorems hold for every number of users, threads, facts, events, memories,
revisions and instants. The assumptions are those the modules name: bounds are natural
numbers, the set of threads is finite where threads are counted (and not empty where consent is
withdrawn by one of them), a predecessor is a memory, memories are no places, a fact has finitely
many words, and contents and requests are as their schemas say. Every invariant and action
property that a passing run checks is stated by one of them.

Two tools serve several of them. What a fold or a sum computes is a function defined by
recursion, which in TLA+ is a choice of some function with its equation; that there is one is
shown by the smallest number for which there would be none, since the library's induction
theorems take an operator and cannot be used here (`CountingUp`, from the well-foundedness of the
natural numbers). And what is counted is compared by an explicit injection or surjection.

**Lifecycle** (`MemoryLifecycleProofs`): `TypeCorrect`, `RecordsStaySealed`,
`LineageStaysSound`, `HistoryIsNeverRewritten`, `ServiceImplementsLife`.
Every operation has one of three shapes: a memory is born (`BirthStep`), one memory is
kept in use or shut (`ChangeStep`), or one is shut and its successor born
(`ReplaceStep`). `StepShape` proves that from the operations; the
invariant and the refinement are proved from the shapes alone. The inductive
invariant `IInv` is the conjunction of `TypeOK`, `ClosedIsSealed` and
`LineageIsSound`: none is inductive by itself, since a shut record is well typed only if
its closing time is, and a predecessor stays closed only because a closed status cannot go back,
which needs sealed records. `MemoryLife` is implemented under `PhaseOfStore`, step by step.

**Consent** (`ConsentGateProofs`): `TypeCorrect`, `NobodyIsUsedUnasked`,
`OptOutIsKept`, `ConsentIsTransitioned`, `UseNeedsConsent`, `LateUsesAreBounded`. The invariant says that
what a request read about its user is still true when it acts, unless that
user's requests overlapped: `OverlapIsKnown` makes two
requests of one user show in `overlapped`, `PutIsCurrent` and `UseIsAllowed` carry
the check to the write or the use. The bound on late uses is a counting
argument (`LateInv`): once consent is withdrawn, late uses plus gated uses
still under way stay below the number of threads, because the
withdrawal itself occupied a thread and no new use is let through.

**Orchestration** (`MemoryOrchestrationProofs`): `TypeCorrect`,
`CopiesAlwaysHaveOrigin`, `OwnersAlwaysAgree`, `NothingIsHalfClosed`,
`ReplacedIsAlwaysSucceeded`, for any number of threads and graph stores and whatever fails. The
invariant says what a request may rely on although others run between its accesses
(`RequestOK`): the memory it works on is its user's, what it will put is sealed and
its user's, and what it is about to embed is in the graph and eligible.
`RequestSurvives` proves once that this outlives every step of another request, since a put
never removes a memory or changes its owner (`Grows`); each action then has to be
considered for the request that takes it only. `ReplacedIsAlwaysSucceeded` is about the moment
between the two puts of a correction. Its invariant (`SuccessionInv`) says that every replaced
memory has its successor in the store or among the puts of a request under way (`Awaits`), and that
every pending put, however stale, carries the links its memory has in the store (`Linked`): the
only put that could take a predecessor's only successor away would change the link of
a stored memory, and no put does.

**A user's requests one after another** (`MemoryOrchestrationSerialProofs`). Each result comes
twice. `UsersDeletionsAreFinal`, `UsersCopiesStayInStep`, `UsersFactsAreKeptOnce` and
`UsersEvidenceIsRetained` are about one user, assume `OneRequestOf(u)` of that user alone, and let
the requests of others overlap as they will. `DeletionIsFinalSerially`, `CopiesStayInStep`,
`FactsAreKeptOnce`, `EvidenceIsAlwaysRetained` and `MemoriesLiveOnce` are the properties of
`MCOrchestrationSerial` under `SerialSpec`, which assumes it of every user. Neither is more than
a client can see to by waiting for its answers; the server enforces nothing of the kind, and
`MCDeletionRace` shows what two requests of one user can do. Deletions, evidence and the life of
a memory are proved for all seven kinds of request, the copies and the facts if nothing but writes,
corrections and deletions is requested (`AllPropagated`; the others do not propagate, see the
disagreements).

What lets other users be ignored is one lemma: a step of a request that serves somebody else
leaves the memories of u, their copies and the requests that serve u as they are
(`OthersUntouched`). It rests on `OwnersAgree` of the invariant above, since a request writes the
memory it works on, which is its user's. So each of the three invariants is a predicate of u, shown to
survive an `Untouched(u)` step once, the beginning of any request, and each step of the one request
that serves u. All three are about the plan of that request. For deletions (`Final`) it puts
no memory reported as deleted and works on one only to delete it again (`KeepsGone`). For copies
(`Kept`) every memory of u but the one worked on is in step already, and the plan
(`WillBeInStep`) ends with a new memory, the same one with more evidence, or its deletion;
that a memory in use is never embedded unless it may be (`EmbedsEligible`) is what makes the
graph write the last one for a memory that is not to be embedded. That a write which finds no
equivalent memory is of a new fact needs the smallest element of a set of ids, which is taken
from the well-foundedness of the natural numbers. `Plans` says that a put of the request
is of a new memory, or of a version that may follow what the store holds (`Succeeds`): with its
evidence at least, in use only if that is, closed only if that is in use or closed.
`MemoriesLiveOnce` is the refinement of `MemoryLife`, put by put, under `PhaseOfStore`.

**Events** (`EventPipelineProofs`): `TypeCorrect`, `HistoryFollowsKeys`, `EventsCountOnce`,
`HistoryKeepsTheNewest`, under any interleaving. `KeysInStep` says that a key which no two requests
used at once has one request at most, which found it unknown or has registered it. `Once`
says of a user who repeated nothing without need that every appended event is
answered or about to be (`Landing`), and that what is under way is under way once and not
appended yet: a request that fails does so before it appends, so a retry is no second count.
`Recent` counts the cuts that are due: a history exceeds its size by no more than the requests
about to cut it, whatever appends come between.
`MemoriesRestOnOwnEvidence` says what evidence is, from the history over the window to the memory,
however requests interleave; that a habit rests on two submissions at least is a bound on the
score, a fold over the set of supporting events: one event alone does not reach the threshold.
`EnoughEvidenceIsLearnt` is about a user whose requests never overlap (`Settled`): what a request
is about to store is the habit that everything appended before it makes, and what it is about to
append has been learnt. That it reads this from the trimmed history needs `Recent`: with no
cut due, the history is the end of what was appended (`RecentIsNewest`).

**Sessions** (`SessionManagementProofs`): `TypeCorrect`, `RecordsStayConsistent`,
`IdentityNeverChanges` under any interleaving; `OneSessionPerUser`,
`NobodyIsRejected`, `ClosedIsFinal`, `ActivityStaysContinuous` for a user whose requests do
not overlap. The invariant has the same two layers: `RequestOK` says of every request
that what it read or is about to save is a well-formed open version of a session of
its user with the right start, however stale; `ViewIsCurrent` says, if
`OverlapIsKnown` excludes a second request, that what it listed is all
that is open and still as it was read. `SessionStep` is what one step may do to the sessions.

`SessionsAreBounded` is the theorem about races: however requests overlap, a user has no more
active sessions than the server has threads. It is a counting argument over what requests are
still going to do. A request under way will either start a session (`Starters`: what it listed
is idle) or bring at most one back to life (`Touchers`, `Targets`). The active sessions and
these targets together never outnumber the threads, but that is not inductive: a starter adds a session
when all threads might be used up. So `Crowd` orders the starters by when they scanned (`before`) and
says of each that the sessions it will not expire itself (`Fresh`) have a thread each that is none
of the starters up to it (`Slots`); what it will expire frees as many places as it takes. A
request that arrived before a starter may still scan and find alive what that starter is
about to expire, because it judges idleness by its earlier arrival: such `Late` requests keep
their place free until they have scanned. When the last of the starters scans, all that it leaves alive are
the targets of others, which are one per request at most (`OneEach`). TLC agreed on `Crowd` as an
invariant with three threads and four sessions before it was proved.

**Graph** (`GraphMemoryProofs`): `TypeCorrect`, `WholeIsKept`, `CopyGoesForward`, for any
number of threads, memories, entities and revisions, with failures and
restarts anywhere. The invariant adds to the property how far a write that nobody
disturbed has come (`Reached`: which parts of the copy show its revision already),
that no copy is ahead of the store (`CopiesFollow`), that two writes of one memory
are known to overlap (`OverlapIsKnown`), and that what is written is of a stored memory
(`WriteIsOfStored`, which is why a restart leaves a copy alone for good). Without
`Reached` the property is not inductive: the last access of a write reads nothing of the
graph. `StoreStep` and `WriteStep` are the two shapes that every change of the store and every
transaction that succeeds have; what a shape preserves is proved once, what an action
adds to `Reached` per action (`StepReaches`).

**Queries** (`MemoryQueryProofs`): `TypeCorrect`, `AnswersAreCurrent`,
`OmissionsAreJustified`, for any memories, contents, similarities, weights and requests.
`CurrentQuery` chains what a query holds to what was open when it was read: items to what
was retrieved, that to `known`, that to `seen`. For the selection, keys are shown to be in a
strict total order (`PrecedesIsOrder`), and the invariant adds to the property that what was
passed over ranks before all that is left (`JustSelection`), so that no later choice changes
who is above it. When a candidate is passed over, all retrieved so far are above it, and
they are as many as the places taken because the list is sorted (`DistinctElements`).
`ContextsAreJustified` does the same for the composition (`ContextInv`): the counters are the true
sums over the items taken (`TotalOfAppend`), and the reason for leaving a memory out is kept as a statement
about the prefix of the items that rank before it, which later items, ranking behind, do not change.
`StepsAreBounded` and `QueriesAreNeverStuck` are what `EveryQueryEnds` rests on: every step
of a query counts down a natural number (`Remaining`) which no step of anybody else raises, and
until its end one of the guards of `Step` holds (`HasStep`). For the loops that needs the first
of a finite set in a strict total order (`FirstInOrder`).

Only model-checked: the one liveness property, `EveryQueryEnds`, since the step from these two
theorems to it needs `ENABLED` and fairness; and the four disagreements of section 3, which are
counterexamples.

## 5. Not modelled, and the plan

Not modelled:

* phrase lists, language detection and the optional AI extractor's prompts (data or external),
  vectors and similarity (numeric data), wording and logging;
* request and response schemas beyond the bounds that the models assume of a request, the
  tools of the MCP server, which wrap the same orchestrators and cut their text once more;
* authentication and authorisation: stateless checks of a signed token; the
  user they name is a parameter of every request;
* entity resolution: a lookup in a registry that nothing changes; the entities of a
  memory are a parameter of `GraphMemory`;
* of the graph service, `close_memory`, which has no caller, the branch for deleted
  memories, a state no memory ever takes, and the expected version, which no caller passes;
* of the Qdrant store, how points are encoded; a search is modelled by what it may
  report, an upsert and a deletion in `MemoryOrchestration`;
* contents that change between the two reads of one query: `MemoryQuery` lets memories
  open and close, but keeps what they say;
* the policy engine for registries and requests other than those of `process_event`.

What could come next:

1. `GraphMemory` as a refinement of the graph step of `MemoryOrchestration`.
2. `PolicyEngine`: `evaluate` in full as an operator, checked against a reference
   definition over all its inputs, and `MemoryExtraction!Decide` shown to agree with it.
3. `Embedding` by itself (double deletion), `EntityResolution`, `EventValidation`.
