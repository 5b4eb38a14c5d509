------------------------------ MODULE EventPipeline ------------------------------
(***************************************************************************)
(* The way of an interaction event through MemoryWriteOrchestrator         *)
(* (process_event, orchestration.py): ingestion under an idempotency key   *)
(* (ingestion.py), the evidence history of its user, extraction, policy,   *)
(* and the memory that comes of it.  The events route and the explicit     *)
(* preference route share one orchestrator and run in a pool of threads;   *)
(* the two stores are plain dicts that every request reads and writes      *)
(* without a lock.                                                         *)
(*                                                                         *)
(* The accesses of a request to the idempotency store and to the history   *)
(* are separate steps.  Storing the memory and synchronising its copies,   *)
(* which may fail, are one step here, for nothing else in this module      *)
(* reads memories; MemoryOrchestration takes them apart.  Both routes are  *)
(* served for users who gave consent (ConsentGate).                        *)
(***************************************************************************)
EXTENDS MemoryExtraction

CONSTANTS
  Threads,     \* the threads of the server's pool
  MaxHistory   \* InMemoryEvidenceHistoryStore.max_events_per_subject: 100

ASSUME ThreadsAssumption == IsFiniteSet(Threads)
ASSUME MaxHistoryAssumption == MaxHistory \in Nat /\ MaxHistory >= Window

VARIABLES
  arrivals,    \* how many events were submitted; also the clock
  keys,        \* InMemoryIdempotencyStore._records: key to event id
  history,     \* InMemoryEvidenceHistoryStore._history
  learnt,      \* the active memories: per user and fact, the evidence it rests on
  task,        \* the request each thread is serving
  answered,    \* history: the events answered without an error, with their users
  appended,    \* history: all that was ever appended to a user's history
  overlapped,  \* history: the users two of whose requests ran at once
  resent,      \* history: the users who sent an event again although it had
               \* not failed
  raced        \* history: the keys two requests used at once

vars == <<arrivals, keys, history, learnt, task, answered, appended,
          overlapped, resent, raced>>

Idle == [pc |-> "idle"]

\* The memory types the policy registry allows.
MemoryTypes == {"explicit_preference", "candidate_preference", "exclusion", "episode"}

Fact(c, e) == <<c.type, Content(e)>>
FactsOf(u) == DOMAIN learnt[u]

Pc == {"register", "read", "store", "append", "trim"}

TypeOK ==
  /\ arrivals \in 0 .. MaxArrivals
  /\ DOMAIN keys \subseteq Keys
  /\ \A k \in DOMAIN keys : keys[k] \in EventId /\ keys[k].key = k
  /\ DOMAIN history = Users /\ DOMAIN appended = Users /\ DOMAIN learnt = Users
  /\ \A u \in Users : history[u] \in Seq(Event) /\ appended[u] \in Seq(Event)
  /\ \A u \in Users : \A f \in FactsOf(u) :
       f[1] \in MemoryTypes /\ learnt[u][f] \in (SUBSET Event) \ {{}}
  /\ DOMAIN task = Threads
  /\ \A t \in Threads :
       task[t] # Idle => task[t].pc \in Pc /\ task[t].event \in Event
  /\ answered \subseteq Users \X EventId
  /\ overlapped \cup resent \subseteq Users
  /\ raced \subseteq Keys

Init ==
  /\ arrivals = 0
  /\ keys = [k \in {} |-> 0]
  /\ history = [u \in Users |-> <<>>]
  /\ learnt = [u \in Users |-> [f \in {} |-> {}]]
  /\ task = [t \in Threads |-> Idle]
  /\ appended = [u \in Users |-> <<>>]
  /\ answered = {} /\ overlapped = {} /\ resent = {} /\ raced = {}

Underway == {task[t].event : t \in {s \in Threads : task[s] # Idle}}

\* The request of thread t goes on at pc, for the same event.
Goto(t, pc) == task' = [task EXCEPT ![t] = [pc |-> pc, event |-> task[t].event]]
Return(t) == task' = [task EXCEPT ![t] = Idle]

\* History: the request for e begins.
Begins(e) ==
  /\ overlapped' = overlapped \cup {u \in {e.user} : \E x \in Underway : x.user = u}
  /\ raced' = raced \cup {k \in {e.id.key} : \E x \in Underway : x.id.key = k}
  /\ resent' = resent \cup
       {u \in {e.user} : \/ <<u, e.id>> \in answered
                         \/ \E x \in Underway : x.user = u /\ x.id = e.id}

------------------------------------------------------------------------------
\* An event of the validator's liking goes to the extractor; a rejected one is
\* appended to the history all the same.
AfterIngestion(e) == IF e.id.payload.valid THEN "read" ELSE "append"

\* Mutation of Ingest: any known key is taken for a duplicate.
IngestAnyKnown(t, e) ==
  /\ task[t] = Idle
  /\ arrivals < MaxArrivals
  /\ arrivals' = arrivals + 1
  /\ task' = [task EXCEPT ![t] =
       [pc |-> IF e.id.key \in DOMAIN keys THEN AfterIngestion(e) ELSE "register",
        event |-> e]]
  /\ Begins(e)
  /\ UNCHANGED <<keys, history, learnt, answered, appended>>

\* ingest looks its key up: an unknown key will be registered, the key of the
\* same event makes it a duplicate, which is processed like any other, and the
\* key of another event is refused (no change but the clock's).
Ingest(t, e) ==
  /\ task[t] = Idle
  /\ arrivals < MaxArrivals
  /\ arrivals' = arrivals + 1
  /\ \/ /\ e.id.key \notin DOMAIN keys
        /\ task' = [task EXCEPT ![t] = [pc |-> "register", event |-> e]]
        /\ Begins(e)
     \/ /\ e.id.key \in DOMAIN keys
        /\ keys[e.id.key] = e.id
        /\ task' = [task EXCEPT ![t] = [pc |-> AfterIngestion(e), event |-> e]]
        /\ Begins(e)
     \/ /\ e.id.key \in DOMAIN keys
        /\ keys[e.id.key] # e.id
        /\ UNCHANGED <<task, overlapped, resent, raced>>
  /\ UNCHANGED <<keys, history, learnt, answered, appended>>

\* submit_event: the id is derived from the key and the payload, so a
\* repetition has the same id; the timestamp is now.
SubmitEvent(t, u, k, p) ==
  Ingest(t, [at |-> arrivals + 1, user |-> u, time |-> arrivals + 1,
             id |-> [key |-> k, payload |-> p, call |-> 0]])

\* add_explicit_preference: every call makes a fresh id, and the client names
\* the timestamp (effective_at): here, one before or after all others.
SubmitPreference(t, u, k, p, time) ==
  /\ p.signal \in TextSignals \ {"episode", "missing"}
  /\ Ingest(t, [at |-> arrivals + 1, user |-> u, time |-> time,
                id |-> [key |-> k, payload |-> p, call |-> arrivals + 1]])

Register(t) ==
  /\ task[t].pc = "register"
  /\ LET e == task[t].event
     IN  /\ keys' = [k \in DOMAIN keys \cup {e.id.key} |->
                       IF k = e.id.key THEN e.id ELSE keys[k]]
         /\ Goto(t, AfterIngestion(e))
  /\ UNCHANGED <<arrivals, history, learnt, answered, appended, overlapped, resent, raced>>

\* The history is copied; extraction and policy work on that copy.  A candidate
\* that policy does not allow is dropped.
ReadHistory(t) ==
  /\ task[t].pc = "read" /\ HasText(task[t].event)
  /\ LET e == task[t].event
     IN  \E candidates \in Extract(history[e.user], e) :
           LET allowed == {c \in candidates : Decide(c) = "allow"}
           IN  \/ allowed = {} /\ Goto(t, "append")
               \/ \E c \in allowed :
                    task' = [task EXCEPT ![t] =
                      [pc |-> "store", event |-> e, candidate |-> c]]
  /\ UNCHANGED <<arrivals, keys, history, learnt, answered, appended, overlapped, resent, raced>>

\* The extractor raises; the event has its key and is in no history.
ExtractionFails(t) ==
  /\ task[t].pc = "read" /\ ~HasText(task[t].event)
  /\ Return(t)
  /\ UNCHANGED <<arrivals, keys, history, learnt, answered, appended, overlapped, resent, raced>>

\* The evidence for a fact of u that is a memory already.
Known(u, f) == IF f \in FactsOf(u) THEN learnt[u][f] ELSE {}

Learn(u, f, sources) ==
  learnt' = [learnt EXCEPT ![u] =
    [g \in FactsOf(u) \cup {f} |-> IF g = f THEN Known(u, f) \cup sources ELSE learnt[u][g]]]

\* Mutation of Newest: the oldest events are kept.
Oldest(s) == IF Len(s) > MaxHistory THEN SubSeq(s, 1, MaxHistory) ELSE s

\* What the history keeps.
Newest(s) == IF Len(s) > MaxHistory THEN SubSeq(s, Len(s) - MaxHistory + 1, Len(s)) ELSE s

\* Mutation of StoreMemory: the event of a failed request is appended as well.
StoreAndAppend(t) ==
  /\ task[t].pc = "store"
  /\ LET e == task[t].event
         c == task[t].candidate
     IN  /\ Learn(e.user, Fact(c, e), c.sources)
         /\ \/ Goto(t, "append") /\ UNCHANGED <<history, appended>>
            \/ /\ Return(t)
               /\ history' = [history EXCEPT ![e.user] = Newest(Append(@, e))]
               /\ appended' = [appended EXCEPT ![e.user] = Append(@, e)]
  /\ UNCHANGED <<arrivals, keys, answered, overlapped, resent, raced>>

\* create_from_approved_candidate makes a new fact a memory and adds evidence to
\* a known one; then the graph and the embedding store are brought up to date,
\* or one of them fails: the request ends here and its event is in no history.
StoreMemory(t) ==
  /\ task[t].pc = "store"
  /\ LET e == task[t].event
         c == task[t].candidate
     IN  Learn(e.user, Fact(c, e), c.sources)
  /\ Goto(t, "append") \/ Return(t)
  /\ UNCHANGED <<arrivals, keys, history, answered, appended, overlapped, resent, raced>>

\* InMemoryEvidenceHistoryStore.append: the event is added ...
AppendEvidence(t) ==
  /\ task[t].pc = "append"
  /\ LET e == task[t].event
     IN  /\ history' = [history EXCEPT ![e.user] = Append(@, e)]
         /\ appended' = [appended EXCEPT ![e.user] = Append(@, e)]
  /\ Goto(t, "trim")
  /\ UNCHANGED <<arrivals, keys, learnt, answered, overlapped, resent, raced>>

\* ... and the oldest are dropped.
TrimEvidence(t) ==
  /\ task[t].pc = "trim"
  /\ history' = [history EXCEPT ![task[t].event.user] = Newest(@)]
  /\ answered' = answered \cup {<<task[t].event.user, task[t].event.id>>}
  /\ Return(t)
  /\ UNCHANGED <<arrivals, keys, learnt, appended, overlapped, resent, raced>>

Next ==
  \E t \in Threads :
    \/ \E u \in Users, k \in Keys, p \in Payloads :
         \/ SubmitEvent(t, u, k, p)
         \/ \E time \in {0, MaxArrivals + 1} : SubmitPreference(t, u, k, p, time)
    \/ Register(t)
    \/ ReadHistory(t)
    \/ ExtractionFails(t)
    \/ StoreMemory(t)
    \/ AppendEvidence(t)
    \/ TrimEvidence(t)

Spec == Init /\ [][Next]_vars

------------------------------------------------------------------------------
\* A history is what is left of everything appended to it after dropping the
\* oldest, although the drop is a step of its own and other requests append in
\* between; while drops are due it exceeds its size by no more than those.
HistoryIsRecent ==
  \A u \in Users :
    LET due == {t \in Threads : task[t].pc = "trim" /\ task[t].event.user = u}
    IN  /\ IsSuffix(history[u], appended[u])
        /\ Len(history[u]) <= MaxHistory + Cardinality(due)
        /\ Len(history[u]) >= Min({MaxHistory, Len(appended[u])})

\* No evidence is mixed up: a memory rests on events this user submitted about
\* its content, what was stated rests on statements alone, and a habit on at
\* least two submissions of behaviour.  Histories hold events about everything,
\* the window is cut before content is compared, and a statement that names the
\* content is counted among the evidence of a habit, though it scores nothing.
SourcesAreOwn ==
  \A u \in Users : \A f \in FactsOf(u) :
    LET behaviour == {e \in learnt[u][f] : Behavioral(e)}
    IN  /\ \A e \in learnt[u][f] : e.user = u /\ Content(e) = f[2]
        /\ IF f[1] = "candidate_preference" THEN Cardinality(behaviour) >= 2
           ELSE behaviour = {}

\* A client may repeat a request that failed: unless an event is sent again
\* after it was answered, no event is in the evidence history twice, whatever
\* failed before (process_event appends last, after the steps that can fail).
RetriesCountOnce ==
  \A u \in Users \ resent : \A i, j \in DOMAIN appended[u] :
    appended[u][i].id = appended[u][j].id => i = j

\* What an idempotency key stands for never changes, and whatever reached the
\* history came under the key it is registered with, unless two requests used
\* the key at once (the look-up and the registration are two accesses).
HistoryMatchesKeys ==
  \A u \in Users : \A i \in DOMAIN appended[u] :
    LET k == appended[u][i].id.key
    IN  k \notin raced => k \in DOMAIN keys /\ keys[k] = appended[u][i].id

\* Enough evidence is a memory: when the last event of a user whose requests
\* never overlapped is about some content, and the window then had a score
\* beyond the threshold, that evidence is in a memory of that content.  The
\* trimmed history must have been enough to see it.
LearningIsSettled ==
  \A u \in Users \ overlapped :
    appended[u] # <<>> /\ ~(\E e \in Underway : e.user = u) =>
      LET e == Last(appended[u])
          evidence == Supporting(Newest(Front(appended[u])), e)
          fact == <<"candidate_preference", Content(e)>>
      IN  /\ Behavioral(e) /\ e.id.payload.valid /\ e.id.payload.type # "none"
          /\ Score(evidence) > BEHAVIOR_MEMORY_THRESHOLD
          => fact \in FactsOf(u) /\ evidence \subseteq learnt[u][fact]

\* A habit takes more than one event: an event submitted again under its key is
\* the same event, and adds no evidence.
OneEventIsNoHabit ==
  \A u \in Users : \A f \in FactsOf(u) :
    f[1] = "candidate_preference" =>
      \E d, e \in learnt[u][f] : d.id # e.id
==============================================================================
