-------------------------- MODULE EventPipelineProofs --------------------------
(***************************************************************************)
(* Theorems about EventPipeline, for every number of threads, users, keys  *)
(* and payloads, every window and every size of the history, whichever     *)
(* requests fail and however they interleave.                              *)
(***************************************************************************)
EXTENDS EventPipeline, FiniteSetTheorems, WellFoundedInduction, TLAPS

------------------------------------------------------------------------------
(* Each invariant is of two kinds of state: what the stores hold, and what a  *)
(* request under way stands for.                                               *)

Busy(t) == task[t] # Idle
Key(t) == task[t].event.id.key

\* A request about to store has a candidate that policy lets pass.
StorableOK(w) ==
  w.pc = "store" =>
    /\ w.candidate.type \in MemoryTypes
    /\ w.candidate.sources \in (SUBSET Event) \ {{}}

Typed ==
  /\ TypeOK
  /\ \A t \in Threads : Busy(t) => StorableOK(task[t])

\* The stages a request passes once its key is registered.
Registered == {"read", "store", "append", "trim"}

\* Unless two requests used a key at once, it has one request at most, which
\* found it unknown if it is yet to register it, and registered otherwise.
KeysInStep ==
  /\ \A s, t \in Threads :
       s # t /\ Busy(s) /\ Busy(t) /\ Key(s) = Key(t) => Key(t) \in raced
  /\ \A t \in Threads : Busy(t) /\ Key(t) \notin raced =>
       /\ task[t].pc = "register" => Key(t) \notin DOMAIN keys
       /\ task[t].pc \in Registered =>
            Key(t) \in DOMAIN keys /\ keys[Key(t)] = task[t].event.id

\* The request of t is for event id of user u.
Serves(t, u, id) == Busy(t) /\ task[t].event.user = u /\ task[t].event.id = id

\* Event id of user u is appended and about to be answered.
Landing(u, id) == \E t \in Threads : Serves(t, u, id) /\ task[t].pc = "trim"

\* A user who repeated nothing without need: what was appended was answered or
\* is about to be, and what is under way is under way once, not answered, and
\* not appended before its turn.
CountedOnce(u) ==
  /\ \A i, j \in DOMAIN appended[u] : appended[u][i].id = appended[u][j].id => i = j
  /\ \A i \in DOMAIN appended[u] :
       \/ <<u, appended[u][i].id>> \in answered
       \/ Landing(u, appended[u][i].id)
  /\ \A t \in Threads : \A id : Serves(t, u, id) =>
       /\ <<u, id>> \notin answered
       /\ \A s \in Threads : Serves(s, u, id) => s = t
       /\ task[t].pc # "trim" => \A i \in DOMAIN appended[u] : appended[u][i].id # id

Once == \A u \in Users \ resent : CountedOnce(u)

------------------------------------------------------------------------------
(* What extraction returns.                                                    *)

\* The evidence for a content is some of the history, and the event.
LEMMA SupportingIsEvents ==
  ASSUME NEW h \in Seq(Event), NEW e \in Event
  PROVE  Supporting(h, e) \in (SUBSET Event) \ {{}}
<1> DEFINE all == Append(h, e)
<1>1. all \in Seq(Event) /\ \A i \in DOMAIN all : all[i] \in Event
  OBVIOUS
<1>2. RelevantHistory(h, e) \subseteq Event
  BY <1>1 DEF RelevantHistory, Combined
<1>3. Supporting(h, e) \subseteq Event
  BY <1>2 DEF Supporting
<1>4. Supporting(h, e) # {}
  BY DEF Supporting
<1>5. QED
  BY <1>3, <1>4

\* A candidate policy allows can become a memory.
LEMMA AllowedIsStorable ==
  ASSUME NEW h \in Seq(Event), NEW e \in Event,
         NEW cs \in Extract(h, e), NEW c \in cs, Decide(c) = "allow"
  PROVE  /\ c.type \in MemoryTypes
         /\ c.sources \in (SUBSET Event) \ {{}}
<1> DEFINE Single(type, class, sources) ==
             {[type |-> type, class |-> class, sources |-> sources]}
<1>1. c.type # "correction_signal"
  BY DEF Decide
<1>2. Supporting(h, e) \in (SUBSET Event) \ {{}}
  BY SupportingIsEvents
<1>3. \/ c \in Single("candidate_preference", "standard", Supporting(h, e))
      \/ \E type \in MemoryTypes \cup {"correction_signal"}, class \in {"standard", "sensitive"} :
           c \in Single(type, class, {e})
  BY DEF Extract, MemoryTypes
<1>4. CASE c \in Single("candidate_preference", "standard", Supporting(h, e))
  <2>1. c.type = "candidate_preference" /\ c.sources = Supporting(h, e)
    BY <1>4
  <2>2. QED
    BY <2>1, <1>2 DEF MemoryTypes
<1>5. CASE \E type \in MemoryTypes \cup {"correction_signal"}, class \in {"standard", "sensitive"} :
             c \in Single(type, class, {e})
  <2>1. c.type \in MemoryTypes \cup {"correction_signal"} /\ c.sources = {e}
    BY <1>5
  <2>2. {e} \in (SUBSET Event) \ {{}}
    OBVIOUS
  <2>3. QED
    BY <1>1, <2>1, <2>2
<1>6. QED
  BY <1>3, <1>4, <1>5

------------------------------------------------------------------------------
(* The inductive invariant holds initially.                                    *)

LEMMA InitTyped == Init => Typed
<1> SUFFICES ASSUME Init PROVE Typed
  OBVIOUS
<1>1. \A t \in Threads : ~Busy(t)
  BY DEF Init, Busy
<1>2. TypeOK
  BY <1>1, MaxArrivalsAssumption DEF Init, TypeOK, FactsOf, Busy
<1>3. QED
  BY <1>1, <1>2 DEF Typed

LEMMA InitKeys == Init => KeysInStep /\ HistoryMatchesKeys
  BY DEF Init, KeysInStep, HistoryMatchesKeys, Busy

LEMMA InitOnce == Init => Once
  BY DEF Init, Once, CountedOnce, Landing, Serves, Busy

------------------------------------------------------------------------------
(* What the steps of a request do to the requests under way.                   *)

\* A request that begins is of its event; the others are as before.
LEMMA IngestMoves ==
  ASSUME TypeOK, NEW t \in Threads, NEW e \in Event, Ingest(t, e)
  PROVE  /\ task[t] = Idle
         /\ \/ UNCHANGED <<task, overlapped, resent, raced>>
            \/ /\ Begins(e)
               /\ \/ /\ e.id.key \notin DOMAIN keys
                     /\ task' = [task EXCEPT ![t] = [pc |-> "register", event |-> e]]
                  \/ /\ e.id.key \in DOMAIN keys /\ keys[e.id.key] = e.id
                     /\ \E pc \in {"read", "append"} :
                          task' = [task EXCEPT ![t] = [pc |-> pc, event |-> e]]
  BY DEF Ingest, AfterIngestion

\* Both routes submit events.
LEMMA SubmissionsAreEvents ==
  ASSUME TypeOK, NEW t \in Threads, NEW u \in Users, NEW k \in Keys, NEW p \in Payloads,
         \/ SubmitEvent(t, u, k, p)
         \/ \E time \in {0, MaxArrivals + 1} : SubmitPreference(t, u, k, p, time)
  PROVE  \E e \in Event : Ingest(t, e)
<1>1. CASE SubmitEvent(t, u, k, p)
  <2> DEFINE e == [at |-> arrivals + 1, user |-> u, time |-> arrivals + 1,
                   id |-> [key |-> k, payload |-> p, call |-> 0]]
  <2>1. Ingest(t, e)
    BY <1>1 DEF SubmitEvent
  <2>2. arrivals + 1 \in Arrivals /\ arrivals + 1 \in 0 .. MaxArrivals + 1
    BY <2>1, MaxArrivalsAssumption DEF Ingest, TypeOK, Arrivals
  <2>3. e \in Event
    BY <2>2, MaxArrivalsAssumption DEF Event, EventId
  <2>4. QED
    BY <2>1, <2>3
<1>2. CASE \E time \in {0, MaxArrivals + 1} : SubmitPreference(t, u, k, p, time)
  <2>1. PICK time \in {0, MaxArrivals + 1} : SubmitPreference(t, u, k, p, time)
    BY <1>2
  <2> DEFINE e == [at |-> arrivals + 1, user |-> u, time |-> time,
                   id |-> [key |-> k, payload |-> p, call |-> arrivals + 1]]
  <2>2. Ingest(t, e)
    BY <2>1 DEF SubmitPreference
  <2>3. arrivals + 1 \in Arrivals /\ arrivals + 1 \in 0 .. MaxArrivals
    BY <2>2, MaxArrivalsAssumption DEF Ingest, TypeOK, Arrivals
  <2>4. time \in 0 .. MaxArrivals + 1
    BY MaxArrivalsAssumption
  <2>5. e \in Event
    BY <2>3, <2>4 DEF Event, EventId
  <2>6. QED
    BY <2>2, <2>5
<1>3. QED
  BY <1>1, <1>2

\* A step is a submission or a step of a request under way.
LEMMA StepCases ==
  ASSUME TypeOK, Next
  PROVE  \E t \in Threads :
           \/ \E e \in Event : Ingest(t, e)
           \/ Register(t) \/ ReadHistory(t) \/ ExtractionFails(t) \/ StoreMemory(t)
           \/ AppendEvidence(t) \/ TrimEvidence(t)
  BY SubmissionsAreEvents DEF Next

\* A step of a request under way: it goes on with its event, or returns.
GoesOn(t, pcs) ==
  /\ Busy(t)
  /\ \E pc \in pcs : \E w : /\ task' = [task EXCEPT ![t] = w]
                            /\ w.pc = pc /\ w.event = task[t].event

LEMMA PcOfIdle == \A w : w.pc \in Pc => w # Idle
  BY DEF Pc, Idle

LEMMA GotoMoves ==
  ASSUME NEW t \in Threads, NEW pc, Busy(t), Goto(t, pc)
  PROVE  GoesOn(t, {pc})
<1> DEFINE w == [pc |-> pc, event |-> task[t].event]
<1>1. task' = [task EXCEPT ![t] = w] /\ w.pc = pc /\ w.event = task[t].event
  BY DEF Goto
<1>2. QED
  BY <1>1 DEF GoesOn

LEMMA RegisterMoves ==
  ASSUME NEW t \in Threads, Register(t)
  PROVE  GoesOn(t, {"read", "append"})
<1>1. Busy(t)
  BY PcOfIdle DEF Register, Busy, Pc
<1>2. PICK pc \in {"read", "append"} : Goto(t, pc)
  BY DEF Register, AfterIngestion
<1>3. QED
  BY <1>1, <1>2, GotoMoves DEF GoesOn

LEMMA ReadMoves ==
  ASSUME NEW t \in Threads, ReadHistory(t)
  PROVE  GoesOn(t, {"store", "append"})
<1>1. Busy(t)
  BY PcOfIdle DEF ReadHistory, Busy, Pc
<1>2. CASE Goto(t, "append")
  BY <1>1, <1>2, GotoMoves DEF GoesOn
<1>3. CASE \E c : task' = [task EXCEPT ![t] =
                [pc |-> "store", event |-> task[t].event, candidate |-> c]]
  <2>1. PICK c : task' = [task EXCEPT ![t] =
                   [pc |-> "store", event |-> task[t].event, candidate |-> c]]
    BY <1>3
  <2> DEFINE w == [pc |-> "store", event |-> task[t].event, candidate |-> c]
  <2>2. task' = [task EXCEPT ![t] = w] /\ w.pc = "store" /\ w.event = task[t].event
    BY <2>1
  <2>3. QED
    BY <1>1, <2>2 DEF GoesOn
<1>4. QED
  BY <1>2, <1>3 DEF ReadHistory

LEMMA FailureReturns ==
  ASSUME NEW t \in Threads, ExtractionFails(t)
  PROVE  /\ Busy(t) /\ task[t].pc = "read" /\ Return(t)
         /\ UNCHANGED <<arrivals, keys, history, learnt, answered, appended,
                        overlapped, resent, raced>>
  BY PcOfIdle DEF ExtractionFails, Busy, Pc

LEMMA StoreMoves ==
  ASSUME NEW t \in Threads, StoreMemory(t)
  PROVE  GoesOn(t, {"append"}) \/ (Busy(t) /\ Return(t))
<1>1. Busy(t)
  BY PcOfIdle DEF StoreMemory, Busy, Pc
<1>2. QED
  BY <1>1, GotoMoves DEF StoreMemory

LEMMA AppendMoves ==
  ASSUME NEW t \in Threads, AppendEvidence(t)
  PROVE  GoesOn(t, {"trim"})
<1>1. Busy(t)
  BY PcOfIdle DEF AppendEvidence, Busy, Pc
<1>2. QED
  BY <1>1, GotoMoves DEF AppendEvidence

------------------------------------------------------------------------------
(* Type correctness.                                                           *)

\* A new value of t's request keeps the table of requests sound.
LEMMA TaskTyped ==
  ASSUME Typed, NEW t \in Threads, NEW w, w.pc \in Pc, w.event \in Event,
         StorableOK(w), task' = [task EXCEPT ![t] = w]
  PROVE  /\ DOMAIN task' = Threads
         /\ \A s \in Threads : task'[s] # Idle =>
              /\ task'[s].pc \in Pc /\ task'[s].event \in Event
              /\ StorableOK(task'[s])
<1>1. DOMAIN task = Threads
  BY DEF Typed, TypeOK
<1>2. task'[t] = w /\ \A s \in Threads \ {t} : task'[s] = task[s]
  BY <1>1
<1>3. \A s \in Threads : task[s] # Idle =>
        task[s].pc \in Pc /\ task[s].event \in Event /\ StorableOK(task[s])
  BY DEF Typed, TypeOK, Busy
<1>4. QED
  BY <1>1, <1>2, <1>3

\* So does its end.
LEMMA ReturnTyped ==
  ASSUME Typed, NEW t \in Threads, Return(t)
  PROVE  /\ DOMAIN task' = Threads
         /\ \A s \in Threads : task'[s] # Idle =>
              /\ task'[s].pc \in Pc /\ task'[s].event \in Event
              /\ StorableOK(task'[s])
<1>1. DOMAIN task = Threads
  BY DEF Typed, TypeOK
<1>2. DOMAIN task' = Threads /\ task'[t] = Idle /\ \A s \in Threads \ {t} : task'[s] = task[s]
  BY <1>1 DEF Return
<1>3. \A s \in Threads : task[s] # Idle =>
        task[s].pc \in Pc /\ task[s].event \in Event /\ StorableOK(task[s])
  BY DEF Typed, TypeOK, Busy
<1>4. QED
  BY <1>1, <1>2, <1>3

LEMMA SameTasksTyped ==
  ASSUME Typed, UNCHANGED task
  PROVE  /\ DOMAIN task' = Threads
         /\ \A s \in Threads : task'[s] # Idle =>
              /\ task'[s].pc \in Pc /\ task'[s].event \in Event
              /\ StorableOK(task'[s])
  BY DEF Typed, TypeOK, Busy

\* What an event is made of.
LEMMA EventParts ==
  ASSUME NEW e \in Event
  PROVE  e.user \in Users /\ e.id \in EventId /\ e.id.key \in Keys
  BY DEF Event, EventId

\* The requests under way are the ones of the threads.
LEMMA UnderwayEvents ==
  Underway = {task[t].event : t \in {s \in Threads : Busy(s)}}
  BY DEF Underway, Busy

\* What begins to be served is recorded about users and keys.
LEMMA BeginsTyped ==
  ASSUME TypeOK, NEW e \in Event, Begins(e)
  PROVE  overlapped' \cup resent' \subseteq Users /\ raced' \subseteq Keys
  BY EventParts DEF TypeOK, Begins

LEMMA IngestTyped ==
  ASSUME Typed, NEW t \in Threads, NEW e \in Event, Ingest(t, e)
  PROVE  Typed'
<1>1. /\ UNCHANGED <<keys, history, learnt, answered, appended>>
      /\ arrivals' = arrivals + 1 /\ arrivals < MaxArrivals
  BY DEF Ingest
<1>2. arrivals' \in 0 .. MaxArrivals
  BY <1>1, MaxArrivalsAssumption DEF Typed, TypeOK
<1>3. \/ UNCHANGED <<task, overlapped, resent, raced>>
      \/ /\ Begins(e)
         /\ \E pc \in {"register", "read", "append"} :
              task' = [task EXCEPT ![t] = [pc |-> pc, event |-> e]]
  BY IngestMoves DEF Typed
<1>4. overlapped' \cup resent' \subseteq Users /\ raced' \subseteq Keys
  BY <1>3, BeginsTyped DEF Typed, TypeOK
<1>5. /\ DOMAIN task' = Threads
      /\ \A s \in Threads : task'[s] # Idle =>
           /\ task'[s].pc \in Pc /\ task'[s].event \in Event
           /\ StorableOK(task'[s])
  <2>1. CASE UNCHANGED task
    BY <2>1, SameTasksTyped
  <2>2. CASE \E pc \in {"register", "read", "append"} :
               task' = [task EXCEPT ![t] = [pc |-> pc, event |-> e]]
    <3>1. PICK pc \in {"register", "read", "append"} :
                 task' = [task EXCEPT ![t] = [pc |-> pc, event |-> e]]
      BY <2>2
    <3> DEFINE w == [pc |-> pc, event |-> e]
    <3>2. w.pc \in Pc /\ w.event \in Event /\ StorableOK(w)
      BY DEF Pc, StorableOK
    <3>3. QED
      BY <3>1, <3>2, TaskTyped
  <2>3. QED
    BY <1>3, <2>1, <2>2
<1>6. QED
  BY <1>1, <1>2, <1>4, <1>5 DEF Typed, TypeOK, Busy, FactsOf

LEMMA RegisterTyped ==
  ASSUME Typed, NEW t \in Threads, Register(t)
  PROVE  Typed'
<1> DEFINE e == task[t].event
<1>1. e \in Event
  BY RegisterMoves DEF GoesOn, Busy, Typed, TypeOK
<1>2. /\ UNCHANGED <<arrivals, history, learnt, answered, appended, overlapped, resent, raced>>
      /\ keys' = [k \in DOMAIN keys \cup {e.id.key} |->
                    IF k = e.id.key THEN e.id ELSE keys[k]]
      /\ Goto(t, AfterIngestion(e))
  BY DEF Register
<1>3. DOMAIN keys' \subseteq Keys /\ \A k \in DOMAIN keys' : keys'[k] \in EventId /\ keys'[k].key = k
  BY <1>1, <1>2, EventParts DEF Typed, TypeOK
<1>4. /\ DOMAIN task' = Threads
      /\ \A s \in Threads : task'[s] # Idle =>
           /\ task'[s].pc \in Pc /\ task'[s].event \in Event
           /\ StorableOK(task'[s])
  <2> DEFINE w == [pc |-> AfterIngestion(e), event |-> e]
  <2>1. w.pc \in Pc /\ w.event \in Event /\ StorableOK(w)
    BY <1>1 DEF Pc, StorableOK, AfterIngestion
  <2>2. QED
    BY <1>2, <2>1, TaskTyped DEF Goto
<1>5. QED
  BY <1>2, <1>3, <1>4 DEF Typed, TypeOK, Busy, FactsOf
LEMMA ReadTyped ==
  ASSUME Typed, NEW t \in Threads, ReadHistory(t)
  PROVE  Typed'
<1> DEFINE e == task[t].event
<1>1. e \in Event /\ e.user \in Users
  BY ReadMoves, EventParts DEF GoesOn, Busy, Typed, TypeOK
<1>2. history[e.user] \in Seq(Event)
  BY <1>1 DEF Typed, TypeOK
<1>3. UNCHANGED <<arrivals, keys, history, learnt, answered, appended, overlapped, resent, raced>>
  BY DEF ReadHistory
<1>4. /\ DOMAIN task' = Threads
      /\ \A s \in Threads : task'[s] # Idle =>
           /\ task'[s].pc \in Pc /\ task'[s].event \in Event
           /\ StorableOK(task'[s])
  <2>1. CASE Goto(t, "append")
    <3> DEFINE w == [pc |-> "append", event |-> e]
    <3>1. w.pc \in Pc /\ w.event \in Event /\ StorableOK(w)
      BY <1>1 DEF Pc, StorableOK
    <3>2. QED
      BY <2>1, <3>1, TaskTyped DEF Goto
  <2>2. CASE ~Goto(t, "append")
    <3>1. PICK candidates \in Extract(history[e.user], e) : \E c \in candidates :
            /\ Decide(c) = "allow"
            /\ task' = [task EXCEPT ![t] = [pc |-> "store", event |-> e, candidate |-> c]]
      BY <2>2 DEF ReadHistory
    <3>2. PICK c \in candidates :
            /\ Decide(c) = "allow"
            /\ task' = [task EXCEPT ![t] = [pc |-> "store", event |-> e, candidate |-> c]]
      BY <3>1
    <3> DEFINE w == [pc |-> "store", event |-> e, candidate |-> c]
    <3>3. c.type \in MemoryTypes /\ c.sources \in (SUBSET Event) \ {{}}
      BY <1>1, <1>2, <3>2, AllowedIsStorable
    <3>4. w.pc \in Pc /\ w.event \in Event /\ StorableOK(w)
      BY <1>1, <3>3 DEF Pc, StorableOK
    <3>5. QED
      BY <3>2, <3>4, TaskTyped
  <2>3. QED
    BY <2>1, <2>2
<1>5. QED
  BY <1>3, <1>4 DEF Typed, TypeOK, Busy, FactsOf

LEMMA FailureTyped ==
  ASSUME Typed, NEW t \in Threads, ExtractionFails(t)
  PROVE  Typed'
  BY FailureReturns, ReturnTyped DEF Typed, TypeOK, Busy, FactsOf

LEMMA StoreTyped ==
  ASSUME Typed, NEW t \in Threads, StoreMemory(t)
  PROVE  Typed'
<1> DEFINE e == task[t].event
           c == task[t].candidate
           f == Fact(c, e)
<1>1. Busy(t) /\ task[t].pc = "store"
  BY PcOfIdle DEF StoreMemory, Busy, Pc
<1>2. e \in Event /\ e.user \in Users
  BY <1>1, EventParts DEF Busy, Typed, TypeOK
<1>3. c.type \in MemoryTypes /\ c.sources \in (SUBSET Event) \ {{}}
  BY <1>1 DEF Typed, StorableOK
<1>4. /\ UNCHANGED <<arrivals, keys, history, answered, appended, overlapped, resent, raced>>
      /\ Learn(e.user, f, c.sources)
      /\ Goto(t, "append") \/ Return(t)
  BY DEF StoreMemory
<1>5. /\ DOMAIN task' = Threads
      /\ \A s \in Threads : task'[s] # Idle =>
           /\ task'[s].pc \in Pc /\ task'[s].event \in Event
           /\ StorableOK(task'[s])
  <2>1. CASE Goto(t, "append")
    <3> DEFINE w == [pc |-> "append", event |-> e]
    <3>1. w.pc \in Pc /\ w.event \in Event /\ StorableOK(w)
      BY <1>2 DEF Pc, StorableOK
    <3>2. QED
      BY <2>1, <3>1, TaskTyped DEF Goto
  <2>2. CASE Return(t)
    BY <2>2, ReturnTyped
  <2>3. QED
    BY <1>4, <2>1, <2>2
<1>6. /\ DOMAIN learnt' = Users
      /\ \A u \in Users : \A g \in DOMAIN learnt'[u] :
           g[1] \in MemoryTypes /\ learnt'[u][g] \in (SUBSET Event) \ {{}}
  <2>1. /\ DOMAIN learnt = Users
        /\ \A u \in Users : \A g \in DOMAIN learnt[u] :
             g[1] \in MemoryTypes /\ learnt[u][g] \in (SUBSET Event) \ {{}}
    BY DEF Typed, TypeOK, FactsOf
  <2>2. f[1] \in MemoryTypes
    BY <1>3 DEF Fact
  <2>3. Known(e.user, f) \cup c.sources \in (SUBSET Event) \ {{}}
    BY <1>2, <1>3, <2>1 DEF Known, FactsOf
  <2> DEFINE own == [g \in FactsOf(e.user) \cup {f} |->
                       IF g = f THEN Known(e.user, f) \cup c.sources ELSE learnt[e.user][g]]
  <2>4. learnt' = [learnt EXCEPT ![e.user] = own]
    BY <1>4 DEF Learn
  <2>5. \A g \in DOMAIN own :
          g[1] \in MemoryTypes /\ own[g] \in (SUBSET Event) \ {{}}
    BY <1>2, <2>1, <2>2, <2>3 DEF FactsOf
  <2>6. DOMAIN learnt' = Users /\ learnt'[e.user] = own
        /\ \A u \in Users \ {e.user} : learnt'[u] = learnt[u]
    BY <1>2, <2>1, <2>4
  <2>7. QED
    BY <2>1, <2>5, <2>6
<1>7. QED
  BY <1>4, <1>5, <1>6 DEF Typed, TypeOK, Busy, FactsOf

\* What is kept of a history is a history.
LEMMA NewestTyped ==
  ASSUME NEW s \in Seq(Event)
  PROVE  Newest(s) \in Seq(Event)
<1>1. CASE Len(s) > MaxHistory
  <2>1. Len(s) - MaxHistory + 1 \in 1 .. Len(s) + 1
    BY <1>1, MaxHistoryAssumption
  <2>2. \A i \in (Len(s) - MaxHistory + 1) .. Len(s) : s[i] \in Event
    BY <2>1
  <2>3. QED
    BY <1>1, <2>1, <2>2, MaxHistoryAssumption DEF Newest
<1>2. QED
  BY <1>1 DEF Newest

LEMMA AppendTyped ==
  ASSUME Typed, NEW t \in Threads, AppendEvidence(t)
  PROVE  Typed'
<1> DEFINE e == task[t].event
<1>1. e \in Event /\ e.user \in Users
  BY AppendMoves, EventParts DEF GoesOn, Busy, Typed, TypeOK
<1>2. /\ UNCHANGED <<arrivals, keys, learnt, answered, overlapped, resent, raced>>
      /\ history' = [history EXCEPT ![e.user] = Append(@, e)]
      /\ appended' = [appended EXCEPT ![e.user] = Append(@, e)]
      /\ Goto(t, "trim")
  BY DEF AppendEvidence
<1>3. /\ DOMAIN task' = Threads
      /\ \A s \in Threads : task'[s] # Idle =>
           /\ task'[s].pc \in Pc /\ task'[s].event \in Event
           /\ StorableOK(task'[s])
  <2> DEFINE w == [pc |-> "trim", event |-> e]
  <2>1. w.pc \in Pc /\ w.event \in Event /\ StorableOK(w)
    BY <1>1 DEF Pc, StorableOK
  <2>2. QED
    BY <1>2, <2>1, TaskTyped DEF Goto
<1>4. /\ DOMAIN history' = Users /\ DOMAIN appended' = Users
      /\ \A u \in Users : history'[u] \in Seq(Event) /\ appended'[u] \in Seq(Event)
  BY <1>1, <1>2 DEF Typed, TypeOK
<1>5. QED
  BY <1>2, <1>3, <1>4 DEF Typed, TypeOK, Busy, FactsOf

LEMMA TrimTyped ==
  ASSUME Typed, NEW t \in Threads, TrimEvidence(t)
  PROVE  Typed'
<1> DEFINE e == task[t].event
<1>1. e \in Event /\ e.user \in Users /\ e.id \in EventId
  BY PcOfIdle, EventParts DEF TrimEvidence, Busy, Pc, Typed, TypeOK
<1>2. /\ UNCHANGED <<arrivals, keys, learnt, appended, overlapped, resent, raced>>
      /\ history' = [history EXCEPT ![e.user] = Newest(@)]
      /\ answered' = answered \cup {<<e.user, e.id>>}
      /\ Return(t)
  BY DEF TrimEvidence
<1>3. /\ DOMAIN history' = Users
      /\ \A u \in Users : history'[u] \in Seq(Event)
  BY <1>1, <1>2, NewestTyped DEF Typed, TypeOK
<1>4. answered' \subseteq Users \X EventId
  BY <1>1, <1>2 DEF Typed, TypeOK
<1>5. QED
  BY <1>2, <1>3, <1>4, ReturnTyped DEF Typed, TypeOK, Busy, FactsOf

\* Whatever a step is, the types stay.
LEMMA StepTyped == Typed /\ [Next]_vars => Typed'
<1> SUFFICES ASSUME Typed, [Next]_vars PROVE Typed'
  OBVIOUS
<1>1. CASE UNCHANGED vars
  BY <1>1 DEF Typed, TypeOK, vars, Busy, FactsOf
<1>2. CASE Next
  <2>1. TypeOK
    BY DEF Typed
  <2>2. PICK t \in Threads :
           \/ \E e \in Event : Ingest(t, e)
           \/ Register(t) \/ ReadHistory(t) \/ ExtractionFails(t) \/ StoreMemory(t)
           \/ AppendEvidence(t) \/ TrimEvidence(t)
    BY <1>2, <2>1, StepCases
  <2>3. QED
    BY <2>2, IngestTyped, RegisterTyped, ReadTyped, FailureTyped, StoreTyped, AppendTyped, TrimTyped
<1>3. QED
  BY <1>1, <1>2

\* The stores, the requests and what is remembered of them are always of their
\* types; a memory never rests on no evidence.
THEOREM TypeCorrect == Spec => []TypeOK
<1>1. Init => Typed
  BY InitTyped
<1>2. Typed /\ [Next]_vars => Typed'
  BY StepTyped
<1>3. Typed => TypeOK
  BY DEF Typed
<1>4. QED
  BY <1>1, <1>2, <1>3, PTL DEF Spec
------------------------------------------------------------------------------
(* What a step leaves of the other requests.                                   *)

LEMMA GoesOnKeeps ==
  ASSUME TypeOK, NEW t \in Threads, NEW pcs \in SUBSET Pc, GoesOn(t, pcs)
  PROVE  /\ task'[t].pc \in pcs /\ Busy(t) /\ Busy(t)'
         /\ task'[t].event = task[t].event
         /\ \A s \in Threads \ {t} : task'[s] = task[s]
         /\ \A s \in Threads : Busy(s)' <=> Busy(s)
         /\ \A s \in Threads : task'[s].event = task[s].event
<1>1. PICK pc \in pcs : \E w : /\ task' = [task EXCEPT ![t] = w]
                               /\ w.pc = pc /\ w.event = task[t].event
  BY DEF GoesOn
<1>2. PICK w : /\ task' = [task EXCEPT ![t] = w]
               /\ w.pc = pc /\ w.event = task[t].event
  BY <1>1
<1>3. DOMAIN task = Threads
  BY DEF TypeOK
<1>4. w # Idle
  BY <1>2, PcOfIdle
<1>5. task'[t] = w /\ \A s \in Threads \ {t} : task'[s] = task[s]
  BY <1>2, <1>3
<1>6. QED
  BY <1>2, <1>4, <1>5 DEF Busy, GoesOn

LEMMA ReturnKeeps ==
  ASSUME TypeOK, NEW t \in Threads, Return(t)
  PROVE  /\ ~Busy(t)'
         /\ \A s \in Threads \ {t} : task'[s] = task[s]
         /\ \A s \in Threads \ {t} : Busy(s)' <=> Busy(s)
<1>1. DOMAIN task = Threads
  BY DEF TypeOK
<1>2. task'[t] = Idle /\ \A s \in Threads \ {t} : task'[s] = task[s]
  BY <1>1 DEF Return
<1>3. QED
  BY <1>2 DEF Busy

LEMMA BeginsKeeps ==
  ASSUME TypeOK, NEW t \in Threads, NEW e \in Event, NEW pc \in Pc,
         task' = [task EXCEPT ![t] = [pc |-> pc, event |-> e]]
  PROVE  /\ task'[t].pc = pc /\ task'[t].event = e /\ Busy(t)'
         /\ \A s \in Threads \ {t} : task'[s] = task[s]
         /\ \A s \in Threads \ {t} : Busy(s)' <=> Busy(s)
<1> DEFINE w == [pc |-> pc, event |-> e]
<1>1. DOMAIN task = Threads
  BY DEF TypeOK
<1>2. w # Idle /\ w.pc = pc /\ w.event = e
  BY PcOfIdle
<1>3. task'[t] = w /\ \A s \in Threads \ {t} : task'[s] = task[s]
  BY <1>1
<1>4. QED
  BY <1>2, <1>3 DEF Busy

------------------------------------------------------------------------------
(* Idempotency keys.                                                           *)

KeysInv == KeysInStep /\ HistoryMatchesKeys

LEMMA IngestKeys ==
  ASSUME TypeOK, KeysInv, NEW t \in Threads, NEW e \in Event, Ingest(t, e)
  PROVE  KeysInv'
<1>1. UNCHANGED <<keys, appended>>
  BY DEF Ingest
<1>2. CASE UNCHANGED <<task, overlapped, resent, raced>>
  BY <1>1, <1>2 DEF KeysInv, KeysInStep, HistoryMatchesKeys, Busy, Key
<1>3. CASE /\ Begins(e)
           /\ \E pc \in Pc :
                /\ pc = "register" => e.id.key \notin DOMAIN keys
                /\ pc \in Registered => e.id.key \in DOMAIN keys /\ keys[e.id.key] = e.id
                /\ task' = [task EXCEPT ![t] = [pc |-> pc, event |-> e]]
  <2>1. PICK pc \in Pc :
          /\ pc = "register" => e.id.key \notin DOMAIN keys
          /\ pc \in Registered => e.id.key \in DOMAIN keys /\ keys[e.id.key] = e.id
          /\ task' = [task EXCEPT ![t] = [pc |-> pc, event |-> e]]
    BY <1>3
  <2>2. /\ task'[t].pc = pc /\ task'[t].event = e /\ Busy(t)'
        /\ \A s \in Threads \ {t} : task'[s] = task[s]
        /\ \A s \in Threads \ {t} : Busy(s)' <=> Busy(s)
    BY <2>1, BeginsKeeps
  <2>3. raced \subseteq raced'
    BY <1>3 DEF Begins
  <2>4. \A s \in Threads \ {t} : Busy(s) /\ Key(s) = e.id.key => e.id.key \in raced'
    BY <1>3, UnderwayEvents DEF Begins, Key
  <2>5. \A r, s \in Threads :
          r # s /\ Busy(r)' /\ Busy(s)' /\ Key(r)' = Key(s)' => Key(s)' \in raced'
    BY <2>2, <2>3, <2>4 DEF KeysInv, KeysInStep, Key
  <2>6. \A s \in Threads : Busy(s)' /\ Key(s)' \notin raced' =>
          /\ task'[s].pc = "register" => Key(s)' \notin DOMAIN keys'
          /\ task'[s].pc \in Registered =>
               Key(s)' \in DOMAIN keys' /\ keys'[Key(s)'] = task'[s].event.id
    <3> SUFFICES ASSUME NEW s \in Threads, Busy(s)', Key(s)' \notin raced'
                 PROVE  /\ task'[s].pc = "register" => Key(s)' \notin DOMAIN keys'
                        /\ task'[s].pc \in Registered =>
                             Key(s)' \in DOMAIN keys' /\ keys'[Key(s)'] = task'[s].event.id
      OBVIOUS
    <3>1. CASE s = t
      BY <1>1, <2>1, <2>2, <3>1 DEF Key
    <3>2. CASE s # t
      BY <1>1, <2>2, <2>3, <3>2 DEF KeysInv, KeysInStep, Key
    <3>3. QED
      BY <3>1, <3>2
  <2>7. KeysInStep'
    BY <2>5, <2>6 DEF KeysInStep
  <2>8. HistoryMatchesKeys'
    BY <1>1, <2>3 DEF KeysInv, HistoryMatchesKeys
  <2>9. QED
    BY <2>7, <2>8 DEF KeysInv
<1>4. QED
  BY <1>2, <1>3, IngestMoves DEF Registered, Pc

\* Requests that go on after their key was registered keep the keys in step.
LEMMA GoesOnKeys ==
  ASSUME TypeOK, KeysInStep, NEW t \in Threads, task[t].pc \in Registered,
         GoesOn(t, Registered), UNCHANGED <<keys, raced>>
  PROVE  KeysInStep'
<1>1. Registered \in SUBSET Pc
  BY DEF Registered, Pc
<1>2. /\ task'[t].pc \in Registered /\ Busy(t)
      /\ \A s \in Threads \ {t} : task'[s] = task[s]
      /\ \A s \in Threads : Busy(s)' <=> Busy(s)
      /\ \A s \in Threads : task'[s].event = task[s].event
  BY <1>1, GoesOnKeeps
<1>3. \A s \in Threads : Key(s)' = Key(s)
  BY <1>2 DEF Key
<1>4. task'[t].pc # "register"
  BY <1>2 DEF Registered
<1>5. QED
  BY <1>2, <1>3, <1>4 DEF KeysInStep

\* So do requests that return.
LEMMA ReturnKeys ==
  ASSUME TypeOK, KeysInStep, NEW t \in Threads, Return(t), UNCHANGED <<keys, raced>>
  PROVE  KeysInStep'
<1>1. /\ ~Busy(t)'
      /\ \A s \in Threads \ {t} : task'[s] = task[s]
      /\ \A s \in Threads \ {t} : Busy(s)' <=> Busy(s)
  BY ReturnKeeps
<1>2. \A s \in Threads \ {t} : Key(s)' = Key(s)
  BY <1>1 DEF Key
<1>3. QED
  BY <1>1, <1>2 DEF KeysInStep

LEMMA RegisterKeys ==
  ASSUME TypeOK, KeysInv, NEW t \in Threads, Register(t)
  PROVE  KeysInv'
<1> DEFINE e == task[t].event
<1>1. {"read", "append"} \in SUBSET Pc
  BY DEF Pc
<1>2. /\ task[t].pc = "register" /\ UNCHANGED <<appended, raced>>
      /\ keys' = [k \in DOMAIN keys \cup {e.id.key} |->
                    IF k = e.id.key THEN e.id ELSE keys[k]]
  BY DEF Register
<1>3. /\ task'[t].pc \in {"read", "append"} /\ Busy(t)
      /\ \A s \in Threads \ {t} : task'[s] = task[s]
      /\ \A s \in Threads : Busy(s)' <=> Busy(s)
      /\ \A s \in Threads : task'[s].event = task[s].event
  BY <1>1, RegisterMoves, GoesOnKeeps
<1>4. \A s \in Threads : Key(s)' = Key(s)
  BY <1>3 DEF Key
<1>5. keys'[Key(t)] = e.id /\ DOMAIN keys' = DOMAIN keys \cup {Key(t)}
      /\ \A k \in DOMAIN keys \ {Key(t)} : keys'[k] = keys[k]
  BY <1>2 DEF Key
<1>6. \A s \in Threads : Busy(s)' /\ Key(s)' \notin raced' =>
          /\ task'[s].pc = "register" => Key(s)' \notin DOMAIN keys'
          /\ task'[s].pc \in Registered =>
               Key(s)' \in DOMAIN keys' /\ keys'[Key(s)'] = task'[s].event.id
  <2> SUFFICES ASSUME NEW s \in Threads, Busy(s)', Key(s)' \notin raced'
               PROVE  /\ task'[s].pc = "register" => Key(s)' \notin DOMAIN keys'
                      /\ task'[s].pc \in Registered =>
                           Key(s)' \in DOMAIN keys' /\ keys'[Key(s)'] = task'[s].event.id
    OBVIOUS
  <2>1. CASE s = t
    BY <1>3, <1>4, <1>5, <2>1
  <2>2. CASE s # t
    <3>1. Busy(s) /\ Key(s) \notin raced /\ Key(s) # Key(t)
      BY <1>2, <1>3, <1>4, <2>2 DEF KeysInv, KeysInStep
    <3>2. QED
      BY <1>3, <1>4, <1>5, <2>2, <3>1 DEF KeysInv, KeysInStep
  <2>3. QED
    BY <2>1, <2>2
<1>7. KeysInStep'
  <2>1. \A r, s \in Threads :
          r # s /\ Busy(r)' /\ Busy(s)' /\ Key(r)' = Key(s)' => Key(s)' \in raced'
    BY <1>2, <1>3, <1>4 DEF KeysInv, KeysInStep
  <2>2. QED
    BY <1>6, <2>1 DEF KeysInStep
<1>8. HistoryMatchesKeys'
  <2> SUFFICES ASSUME NEW u \in Users, NEW i \in DOMAIN appended[u],
                      appended[u][i].id.key \notin raced
               PROVE  /\ appended[u][i].id.key \in DOMAIN keys'
                      /\ keys'[appended[u][i].id.key] = appended[u][i].id
    BY <1>2 DEF HistoryMatchesKeys
  <2>1. /\ appended[u][i].id.key \in DOMAIN keys
        /\ keys[appended[u][i].id.key] = appended[u][i].id
    BY DEF KeysInv, HistoryMatchesKeys
  <2>2. CASE Key(t) \in raced
    BY <1>5, <2>1, <2>2
  <2>3. CASE Key(t) \notin raced
    <3>1. Key(t) \notin DOMAIN keys
      BY <1>2, <1>3, <2>3 DEF KeysInv, KeysInStep
    <3>2. QED
      BY <1>5, <2>1, <3>1
  <2>4. QED
    BY <2>2, <2>3
<1>9. QED
  BY <1>7, <1>8 DEF KeysInv

LEMMA AppendKeys ==
  ASSUME TypeOK, KeysInv, NEW t \in Threads, AppendEvidence(t)
  PROVE  KeysInv'
<1> DEFINE e == task[t].event
<1>1. /\ task[t].pc = "append" /\ UNCHANGED <<keys, raced>>
      /\ appended' = [appended EXCEPT ![e.user] = Append(@, e)]
  BY DEF AppendEvidence
<1>2. task[t].pc \in Registered /\ GoesOn(t, Registered) /\ Busy(t)
  BY <1>1, AppendMoves DEF GoesOn, Registered
<1>3. KeysInStep'
  BY <1>1, <1>2, GoesOnKeys DEF KeysInv
<1>4. HistoryMatchesKeys'
  <2> SUFFICES ASSUME NEW u \in Users, NEW i \in DOMAIN appended'[u],
                      appended'[u][i].id.key \notin raced
               PROVE  /\ appended'[u][i].id.key \in DOMAIN keys
                      /\ keys[appended'[u][i].id.key] = appended'[u][i].id
    BY <1>1 DEF HistoryMatchesKeys
  <2>1. appended[u] \in Seq(Event) /\ DOMAIN appended = Users
    BY DEF TypeOK
  <2>2. \/ i \in DOMAIN appended[u] /\ appended'[u][i] = appended[u][i]
        \/ appended'[u][i] = e
    <3>1. CASE u = e.user
      <4>1. appended'[u] = Append(appended[u], e)
        BY <1>1, <2>1, <3>1
      <4>2. QED
        BY <2>1, <4>1
    <3>2. CASE u # e.user
      BY <1>1, <2>1, <3>2
    <3>3. QED
      BY <3>1, <3>2
  <2>3. CASE i \in DOMAIN appended[u] /\ appended'[u][i] = appended[u][i]
    BY <2>3 DEF KeysInv, HistoryMatchesKeys
  <2>4. CASE appended'[u][i] = e
    BY <1>2, <2>4 DEF KeysInv, KeysInStep, Key
  <2>5. QED
    BY <2>2, <2>3, <2>4
<1>5. QED
  BY <1>3, <1>4 DEF KeysInv

\* Every step keeps the keys and the history in step.
LEMMA StepKeys == TypeOK /\ KeysInv /\ [Next]_vars => KeysInv'
<1> SUFFICES ASSUME TypeOK, KeysInv, [Next]_vars PROVE KeysInv'
  OBVIOUS
<1>1. CASE UNCHANGED vars
  BY <1>1 DEF vars, KeysInv, KeysInStep, HistoryMatchesKeys, Busy, Key
<1>2. CASE Next
  <2>1. PICK t \in Threads :
           \/ \E e \in Event : Ingest(t, e)
           \/ Register(t) \/ ReadHistory(t) \/ ExtractionFails(t) \/ StoreMemory(t)
           \/ AppendEvidence(t) \/ TrimEvidence(t)
    BY <1>2, StepCases
  <2>2. CASE ReadHistory(t)
    <3>1. task[t].pc \in Registered /\ UNCHANGED <<keys, raced, appended>>
      BY <2>2 DEF ReadHistory, Registered
    <3>2. GoesOn(t, Registered)
      BY <2>2, ReadMoves DEF GoesOn, Registered
    <3>3. QED
      BY <3>1, <3>2, GoesOnKeys DEF KeysInv, HistoryMatchesKeys
  <2>3. CASE StoreMemory(t)
    <3>1. task[t].pc \in Registered /\ UNCHANGED <<keys, raced, appended>>
      BY <2>3 DEF StoreMemory, Registered
    <3>2. GoesOn(t, Registered) \/ Return(t)
      BY <2>3, StoreMoves DEF GoesOn, Registered
    <3>3. KeysInStep'
      <4>1. CASE GoesOn(t, Registered)
        BY <3>1, <4>1, GoesOnKeys DEF KeysInv
      <4>2. CASE Return(t)
        BY <3>1, <4>2, ReturnKeys DEF KeysInv
      <4>3. QED
        BY <3>2, <4>1, <4>2
    <3>4. QED
      BY <3>1, <3>3 DEF KeysInv, HistoryMatchesKeys
  <2>4. CASE TrimEvidence(t)
    <3>1. Return(t) /\ UNCHANGED <<keys, raced, appended>>
      BY <2>4 DEF TrimEvidence
    <3>2. QED
      BY <3>1, ReturnKeys DEF KeysInv, HistoryMatchesKeys
  <2>5. CASE ExtractionFails(t)
    <3>1. Return(t) /\ UNCHANGED <<keys, raced, appended>>
      BY <2>5, FailureReturns
    <3>2. QED
      BY <3>1, ReturnKeys DEF KeysInv, HistoryMatchesKeys
  <2>6. QED
    BY <2>1, <2>2, <2>3, <2>4, <2>5, IngestKeys, RegisterKeys, AppendKeys
<1>3. QED
  BY <1>1, <1>2

\* Whatever reached the history came under the key it is registered with, and
\* that registration is never replaced, unless two requests used the key at
\* once: look-up and registration are two accesses of the store.
THEOREM HistoryFollowsKeys == Spec => []HistoryMatchesKeys
<1>1. Init => KeysInv
  BY InitKeys DEF KeysInv
<1>2. TypeOK /\ KeysInv /\ [Next]_vars => KeysInv'
  BY StepKeys
<1>3. KeysInv => HistoryMatchesKeys
  BY DEF KeysInv
<1>4. QED
  BY <1>1, <1>2, <1>3, TypeCorrect, PTL DEF Spec
------------------------------------------------------------------------------
(* Retries.                                                                    *)

\* Who serves what stays when a request goes on.
LEMMA GoesOnServes ==
  ASSUME TypeOK, NEW t \in Threads, NEW pcs \in SUBSET Pc, GoesOn(t, pcs)
  PROVE  \A s \in Threads : \A u, id : Serves(s, u, id)' <=> Serves(s, u, id)
  BY GoesOnKeeps DEF Serves

\* One that returns serves nobody; the others serve the same.
LEMMA ReturnServes ==
  ASSUME TypeOK, NEW t \in Threads, Return(t)
  PROVE  /\ \A u, id : ~Serves(t, u, id)'
         /\ \A s \in Threads \ {t} : \A u, id : Serves(s, u, id)' <=> Serves(s, u, id)
  BY ReturnKeeps DEF Serves

\* A user whose event begins, without need or not.
LEMMA IngestOnce ==
  ASSUME TypeOK, Once, NEW t \in Threads, NEW e \in Event, Ingest(t, e)
  PROVE  Once'
<1>1. UNCHANGED <<answered, appended>> /\ ~Busy(t)
  BY DEF Ingest, Busy
<1>2. CASE UNCHANGED <<task, overlapped, resent, raced>>
  BY <1>1, <1>2 DEF Once, CountedOnce, Landing, Serves, Busy
<1>3. CASE /\ Begins(e)
           /\ \E pc \in Pc \ {"trim"} : task' = [task EXCEPT ![t] = [pc |-> pc, event |-> e]]
  <2>1. PICK pc \in Pc \ {"trim"} : task' = [task EXCEPT ![t] = [pc |-> pc, event |-> e]]
    BY <1>3
  <2>2. /\ task'[t].pc # "trim" /\ task'[t].event = e /\ Busy(t)'
        /\ \A s \in Threads \ {t} : task'[s] = task[s]
        /\ \A s \in Threads \ {t} : Busy(s)' <=> Busy(s)
    <3>1. pc \in Pc /\ pc # "trim"
      OBVIOUS
    <3>2. /\ task'[t].pc = pc /\ task'[t].event = e /\ Busy(t)'
          /\ \A s \in Threads \ {t} : task'[s] = task[s]
          /\ \A s \in Threads \ {t} : Busy(s)' <=> Busy(s)
      BY <2>1, <3>1, BeginsKeeps
    <3>3. QED
      BY <3>1, <3>2
  <2>3. /\ \A v, id : Serves(t, v, id)' <=> (v = e.user /\ id = e.id)
        /\ \A s \in Threads \ {t} : \A v, id : Serves(s, v, id)' <=> Serves(s, v, id)
    BY <2>2 DEF Serves
  <2>4. \A v, id : ~Serves(t, v, id)
    BY <1>1 DEF Serves
  <2> SUFFICES ASSUME NEW u \in Users \ resent' PROVE CountedOnce(u)'
    BY DEF Once
  <2>5. u \notin resent /\ CountedOnce(u)
    BY <1>3 DEF Begins, Once
  <2>6. u = e.user => /\ <<u, e.id>> \notin answered
                      /\ \A s \in Threads : ~Serves(s, u, e.id)
    BY <1>3, UnderwayEvents DEF Begins, Serves
  <2>7. u = e.user => \A i \in DOMAIN appended[u] : appended[u][i].id # e.id
    BY <2>5, <2>6 DEF CountedOnce, Landing
  <2>8. \A i, j \in DOMAIN appended'[u] : appended'[u][i].id = appended'[u][j].id => i = j
    BY <1>1, <2>5 DEF CountedOnce
  <2>9. \A id : Landing(u, id) => Landing(u, id)'
    BY <2>2, <2>3, <2>4 DEF Landing
  <2>10. \A s \in Threads : \A id : Serves(s, u, id)' =>
           /\ <<u, id>> \notin answered'
           /\ \A r \in Threads : Serves(r, u, id)' => r = s
           /\ task'[s].pc # "trim" => \A i \in DOMAIN appended'[u] : appended'[u][i].id # id
    <3> SUFFICES ASSUME NEW s \in Threads, NEW id, Serves(s, u, id)'
                 PROVE  /\ <<u, id>> \notin answered
                        /\ \A r \in Threads : Serves(r, u, id)' => r = s
                        /\ task'[s].pc # "trim" => \A i \in DOMAIN appended[u] : appended[u][i].id # id
      BY <1>1
    <3>1. CASE s = t
      BY <2>3, <2>6, <2>7, <3>1
    <3>2. CASE s # t
      <4>1. Serves(s, u, id) /\ task'[s] = task[s]
        BY <2>2, <2>3, <3>2
      <4>2. ~Serves(t, u, id)'
        BY <2>3, <2>6, <4>1
      <4>3. QED
        BY <2>3, <2>5, <4>1, <4>2 DEF CountedOnce
    <3>3. QED
      BY <3>1, <3>2
  <2>11. QED
    BY <1>1, <2>5, <2>8, <2>9, <2>10 DEF CountedOnce
<1>4. QED
  BY <1>2, <1>3, IngestMoves DEF Pc

\* Before an event is appended, its request goes on or fails.
LEMMA EarlyOnce ==
  ASSUME TypeOK, Once, NEW t \in Threads, task[t].pc # "trim",
         GoesOn(t, {"read", "store", "append"}) \/ Return(t),
         UNCHANGED <<answered, appended, resent>>
  PROVE  Once'
<1>1. {"read", "store", "append"} \in SUBSET Pc
  BY DEF Pc
<1> SUFFICES ASSUME NEW u \in Users \ resent PROVE CountedOnce(u)'
  BY DEF Once
<1>2. CountedOnce(u)
  BY DEF Once
<1>3. CASE GoesOn(t, {"read", "store", "append"})
  <2>1. /\ task'[t].pc # "trim"
        /\ \A s \in Threads \ {t} : task'[s] = task[s]
    BY <1>1, <1>3, GoesOnKeeps
  <2>2. \A s \in Threads : \A v, id : Serves(s, v, id)' <=> Serves(s, v, id)
    BY <1>1, <1>3, GoesOnServes
  <2>3. \A id : Landing(u, id) => Landing(u, id)'
    BY <2>1, <2>2 DEF Landing
  <2>4. \A s \in Threads : \A id : Serves(s, u, id)' =>
           /\ <<u, id>> \notin answered
           /\ \A r \in Threads : Serves(r, u, id)' => r = s
           /\ task'[s].pc # "trim" => \A i \in DOMAIN appended[u] : appended[u][i].id # id
    BY <1>2, <2>1, <2>2 DEF CountedOnce
  <2>5. QED
    BY <1>2, <2>3, <2>4 DEF CountedOnce
<1>4. CASE Return(t)
  <2>1. /\ \A s \in Threads \ {t} : task'[s] = task[s]
        /\ \A v, id : ~Serves(t, v, id)'
        /\ \A s \in Threads \ {t} : \A v, id : Serves(s, v, id)' <=> Serves(s, v, id)
    BY <1>4, ReturnKeeps, ReturnServes
  <2>2. \A id : Landing(u, id) => Landing(u, id)'
    BY <2>1 DEF Landing
  <2>3. \A s \in Threads : \A id : Serves(s, u, id)' =>
           /\ <<u, id>> \notin answered
           /\ \A r \in Threads : Serves(r, u, id)' => r = s
           /\ task'[s].pc # "trim" => \A i \in DOMAIN appended[u] : appended[u][i].id # id
    BY <1>2, <2>1 DEF CountedOnce
  <2>4. QED
    BY <1>2, <2>2, <2>3 DEF CountedOnce
<1>5. QED
  BY <1>3, <1>4

\* An appended element comes after the others and leaves them where they are.
LEMMA AppendParts ==
  ASSUME NEW S, NEW h \in Seq(S), NEW x \in S
  PROVE  /\ DOMAIN Append(h, x) = DOMAIN h \cup {Len(h) + 1}
         /\ Len(h) + 1 \notin DOMAIN h
         /\ Append(h, x)[Len(h) + 1] = x
         /\ \A i \in DOMAIN h : Append(h, x)[i] = h[i]
OBVIOUS

LEMMA AppendOnce ==
  ASSUME TypeOK, Once, NEW t \in Threads, AppendEvidence(t)
  PROVE  Once'
<1> DEFINE e == task[t].event
<1>1. /\ task[t].pc = "append" /\ UNCHANGED <<answered, resent>>
      /\ appended' = [appended EXCEPT ![e.user] = Append(@, e)]
  BY DEF AppendEvidence
<1>2. {"trim"} \in SUBSET Pc
  BY DEF Pc
<1>3. /\ task'[t].pc = "trim" /\ Busy(t) /\ Busy(t)' /\ task'[t].event = e
      /\ \A s \in Threads \ {t} : task'[s] = task[s]
  BY <1>2, AppendMoves, GoesOnKeeps
<1>4. \A s \in Threads : \A v, id : Serves(s, v, id)' <=> Serves(s, v, id)
  BY <1>2, AppendMoves, GoesOnServes
<1>5. Serves(t, e.user, e.id)
  BY <1>3 DEF Serves
<1>11. \A v, id : Landing(v, id) => Landing(v, id)'
  BY <1>1, <1>3, <1>4 DEF Landing
<1>12. \A v, id : Serves(t, v, id) => Landing(v, id)'
  BY <1>3, <1>4 DEF Landing
<1> SUFFICES ASSUME NEW u \in Users \ resent PROVE CountedOnce(u)'
  BY <1>1 DEF Once
<1>6. CountedOnce(u)
  BY DEF Once
<1>7. DOMAIN appended = Users /\ appended[u] \in Seq(Event)
  BY DEF TypeOK
<1>8. CASE u # e.user
  <2>1. appended'[u] = appended[u]
    BY <1>1, <1>7, <1>8
  <2>3. \A s \in Threads : \A id : Serves(s, u, id)' =>
           /\ <<u, id>> \notin answered
           /\ \A r \in Threads : Serves(r, u, id)' => r = s
           /\ task'[s].pc # "trim" => \A i \in DOMAIN appended[u] : appended[u][i].id # id
    BY <1>3, <1>4, <1>6 DEF CountedOnce
  <2>4. QED
    <3>1. \A i \in DOMAIN appended'[u] :
            <<u, appended'[u][i].id>> \in answered \/ Landing(u, appended[u][i].id)'
      BY <1>6, <1>11, <2>1 DEF CountedOnce
    <3>2. \A i \in DOMAIN appended'[u] :
            (<<u, appended[u][i].id>> \in answered \/ Landing(u, appended[u][i].id))'
      BY <1>1, <2>1, <3>1
    <3>3. \A i, j \in DOMAIN appended'[u] : appended'[u][i].id = appended'[u][j].id => i = j
      BY <1>6, <2>1 DEF CountedOnce
    <3>4. \A s \in Threads : \A id : Serves(s, u, id)' =>
             /\ <<u, id>> \notin answered'
             /\ \A r \in Threads : Serves(r, u, id)' => r = s
             /\ task'[s].pc # "trim" => \A i \in DOMAIN appended'[u] : appended'[u][i].id # id
      BY <1>1, <2>1, <2>3
    <3>5. QED
      BY <3>2, <3>3, <3>4 DEF CountedOnce
<1>9. CASE u = e.user
  <2> DEFINE n == Len(appended[u]) + 1
  <2>1. /\ DOMAIN appended'[u] = DOMAIN appended[u] \cup {n}
        /\ n \notin DOMAIN appended[u]
        /\ appended'[u][n] = e
        /\ \A i \in DOMAIN appended[u] : appended'[u][i] = appended[u][i]
    <3>1. appended'[u] = Append(appended[u], e)
      BY <1>1, <1>7, <1>9
    <3>2. e \in Event
      BY <1>3, EventParts DEF Busy, TypeOK
    <3>3. QED
      BY <1>7, <3>1, <3>2, AppendParts
  <2>2. \A i \in DOMAIN appended[u] : appended[u][i].id # e.id
    BY <1>1, <1>5, <1>6, <1>9 DEF CountedOnce
  <2>3. \A i, j \in DOMAIN appended'[u] : appended'[u][i].id = appended'[u][j].id => i = j
    <3> HIDE DEF n
    <3>1. QED
      BY <1>6, <2>1, <2>2 DEF CountedOnce
  <2>4. \A i \in DOMAIN appended'[u] :
          \/ <<u, appended'[u][i].id>> \in answered
          \/ Landing(u, appended[u][i].id)'
    <3> HIDE DEF n
    <3>1. \A i \in DOMAIN appended[u] :
            <<u, appended[u][i].id>> \in answered \/ Landing(u, appended[u][i].id)
      BY <1>6 DEF CountedOnce
    <3>2. Landing(u, e.id)'
      BY <1>3, <1>5, <1>9, <1>12
    <3>3. QED
      <4> SUFFICES ASSUME NEW i \in DOMAIN appended'[u],
                          <<u, appended'[u][i].id>> \notin answered
                   PROVE  Landing(u, appended[u][i].id)'
        OBVIOUS
      <4>1. CASE i \in DOMAIN appended[u]
        BY <1>11, <2>1, <3>1, <4>1
      <4>2. CASE i = n
        <5>1. appended'[u][i].id = e.id /\ Landing(u, task[t].event.id)'
          BY <2>1, <3>2, <4>2
        <5>2. appended'[u][i].id = task'[t].event.id
          BY <1>3, <5>1
        <5>3. QED
          BY <5>1, <5>2 DEF Landing
      <4>3. QED
        BY <2>1, <4>1, <4>2
  <2>5. \A s \in Threads : \A id : Serves(s, u, id)' =>
           /\ <<u, id>> \notin answered
           /\ \A r \in Threads : Serves(r, u, id)' => r = s
           /\ task'[s].pc # "trim" => \A i \in DOMAIN appended'[u] : appended'[u][i].id # id
    <3> HIDE DEF n
    <3> SUFFICES ASSUME NEW s \in Threads, NEW id, Serves(s, u, id)'
                 PROVE  /\ <<u, id>> \notin answered
                        /\ \A r \in Threads : Serves(r, u, id)' => r = s
                        /\ task'[s].pc # "trim" =>
                             \A i \in DOMAIN appended'[u] : appended'[u][i].id # id
      OBVIOUS
    <3>1. /\ Serves(s, u, id) /\ <<u, id>> \notin answered
          /\ \A r \in Threads : Serves(r, u, id)' => r = s
      BY <1>4, <1>6 DEF CountedOnce
    <3>2. CASE s = t
      BY <1>3, <3>1, <3>2
    <3>3. CASE s # t
      <4>1. id # e.id
        BY <1>4, <1>5, <1>9, <3>1, <3>3
      <4>2. task[s].pc # "trim" => \A i \in DOMAIN appended[u] : appended[u][i].id # id
        BY <1>6, <3>1 DEF CountedOnce
      <4>3. QED
        BY <1>3, <2>1, <3>1, <3>3, <4>1, <4>2
    <3>4. QED
      BY <3>2, <3>3
  <2>6. QED
    BY <1>1, <2>3, <2>4, <2>5 DEF CountedOnce
<1>10. QED
  BY <1>8, <1>9

LEMMA TrimOnce ==
  ASSUME TypeOK, Once, NEW t \in Threads, TrimEvidence(t)
  PROVE  Once'
<1> DEFINE e == task[t].event
<1>1. /\ task[t].pc = "trim" /\ UNCHANGED <<appended, resent>>
      /\ answered' = answered \cup {<<e.user, e.id>>} /\ Return(t)
  BY DEF TrimEvidence
<1>2. Serves(t, e.user, e.id)
  BY <1>1, PcOfIdle DEF Serves, Busy, Pc
<1>3. /\ \A s \in Threads \ {t} : task'[s] = task[s]
      /\ \A v, id : ~Serves(t, v, id)'
      /\ \A s \in Threads \ {t} : \A v, id : Serves(s, v, id)' <=> Serves(s, v, id)
  BY <1>1, ReturnKeeps, ReturnServes
<1> SUFFICES ASSUME NEW u \in Users \ resent PROVE CountedOnce(u)'
  BY <1>1 DEF Once
<1>4. CountedOnce(u)
  BY DEF Once
<1>5. \A id : Landing(u, id) => Landing(u, id)' \/ <<u, id>> \in answered'
  <2> SUFFICES ASSUME NEW id, Landing(u, id), <<u, id>> \notin answered'
               PROVE  Landing(u, id)'
    OBVIOUS
  <2>1. PICK s \in Threads : Serves(s, u, id) /\ task[s].pc = "trim"
    BY DEF Landing
  <2>2. s # t
    BY <1>1, <2>1 DEF Serves
  <2>3. QED
    BY <1>3, <2>1, <2>2 DEF Landing
<1>6. \A s \in Threads : \A id : Serves(s, u, id)' =>
         /\ <<u, id>> \notin answered'
         /\ \A r \in Threads : Serves(r, u, id)' => r = s
         /\ task'[s].pc # "trim" => \A i \in DOMAIN appended[u] : appended[u][i].id # id
  <2> SUFFICES ASSUME NEW s \in Threads, NEW id, Serves(s, u, id)'
               PROVE  /\ <<u, id>> \notin answered'
                      /\ \A r \in Threads : Serves(r, u, id)' => r = s
                      /\ task'[s].pc # "trim" =>
                           \A i \in DOMAIN appended[u] : appended[u][i].id # id
    OBVIOUS
  <2>1. s # t /\ Serves(s, u, id) /\ task'[s] = task[s]
    BY <1>3
  <2>2. <<u, id>> # <<e.user, e.id>>
    BY <1>2, <1>4, <2>1 DEF CountedOnce
  <2>3. QED
    BY <1>1, <1>3, <1>4, <2>1, <2>2 DEF CountedOnce
<1>7. QED
  BY <1>1, <1>4, <1>5, <1>6 DEF CountedOnce

\* Every step counts an event once.
LEMMA StepOnce == TypeOK /\ Once /\ [Next]_vars => Once'
<1> SUFFICES ASSUME TypeOK, Once, [Next]_vars PROVE Once'
  OBVIOUS
<1>1. CASE UNCHANGED vars
  BY <1>1 DEF vars, Once, CountedOnce, Landing, Serves, Busy
<1>2. CASE Next
  <2>1. PICK t \in Threads :
           \/ \E e \in Event : Ingest(t, e)
           \/ Register(t) \/ ReadHistory(t) \/ ExtractionFails(t) \/ StoreMemory(t)
           \/ AppendEvidence(t) \/ TrimEvidence(t)
    BY <1>2, StepCases
  <2>2. CASE Register(t)
    <3>1. task[t].pc # "trim" /\ UNCHANGED <<answered, appended, resent>>
      BY <2>2 DEF Register
    <3>2. GoesOn(t, {"read", "store", "append"})
      BY <2>2, RegisterMoves DEF GoesOn
    <3>3. QED
      BY <3>1, <3>2, EarlyOnce
  <2>3. CASE ReadHistory(t)
    <3>1. task[t].pc # "trim" /\ UNCHANGED <<answered, appended, resent>>
      BY <2>3 DEF ReadHistory
    <3>2. GoesOn(t, {"read", "store", "append"})
      BY <2>3, ReadMoves DEF GoesOn
    <3>3. QED
      BY <3>1, <3>2, EarlyOnce
  <2>4. CASE StoreMemory(t)
    <3>1. task[t].pc # "trim" /\ UNCHANGED <<answered, appended, resent>>
      BY <2>4 DEF StoreMemory
    <3>2. GoesOn(t, {"read", "store", "append"}) \/ Return(t)
      BY <2>4, StoreMoves DEF GoesOn
    <3>3. QED
      BY <3>1, <3>2, EarlyOnce
  <2>5. CASE ExtractionFails(t)
    BY <2>5, FailureReturns, EarlyOnce
  <2>6. QED
    BY <2>1, <2>2, <2>3, <2>4, <2>5, IngestOnce, AppendOnce, TrimOnce
<1>3. QED
  BY <1>1, <1>2

\* Unless a user sends an event again that was answered or is under way, no
\* event is twice in that user's history: process_event appends after the steps
\* that can fail, so a failed request leaves nothing to be counted.
THEOREM EventsCountOnce == Spec => []RetriesCountOnce
<1>1. Init => Once
  BY InitOnce
<1>2. TypeOK /\ Once /\ [Next]_vars => Once'
  BY StepOnce
<1>3. Once => RetriesCountOnce
  BY DEF Once, CountedOnce, RetriesCountOnce
<1>4. QED
  BY <1>1, <1>2, <1>3, TypeCorrect, PTL DEF Spec
------------------------------------------------------------------------------
(* The newest events.                                                          *)

\* h is the end of the sequence a.
EndOf(h, a) ==
  /\ Len(h) <= Len(a)
  /\ \A i \in 1 .. Len(h) : h[i] = a[Len(a) - Len(h) + i]

\* The requests that have yet to trim the history of u.
Due(u) == {t \in Threads : task[t].pc = "trim" /\ task[t].event.user = u}

\* What is left of the events a in a history h, with n trims to come.
RecentOf(h, a, n) ==
  /\ EndOf(h, a)
  /\ Len(h) <= MaxHistory + n
  /\ Len(h) >= MaxHistory \/ Len(h) = Len(a)

Recent == \A u \in Users : RecentOf(history[u], appended[u], Cardinality(Due(u)))

LEMMA EndIsSuffix ==
  ASSUME NEW h \in Seq(Event), NEW a \in Seq(Event), EndOf(h, a)
  PROVE  IsSuffix(h, a)
<1> DEFINE r == Reverse(h)
           s == Reverse(a)
<1>1. /\ r \in Seq(Event) /\ Len(r) = Len(h)
      /\ \A i \in 1 .. Len(h) : r[i] = h[(Len(h) - i) + 1]
  BY DEF Reverse
<1>2. /\ s \in Seq(Event) /\ Len(s) = Len(a)
      /\ \A i \in 1 .. Len(a) : s[i] = a[(Len(a) - i) + 1]
  BY DEF Reverse
<1>3. \A i \in 1 .. Len(h) : r[i] = s[i]
  <2> SUFFICES ASSUME NEW i \in 1 .. Len(h) PROVE r[i] = s[i]
    OBVIOUS
  <2>1. i \in 1 .. Len(a) /\ (Len(h) - i) + 1 \in 1 .. Len(h)
    BY DEF EndOf
  <2>2. h[(Len(h) - i) + 1] = a[Len(a) - Len(h) + ((Len(h) - i) + 1)]
    BY <2>1 DEF EndOf
  <2>3. Len(a) - Len(h) + ((Len(h) - i) + 1) = (Len(a) - i) + 1
    OBVIOUS
  <2>4. QED
    BY <1>1, <1>2, <2>1, <2>2, <2>3
<1>4. SubSeq(r, 1, Len(r)) = SubSeq(s, 1, Len(r)) /\ Len(r) <= Len(s)
  <2> HIDE DEF r, s
  <2>1. Len(r) <= Len(s)
    BY <1>1, <1>2 DEF EndOf
  <2>2. QED
    BY <1>1, <1>2, <1>3, <2>1
<1>5. QED
  BY <1>4 DEF IsSuffix, IsPrefix

LEMMA AppendRecent ==
  ASSUME NEW h \in Seq(Event), NEW a \in Seq(Event), NEW e \in Event,
         NEW n \in Nat, RecentOf(h, a, n)
  PROVE  RecentOf(Append(h, e), Append(a, e), n + 1)
<1>1. Len(Append(h, e)) = Len(h) + 1 /\ Len(Append(a, e)) = Len(a) + 1
  OBVIOUS
<1>2. \A i \in 1 .. Len(h) + 1 : Append(h, e)[i] = Append(a, e)[Len(a) - Len(h) + i]
  <2> SUFFICES ASSUME NEW i \in 1 .. Len(h) + 1
               PROVE  Append(h, e)[i] = Append(a, e)[Len(a) - Len(h) + i]
    OBVIOUS
  <2>1. CASE i = Len(h) + 1
    <3>1. Len(a) - Len(h) + i = Len(a) + 1
      BY <2>1
    <3>2. QED
      BY <2>1, <3>1
  <2>2. CASE i # Len(h) + 1
    <3>1. i \in 1 .. Len(h) /\ Len(a) - Len(h) + i \in 1 .. Len(a)
      BY <2>2 DEF RecentOf, EndOf
    <3>2. h[i] = a[Len(a) - Len(h) + i]
      BY <3>1 DEF RecentOf, EndOf
    <3>3. Append(h, e)[i] = h[i] /\ Append(a, e)[Len(a) - Len(h) + i] = a[Len(a) - Len(h) + i]
      BY <3>1
    <3>4. QED
      BY <3>2, <3>3
  <2>3. QED
    BY <2>1, <2>2
<1>3. EndOf(Append(h, e), Append(a, e))
  <2>1. Len(Append(a, e)) - Len(Append(h, e)) = Len(a) - Len(h)
    BY <1>1
  <2>2. Len(Append(h, e)) <= Len(Append(a, e))
    BY <1>1 DEF RecentOf, EndOf
  <2>3. QED
    BY <1>1, <1>2, <2>1, <2>2 DEF EndOf
<1>4. QED
  BY <1>1, <1>3, MaxHistoryAssumption DEF RecentOf

LEMMA NewestRecent ==
  ASSUME NEW h \in Seq(Event), NEW a \in Seq(Event), NEW n \in Nat, NEW m \in Nat,
         RecentOf(h, a, n)
  PROVE  RecentOf(Newest(h), a, m)
<1>1. CASE Len(h) > MaxHistory
  <2> DEFINE s == Newest(h)
  <2>1. s = SubSeq(h, Len(h) - MaxHistory + 1, Len(h))
    BY <1>1 DEF Newest
  <2>2. Len(s) = MaxHistory
        /\ \A i \in 1 .. MaxHistory : s[i] = h[Len(h) - MaxHistory + i]
    BY <1>1, <2>1, MaxHistoryAssumption
  <2>3. \A i \in 1 .. MaxHistory : s[i] = a[Len(a) - MaxHistory + i]
    <3> HIDE DEF s
    <3> SUFFICES ASSUME NEW i \in 1 .. MaxHistory PROVE s[i] = a[Len(a) - MaxHistory + i]
      OBVIOUS
    <3>1. Len(h) - MaxHistory + i \in 1 .. Len(h)
      BY <1>1, MaxHistoryAssumption
    <3>2. h[Len(h) - MaxHistory + i] = a[Len(a) - Len(h) + (Len(h) - MaxHistory + i)]
      BY <3>1 DEF RecentOf, EndOf
    <3>3. Len(a) - Len(h) + (Len(h) - MaxHistory + i) = Len(a) - MaxHistory + i
      BY MaxHistoryAssumption
    <3>4. QED
      BY <2>2, <3>2, <3>3
  <2>4. QED
    <3> HIDE DEF s
    <3>1. RecentOf(s, a, m)
      BY <1>1, <2>2, <2>3, MaxHistoryAssumption DEF RecentOf, EndOf
    <3>2. QED
      BY <3>1 DEF s
<1>2. CASE ~(Len(h) > MaxHistory)
  <2>1. Newest(h) = h
    BY <1>2 DEF Newest
  <2>2. EndOf(h, a) /\ (Len(h) >= MaxHistory \/ Len(h) = Len(a))
    BY DEF RecentOf
  <2>3. Len(h) <= MaxHistory + m
    BY <1>2, MaxHistoryAssumption
  <2>4. QED
    BY <2>1, <2>2, <2>3 DEF RecentOf
<1>3. QED
  BY <1>1, <1>2

\* The requests that have yet to trim are finitely many.
LEMMA DueIsFinite == \A u : IsFiniteSet(Due(u)) /\ Cardinality(Due(u)) \in Nat
  BY ThreadsAssumption, FS_Subset, FS_CardinalityType DEF Due

\* A step away from trimming leaves alone who has yet to trim.
LEMMA DueStays ==
  ASSUME TypeOK, NEW t \in Threads, task[t].pc # "trim", task'[t].pc # "trim",
         \A s \in Threads \ {t} : task'[s] = task[s]
  PROVE  \A u : Due(u)' = Due(u)
  BY DEF Due

LEMMA AppendIsRecent ==
  ASSUME TypeOK, Recent, NEW t \in Threads, AppendEvidence(t)
  PROVE  Recent'
<1> DEFINE e == task[t].event
<1>1. {"trim"} \in SUBSET Pc
  BY DEF Pc
<1>2. /\ task[t].pc = "append"
      /\ history' = [history EXCEPT ![e.user] = Append(@, e)]
      /\ appended' = [appended EXCEPT ![e.user] = Append(@, e)]
  BY DEF AppendEvidence
<1>3. /\ task'[t].pc = "trim" /\ task'[t].event = e /\ Busy(t)
      /\ \A s \in Threads \ {t} : task'[s] = task[s]
  BY <1>1, AppendMoves, GoesOnKeeps
<1>4. e \in Event /\ e.user \in Users
  BY <1>3, EventParts DEF Busy, TypeOK
<1> SUFFICES ASSUME NEW u \in Users
             PROVE  RecentOf(history[u], appended[u], Cardinality(Due(u)))'
  BY DEF Recent
<1>5. /\ history[u] \in Seq(Event) /\ appended[u] \in Seq(Event)
      /\ DOMAIN history = Users /\ DOMAIN appended = Users
      /\ RecentOf(history[u], appended[u], Cardinality(Due(u)))
  BY DEF TypeOK, Recent
<1>6. CASE u = e.user
  <2>1. Due(u)' = Due(u) \cup {t} /\ t \notin Due(u)
    BY <1>2, <1>3, <1>6 DEF Due
  <2>2. Cardinality(Due(u)') = Cardinality(Due(u)) + 1 /\ Cardinality(Due(u)) \in Nat
    BY <2>1, DueIsFinite, FS_AddElement
  <2>3. history'[u] = Append(history[u], e) /\ appended'[u] = Append(appended[u], e)
    BY <1>2, <1>5, <1>6
  <2>4. RecentOf(history'[u], appended'[u], Cardinality(Due(u)) + 1)
    BY <1>4, <1>5, <2>2, <2>3, AppendRecent
  <2>5. QED
    BY <2>2, <2>4
<1>7. CASE u # e.user
  <2>1. Due(u)' = Due(u)
    BY <1>2, <1>3, <1>7 DEF Due
  <2>2. history'[u] = history[u] /\ appended'[u] = appended[u]
    BY <1>2, <1>5, <1>7
  <2>3. QED
    BY <1>5, <2>1, <2>2
<1>8. QED
  BY <1>6, <1>7

LEMMA TrimIsRecent ==
  ASSUME TypeOK, Recent, NEW t \in Threads, TrimEvidence(t)
  PROVE  Recent'
<1> DEFINE e == task[t].event
<1>1. /\ task[t].pc = "trim" /\ UNCHANGED appended
      /\ history' = [history EXCEPT ![e.user] = Newest(@)] /\ Return(t)
  BY DEF TrimEvidence
<1>2. task'[t] = Idle /\ \A s \in Threads \ {t} : task'[s] = task[s]
  BY <1>1, ReturnKeeps DEF Busy
<1> SUFFICES ASSUME NEW u \in Users
             PROVE  RecentOf(history[u], appended[u], Cardinality(Due(u)))'
  BY DEF Recent
<1>3. /\ history[u] \in Seq(Event) /\ appended[u] \in Seq(Event)
      /\ DOMAIN history = Users
      /\ RecentOf(history[u], appended[u], Cardinality(Due(u)))
  BY DEF TypeOK, Recent
<1>4. CASE u = e.user
  <2>1. Due(u)' \subseteq Due(u)
    BY <1>2 DEF Due, Idle
  <2>2. Cardinality(Due(u)') \in Nat /\ Cardinality(Due(u)) \in Nat
    BY <2>1, DueIsFinite, FS_Subset, FS_CardinalityType
  <2>3. history'[u] = Newest(history[u])
    BY <1>1, <1>3, <1>4
  <2>4. RecentOf(history'[u], appended[u], Cardinality(Due(u)'))
    BY <1>3, <2>2, <2>3, NewestRecent
  <2>5. QED
    BY <1>1, <2>4
<1>5. CASE u # e.user
  <2>1. Due(u)' = Due(u)
    BY <1>1, <1>2, <1>5 DEF Due, Idle
  <2>2. history'[u] = history[u]
    BY <1>1, <1>3, <1>5
  <2>3. QED
    BY <1>1, <1>3, <2>1, <2>2
<1>6. QED
  BY <1>4, <1>5

\* A step that touches no history, of a request that is not to trim.
LEMMA QuietIsRecent ==
  ASSUME TypeOK, Recent, NEW t \in Threads, task[t].pc # "trim", task'[t].pc # "trim",
         \A s \in Threads \ {t} : task'[s] = task[s], UNCHANGED <<history, appended>>
  PROVE  Recent'
<1>1. \A u : Due(u)' = Due(u)
  BY DueStays
<1>2. QED
  BY <1>1 DEF Recent

LEMMA StepRecent == TypeOK /\ Recent /\ [Next]_vars => Recent'
<1> SUFFICES ASSUME TypeOK, Recent, [Next]_vars PROVE Recent'
  OBVIOUS
<1>1. CASE UNCHANGED vars
  <2>1. \A u : Due(u)' = Due(u)
    BY <1>1 DEF vars, Due
  <2>2. QED
    BY <1>1, <2>1 DEF vars, Recent
<1>2. CASE Next
  <2>1. PICK t \in Threads :
           \/ \E e \in Event : Ingest(t, e)
           \/ Register(t) \/ ReadHistory(t) \/ ExtractionFails(t) \/ StoreMemory(t)
           \/ AppendEvidence(t) \/ TrimEvidence(t)
    BY <1>2, StepCases
  <2>2. CASE \E e \in Event : Ingest(t, e)
    <3>1. PICK e \in Event : Ingest(t, e)
      BY <2>2
    <3>2. UNCHANGED <<history, appended>> /\ task[t].pc # "trim"
      BY <3>1 DEF Ingest, Idle
    <3>3. CASE UNCHANGED task
      BY <3>2, <3>3, QuietIsRecent
    <3>4. CASE \E pc \in {"register", "read", "append"} :
                 task' = [task EXCEPT ![t] = [pc |-> pc, event |-> e]]
      <4>1. PICK pc \in {"register", "read", "append"} :
                   task' = [task EXCEPT ![t] = [pc |-> pc, event |-> e]]
        BY <3>4
      <4>2. pc \in Pc /\ pc # "trim"
        BY DEF Pc
      <4>3. task'[t].pc = pc /\ \A s \in Threads \ {t} : task'[s] = task[s]
        BY <4>1, <4>2, BeginsKeeps
      <4>4. QED
        BY <3>2, <4>2, <4>3, QuietIsRecent
    <3>5. QED
      BY <3>1, <3>3, <3>4, IngestMoves
  <2>3. CASE Register(t) \/ ReadHistory(t) \/ ExtractionFails(t) \/ StoreMemory(t)
    <3>1. UNCHANGED <<history, appended>> /\ task[t].pc # "trim"
      BY <2>3 DEF Register, ReadHistory, ExtractionFails, StoreMemory
    <3>2. {"read", "store", "append"} \in SUBSET Pc
      BY DEF Pc
    <3>3. GoesOn(t, {"read", "store", "append"}) \/ Return(t)
      BY <2>3, RegisterMoves, ReadMoves, FailureReturns, StoreMoves DEF GoesOn
    <3>4. CASE GoesOn(t, {"read", "store", "append"})
      <4>1. task'[t].pc # "trim" /\ \A s \in Threads \ {t} : task'[s] = task[s]
        BY <3>2, <3>4, GoesOnKeeps
      <4>2. QED
        BY <3>1, <4>1, QuietIsRecent
    <3>5. CASE Return(t)
      <4>1. task'[t] = Idle /\ \A s \in Threads \ {t} : task'[s] = task[s]
        BY <3>5, ReturnKeeps DEF Busy
      <4>2. task'[t].pc # "trim"
        BY <4>1 DEF Idle
      <4>3. QED
        BY <3>1, <4>1, <4>2, QuietIsRecent
    <3>6. QED
      BY <3>3, <3>4, <3>5
  <2>4. QED
    BY <2>1, <2>2, <2>3, AppendIsRecent, TrimIsRecent
<1>3. QED
  BY <1>1, <1>2

LEMMA InitRecent == Init => Recent
<1> SUFFICES ASSUME Init, NEW u \in Users
             PROVE  RecentOf(history[u], appended[u], Cardinality(Due(u)))
  BY DEF Recent
<1>1. history[u] = <<>> /\ appended[u] = <<>>
  BY DEF Init
<1>2. Cardinality(Due(u)) \in Nat
  BY DueIsFinite
<1>3. QED
  BY <1>1, <1>2, MaxHistoryAssumption DEF RecentOf, EndOf

\* What RecentOf says is what HistoryIsRecent says.
LEMMA RecentSuffices == TypeOK /\ Recent => HistoryIsRecent
<1> SUFFICES ASSUME TypeOK, Recent, NEW u \in Users
             PROVE  /\ IsSuffix(history[u], appended[u])
                    /\ Len(history[u]) <= MaxHistory + Cardinality(Due(u))
                    /\ Len(history[u]) >= Min({MaxHistory, Len(appended[u])})
  BY DEF HistoryIsRecent, Due
<1>1. /\ history[u] \in Seq(Event) /\ appended[u] \in Seq(Event)
      /\ RecentOf(history[u], appended[u], Cardinality(Due(u)))
  BY DEF TypeOK, Recent
<1>2. IsSuffix(history[u], appended[u])
  BY <1>1, EndIsSuffix DEF RecentOf
<1>3. \A m, n \in Nat : Min({m, n}) <= m /\ Min({m, n}) <= n
  <2> TAKE m, n \in Nat
  <2>1. \E x \in {m, n} : \A y \in {m, n} : x =< y
    OBVIOUS
  <2>2. QED
    BY <2>1 DEF Min
<1>4. Len(history[u]) >= Min({MaxHistory, Len(appended[u])})
  <2>1. Min({MaxHistory, Len(appended[u])}) <= MaxHistory
        /\ Min({MaxHistory, Len(appended[u])}) <= Len(appended[u])
        /\ Min({MaxHistory, Len(appended[u])}) \in Nat
    <3>1. Len(appended[u]) \in Nat
      BY <1>1
    <3>2. \E x \in {MaxHistory, Len(appended[u])} :
             \A y \in {MaxHistory, Len(appended[u])} : x =< y
      BY <3>1, MaxHistoryAssumption
    <3>3. Min({MaxHistory, Len(appended[u])}) \in {MaxHistory, Len(appended[u])}
      BY <3>2 DEF Min
    <3>4. QED
      BY <1>3, <3>1, <3>3, MaxHistoryAssumption
  <2>2. QED
    BY <1>1, <2>1, MaxHistoryAssumption DEF RecentOf
<1>5. QED
  BY <1>1, <1>2, <1>4 DEF RecentOf

\* A history is always what is left of the events appended to it after dropping
\* the oldest, and exceeds its size by no more than the drops that are due.
THEOREM HistoryKeepsTheNewest == Spec => []HistoryIsRecent
<1>1. Init => Recent
  BY InitRecent
<1>2. TypeOK /\ Recent /\ [Next]_vars => Recent'
  BY StepRecent
<1>3. TypeOK /\ Recent => HistoryIsRecent
  BY RecentSuffices
<1>4. QED
  BY <1>1, <1>2, <1>3, TypeCorrect, PTL DEF Spec

------------------------------------------------------------------------------
(* What evidence scores.  The score is a fold over a set: a function defined   *)
(* by recursion, which in TLA+ is a CHOOSE.  That there is a function with its *)
(* equation, and what it returns, is shown by a smallest counterexample.       *)

\* A set of numbers that is not empty has a smallest.
LEMMA SmallestOf ==
  ASSUME NEW S, S \subseteq Nat, S # {}
  PROVE  \E x \in S : \A y \in S : x <= y
<1> DEFINE R == {p \in Nat \X Nat : p[1] < p[2]}
<1>1. IsWellFoundedOn(R, Nat)
  BY NatLessThanWellFounded, Zenon DEF OpToRel
<1>2. \A x, y \in Nat : <<y, x>> \notin R => x <= y
  OBVIOUS
<1> HIDE DEF R
<1>3. PICK x \in S : \A y \in S : <<y, x>> \notin R
  BY <1>1, WFMin, Zenon
<1>4. \A y \in S : x <= y
  BY <1>2, <1>3
<1>5. QED
  BY <1>4

\* So a set that holds 0 and with a number the next one holds all numbers.
LEMMA CountingUp ==
  ASSUME NEW P, 0 \in P, \A n \in Nat : n \in P => n + 1 \in P
  PROVE  \A n \in Nat : n \in P
<1> SUFFICES ASSUME Nat \ P # {} PROVE FALSE
  OBVIOUS
<1>1. PICK x \in Nat \ P : \A y \in Nat \ P : x <= y
  BY SmallestOf
<1>2. x # 0 /\ x - 1 \in Nat /\ x - 1 \in P
  BY <1>1
<1>3. (x - 1) + 1 \in P
  BY <1>2
<1>4. QED
  BY <1>1, <1>2, <1>3

Weight(x) == BehaviorWeight(x.id.payload.type, x.id.payload.signal)

\* The event the fold takes from s first.
First(s) == CHOOSE x \in s : TRUE

\* g returns the scores of the sets in d, a set of sets closed under Rest.
Scores(g, d) ==
  g = [s \in d |-> IF s = {} THEN 0 ELSE Weight(First(s)) + g[s \ {First(s)}]]

LEMMA ScoreIsFold ==
  ASSUME NEW S
  PROVE  Score(S) = (CHOOSE g : Scores(g, SUBSET S))[S]
  BY DEF Score, MapThenSumSet, MapThenFoldSet, Weight, Scores, First

\* The subsets of S with no more than n elements.
UpTo(S, n) == {s \in SUBSET S : Cardinality(s) <= n}

\* Taking one out of a finite set.
LEMMA RestOf ==
  ASSUME NEW s, IsFiniteSet(s), s # {}
  PROVE  /\ First(s) \in s
         /\ IsFiniteSet(s \ {First(s)})
         /\ Cardinality(s) \in Nat \ {0}
         /\ Cardinality(s \ {First(s)}) = Cardinality(s) - 1
<1>1. First(s) \in s
  BY DEF First
<1>2. QED
  BY <1>1, FS_RemoveElement, FS_CardinalityType, FS_EmptySet

LEMMA ScoresUpTo ==
  ASSUME NEW S, IsFiniteSet(S)
  PROVE  \A n \in Nat : \E g : Scores(g, UpTo(S, n))
<1> DEFINE P == {n \in Nat : \E g : Scores(g, UpTo(S, n))}
<1>1. \A s \in SUBSET S : IsFiniteSet(s) /\ Cardinality(s) \in Nat
  BY FS_Subset, FS_CardinalityType
<1>2. 0 \in P
  <2>1. UpTo(S, 0) = {{}}
    BY <1>1, RestOf, FS_EmptySet DEF UpTo
  <2> DEFINE g == [s \in {{}} |-> 0]
  <2>2. Scores(g, {{}})
    BY DEF Scores
  <2>3. QED
    BY <2>1, <2>2
<1>3. ASSUME NEW n \in Nat, n \in P PROVE n + 1 \in P
  <2>1. PICK g : Scores(g, UpTo(S, n))
    BY <1>3
  <2> DEFINE h == [s \in UpTo(S, n + 1) |->
                     IF s = {} THEN 0 ELSE Weight(First(s)) + g[s \ {First(s)}]]
  <2>2. ASSUME NEW s \in UpTo(S, n) PROVE s \in UpTo(S, n + 1) /\ h[s] = g[s]
    <3>1. s \in UpTo(S, n + 1)
      BY <1>1, <2>2 DEF UpTo
    <3>2. g[s] = IF s = {} THEN 0 ELSE Weight(First(s)) + g[s \ {First(s)}]
      BY <2>1 DEF Scores
    <3>3. QED
      BY <3>1, <3>2
  <2>3. ASSUME NEW s \in UpTo(S, n + 1), s # {}
        PROVE  s \ {First(s)} \in UpTo(S, n)
    BY <1>1, <2>3, RestOf DEF UpTo
  <2>4. h = [s \in UpTo(S, n + 1) |->
               IF s = {} THEN 0 ELSE Weight(First(s)) + h[s \ {First(s)}]]
    <3> HIDE DEF h
    <3>1. \A s \in UpTo(S, n + 1) : s # {} => h[s \ {First(s)}] = g[s \ {First(s)}]
      BY <2>2, <2>3
    <3>2. QED
      BY <3>1 DEF h
  <2> HIDE DEF h
  <2>5. Scores(h, UpTo(S, n + 1))
    BY <2>4 DEF Scores
  <2>6. QED
    BY <2>5
<1>4. QED
  <2> HIDE DEF P
  <2>1. \A n \in Nat : n \in P
    BY <1>2, <1>3, CountingUp
  <2>2. QED
    BY <2>1 DEF P

\* The score of a finite set obeys the equation of the fold.
LEMMA ScoreEquation ==
  ASSUME NEW S, IsFiniteSet(S)
  PROVE  \E g : Scores(g, SUBSET S) /\ Score(S) = g[S]
<1>1. Cardinality(S) \in Nat
  BY FS_CardinalityType
<1>2. UpTo(S, Cardinality(S)) = SUBSET S
  BY FS_Subset DEF UpTo
<1>3. \E g : Scores(g, UpTo(S, Cardinality(S)))
  BY <1>1, ScoresUpTo
<1>4. \E g : Scores(g, SUBSET S)
  BY <1>2, <1>3, Zenon
<1>5. QED
  BY <1>4, ScoreIsFold

\* No event weighs more than 40, and one that is no behaviour weighs nothing.
LEMMA WeightIsBounded ==
  ASSUME NEW e
  PROVE  /\ Weight(e) \in Int /\ Weight(e) <= 40
         /\ ~Behavioral(e) => Weight(e) = 0
<1> DEFINE type == e.id.payload.type
           signal == e.id.payload.signal
<1>1. /\ DOMAIN Saved = {"track", "show", "episode", "album", "playlist"}
      /\ \A x \in DOMAIN Saved : Saved[x] \in Int /\ Saved[x] <= 40
  BY DEF Saved
<1> HIDE DEF type, signal
<1>2. /\ BehaviorWeight(type, signal) \in Int /\ BehaviorWeight(type, signal) <= 40
      /\ signal \notin BehavioralSignals => BehaviorWeight(type, signal) = 0
  BY <1>1 DEF BehaviorWeight, BehavioralSignals
<1>3. QED
  BY <1>2 DEF Weight, Behavioral, type, signal

\* At most one event of s is a behaviour.
OneBehaviour(s) == \A d, e \in s : Behavioral(d) /\ Behavioral(e) => d = e
NoBehaviour(s) == \A e \in s : ~Behavioral(e)

LEMMA OneIsNotEnough ==
  ASSUME NEW S, IsFiniteSet(S), OneBehaviour(S)
  PROVE  Score(S) \in Int /\ Score(S) < BEHAVIOR_MEMORY_THRESHOLD
<1>1. PICK g : Scores(g, SUBSET S) /\ Score(S) = g[S]
  BY ScoreEquation
<1> DEFINE Bounded(s) == /\ g[s] \in Int /\ g[s] <= 40
                         /\ NoBehaviour(s) => g[s] = 0
           P == {n \in Nat : \A s \in UpTo(S, n) : Bounded(s)}
<1>2. \A s \in SUBSET S : IsFiniteSet(s) /\ Cardinality(s) \in Nat /\ OneBehaviour(s)
  BY FS_Subset, FS_CardinalityType DEF OneBehaviour
<1>3. \A s \in SUBSET S : g[s] = IF s = {} THEN 0 ELSE Weight(First(s)) + g[s \ {First(s)}]
  BY <1>1 DEF Scores
<1>4. 0 \in P
  <2>1. UpTo(S, 0) = {{}}
    BY <1>2, RestOf, FS_EmptySet DEF UpTo
  <2>2. g[{}] = 0
    BY <1>3
  <2>3. \A s \in UpTo(S, 0) : g[s] = 0
    BY <2>1, <2>2
  <2>4. QED
    BY <2>3
<1>5. ASSUME NEW n \in Nat, n \in P PROVE n + 1 \in P
  <2> SUFFICES ASSUME NEW s \in UpTo(S, n + 1) PROVE Bounded(s)
    OBVIOUS
  <2>1. CASE s = {}
    <3>1. g[s] = 0
      BY <1>3, <2>1
    <3>2. QED
      BY <3>1
  <2>2. CASE s # {}
    <3> DEFINE rest == s \ {First(s)}
    <3>1. First(s) \in s /\ rest \in UpTo(S, n) /\ s \in SUBSET S
      BY <1>2, <2>2, RestOf DEF UpTo
    <3>2. g[s] = Weight(First(s)) + g[rest]
      BY <1>3, <2>2, <3>1
    <3>3. Bounded(rest)
      BY <1>5, <3>1
    <3>4. Weight(First(s)) \in Int /\ Weight(First(s)) <= 40
          /\ (~Behavioral(First(s)) => Weight(First(s)) = 0)
      BY WeightIsBounded
    <3>5. CASE Behavioral(First(s))
      <4>1. NoBehaviour(rest)
        BY <1>2, <3>1, <3>5 DEF OneBehaviour, NoBehaviour
      <4>2. ~NoBehaviour(s)
        BY <3>1, <3>5 DEF NoBehaviour
      <4>3. QED
        BY <3>2, <3>3, <3>4, <4>1, <4>2
    <3>6. CASE ~Behavioral(First(s))
      <4>1. NoBehaviour(s) => NoBehaviour(rest)
        BY DEF NoBehaviour
      <4>2. QED
        BY <3>2, <3>3, <3>4, <3>6, <4>1
    <3>7. QED
      BY <3>5, <3>6
  <2>3. QED
    BY <2>1, <2>2
<1>6. \A n \in Nat : n \in P
  <2> HIDE DEF P
  <2>1. QED
    BY <1>4, <1>5, CountingUp
<1>7. S \in UpTo(S, Cardinality(S)) /\ Cardinality(S) \in Nat
  BY <1>2 DEF UpTo
<1>8. Bounded(S)
  BY <1>6, <1>7
<1>9. QED
  BY <1>1, <1>8 DEF BEHAVIOR_MEMORY_THRESHOLD

------------------------------------------------------------------------------
(* Where evidence comes from.                                                  *)

\* Evidence s of user u for a memory of this type about this content.
Own(u, type, content, s) ==
  /\ IsFiniteSet(s)
  /\ \A e \in s : e.user = u /\ Content(e) = content
  /\ IF type = "candidate_preference" THEN ~OneBehaviour(s) ELSE NoBehaviour(s)

\* What is learnt and what is about to be learnt rests on own evidence, and the
\* histories hold their users' events.
SourcesInv ==
  /\ \A u \in Users : \A f \in FactsOf(u) : Own(u, f[1], f[2], learnt[u][f])
  /\ \A u \in Users : \A i \in DOMAIN history[u] : history[u][i].user = u
  /\ \A t \in Threads : Busy(t) /\ task[t].pc = "store" =>
       Own(task[t].event.user, task[t].candidate.type, Content(task[t].event),
           task[t].candidate.sources)

\* The evidence an event finds in a history is finite, of the history's user and
\* about the event's content.
LEMMA SupportingIsOwn ==
  ASSUME NEW h \in Seq(Event), NEW e \in Event, \A i \in DOMAIN h : h[i].user = e.user
  PROVE  /\ IsFiniteSet(Supporting(h, e))
         /\ \A x \in Supporting(h, e) : x.user = e.user /\ Content(x) = Content(e)
<1> DEFINE all == Append(h, e)
<1>1. /\ \A i \in DOMAIN all : all[i].user = e.user
      /\ IsFiniteSet(DOMAIN all)
  <2>1. DOMAIN all = 1 .. Len(h) + 1 /\ Len(h) + 1 \in Nat
    OBVIOUS
  <2>2. IsFiniteSet(DOMAIN all)
    BY <2>1, FS_Interval
  <2>3. QED
    BY <2>2
<1>2. /\ IsFiniteSet(RelevantHistory(h, e))
      /\ \A x \in RelevantHistory(h, e) : x.user = e.user
  <2> HIDE DEF all
  <2>1. PICK J \in SUBSET (DOMAIN all) : RelevantHistory(h, e) = {all[i] : i \in J}
    BY DEF RelevantHistory, Combined, all
  <2>2. IsFiniteSet(J)
    BY <1>1, <2>1, FS_Subset
  <2>3. IsFiniteSet({all[i] : i \in J})
    <3> DEFINE f == [i \in J |-> all[i]]
               T == {all[i] : i \in J}
    <3>1. f \in Surjection(J, T)
      BY DEF Surjection
    <3>2. QED
      BY <2>2, <3>1, FS_Surjection
  <2>4. QED
    BY <1>1, <2>1, <2>3
<1>3. IsFiniteSet(RelevantHistory(h, e) \cup {e})
  BY <1>2, FS_AddElement
<1>4. /\ Supporting(h, e) \subseteq RelevantHistory(h, e) \cup {e}
      /\ \A x \in Supporting(h, e) : Content(x) = Content(e)
  BY DEF Supporting
<1>5. QED
  BY <1>2, <1>3, <1>4, FS_Subset

\* What reaches the threshold rests on two behaviours.
LEMMA ThresholdTakesTwo ==
  ASSUME NEW s, IsFiniteSet(s), TRUE \in Crosses(Score(s))
  PROVE  ~OneBehaviour(s)
<1>1. Score(s) = BEHAVIOR_MEMORY_THRESHOLD \/ Score(s) > BEHAVIOR_MEMORY_THRESHOLD
  BY DEF Crosses
<1>2. SUFFICES ASSUME OneBehaviour(s) PROVE FALSE
  OBVIOUS
<1>3. Score(s) < BEHAVIOR_MEMORY_THRESHOLD /\ Score(s) \in Int
  BY <1>2, OneIsNotEnough
<1>4. QED
  BY <1>1, <1>3 DEF BEHAVIOR_MEMORY_THRESHOLD

\* A candidate that policy allows rests on own evidence.
LEMMA AllowedIsOwn ==
  ASSUME NEW h \in Seq(Event), NEW e \in Event, \A i \in DOMAIN h : h[i].user = e.user,
         NEW cs \in Extract(h, e), NEW c \in cs, Decide(c) = "allow"
  PROVE  Own(e.user, c.type, Content(e), c.sources)
<1> DEFINE Single(type, class, sources) ==
             {[type |-> type, class |-> class, sources |-> sources]}
           signal == e.id.payload.signal
<1>1. CASE /\ c \in Single("candidate_preference", "standard", Supporting(h, e))
           /\ TRUE \in Crosses(Score(Supporting(h, e)))
  <2>1. c.type = "candidate_preference" /\ c.sources = Supporting(h, e)
    BY <1>1
  <2>2. ~OneBehaviour(Supporting(h, e))
    BY <1>1, SupportingIsOwn, ThresholdTakesTwo
  <2>3. QED
    BY <2>1, <2>2, SupportingIsOwn DEF Own
<1>2. CASE /\ \E type \in {"explicit_preference", "exclusion", "episode", "correction_signal"} :
                c \in Single(type, "standard", {e})
           /\ ~Behavioral(e)
  <2>1. c.type # "candidate_preference" /\ c.sources = {e}
    BY <1>2
  <2>2. IsFiniteSet({e})
    BY FS_Singleton
  <2>3. QED
    BY <1>2, <2>1, <2>2 DEF Own, NoBehaviour
<1>3. CASE c \in Single("candidate_preference", "sensitive", {e})
  <2>1. c.type = "candidate_preference" /\ c.class = "sensitive"
    BY <1>3
  <2>2. Decide(c) = "review"
    BY <2>1 DEF Decide
  <2>3. QED
    BY <2>2
<1>4. QED
  <2>1. signal \in {"preference", "exclusion", "episode", "sensitive", "correction"} => ~Behavioral(e)
    BY DEF Behavioral, BehavioralSignals
  <2>2. CASE Behavioral(e)
    BY <1>1, <2>1, <2>2 DEF Extract
  <2>3. CASE ~Behavioral(e)
    <3>1. signal \in {"preference", "exclusion", "episode", "sensitive", "correction"}
      BY <2>3 DEF Extract
    <3>2. QED
      BY <1>2, <1>3, <2>3, <3>1 DEF Extract
  <2>4. QED
    BY <2>2, <2>3

\* A finite set with two elements has at least two.
LEMMA TwoElements ==
  ASSUME NEW s, IsFiniteSet(s), NEW d \in s, NEW e \in s, d # e
  PROVE  Cardinality(s) >= 2
<1>1. /\ IsFiniteSet(s \ {d}) /\ Cardinality(s) \in Nat
      /\ Cardinality(s \ {d}) = Cardinality(s) - 1
  BY FS_RemoveElement, FS_CardinalityType
<1>2. Cardinality(s \ {d}) # 0 /\ Cardinality(s \ {d}) \in Nat
  BY <1>1, FS_EmptySet, FS_CardinalityType
<1>3. QED
  BY <1>1, <1>2

\* Own evidence adds up.
LEMMA OwnAddsUp ==
  ASSUME NEW u, NEW type, NEW content, NEW r, NEW s,
         Own(u, type, content, r) \/ r = {}, Own(u, type, content, s)
  PROVE  Own(u, type, content, r \cup s)
<1>1. IsFiniteSet(r) /\ IsFiniteSet(s)
  BY FS_EmptySet DEF Own
<1>2. IsFiniteSet(r \cup s)
  BY <1>1, FS_Union
<1>3. \A e \in r \cup s : e.user = u /\ Content(e) = content
  BY DEF Own
<1>4. CASE type = "candidate_preference"
  <2>1. ~OneBehaviour(r \cup s)
    BY <1>4 DEF Own, OneBehaviour
  <2>2. QED
    BY <1>2, <1>3, <1>4, <2>1 DEF Own
<1>5. CASE type # "candidate_preference"
  <2>1. NoBehaviour(r \cup s)
    BY <1>5 DEF Own, NoBehaviour
  <2>2. QED
    BY <1>2, <1>3, <1>5, <2>1 DEF Own
<1>6. QED
  BY <1>4, <1>5

\* What is kept of a history was in it.
LEMMA NewestElements ==
  ASSUME NEW s \in Seq(Event), NEW i \in DOMAIN Newest(s)
  PROVE  \E j \in DOMAIN s : Newest(s)[i] = s[j]
<1>1. CASE Len(s) > MaxHistory
  <2>1. /\ Newest(s) = SubSeq(s, Len(s) - MaxHistory + 1, Len(s))
        /\ Len(s) - MaxHistory + 1 \in 1 .. Len(s) + 1
    BY <1>1, MaxHistoryAssumption DEF Newest
  <2>2. i \in 1 .. MaxHistory /\ Newest(s)[i] = s[Len(s) - MaxHistory + i]
    BY <1>1, <2>1, MaxHistoryAssumption
  <2>3. Len(s) - MaxHistory + i \in DOMAIN s
    BY <1>1, <2>2, MaxHistoryAssumption
  <2>4. QED
    BY <2>2, <2>3
<1>2. QED
  BY <1>1 DEF Newest

LEMMA InitSources == Init => SourcesInv
  BY DEF Init, SourcesInv, FactsOf, Busy

\* A step that leaves the stores alone, of a request that is not about to store.
LEMMA QuietSources ==
  ASSUME SourcesInv, NEW t \in Threads,
         Busy(t)' /\ task'[t].pc = "store" =>
           Own(task'[t].event.user, task'[t].candidate.type, Content(task'[t].event),
               task'[t].candidate.sources),
         \A s \in Threads \ {t} : task'[s] = task[s],
         UNCHANGED <<history, learnt>>
  PROVE  SourcesInv'
  BY DEF SourcesInv, Busy, FactsOf

LEMMA IngestSources ==
  ASSUME TypeOK, SourcesInv, NEW t \in Threads, NEW e \in Event, Ingest(t, e)
  PROVE  SourcesInv'
<1>1. UNCHANGED <<history, learnt>>
  BY DEF Ingest
<1>2. CASE UNCHANGED task
  BY <1>1, <1>2 DEF SourcesInv, Busy, FactsOf
<1>3. CASE \E pc \in {"register", "read", "append"} :
             task' = [task EXCEPT ![t] = [pc |-> pc, event |-> e]]
  <2>1. PICK pc \in {"register", "read", "append"} :
               task' = [task EXCEPT ![t] = [pc |-> pc, event |-> e]]
    BY <1>3
  <2>2. task'[t].pc # "store" /\ \A s \in Threads \ {t} : task'[s] = task[s]
    BY <2>1, BeginsKeeps DEF Pc
  <2>3. QED
    BY <1>1, <2>2, QuietSources
<1>4. QED
  BY <1>2, <1>3, IngestMoves

LEMMA ReadSources ==
  ASSUME TypeOK, SourcesInv, NEW t \in Threads, ReadHistory(t)
  PROVE  SourcesInv'
<1> DEFINE e == task[t].event
           h == history[e.user]
<1>1. e \in Event /\ e.user \in Users /\ DOMAIN task = Threads
  BY ReadMoves, EventParts DEF GoesOn, Busy, TypeOK
<1>2. h \in Seq(Event) /\ \A i \in DOMAIN h : h[i].user = e.user
  BY <1>1 DEF TypeOK, SourcesInv
<1>3. UNCHANGED <<history, learnt>>
  BY DEF ReadHistory
<1>4. CASE Goto(t, "append")
  <2>1. GoesOn(t, {"append"})
    BY <1>4, ReadMoves, GotoMoves DEF GoesOn
  <2>2. task'[t].pc # "store" /\ \A s \in Threads \ {t} : task'[s] = task[s]
    BY <2>1, GoesOnKeeps DEF Pc
  <2>3. QED
    BY <1>3, <2>2, QuietSources
<1>5. CASE ~Goto(t, "append")
  <2>1. PICK cs \in Extract(h, e) : \E c \in cs :
          /\ Decide(c) = "allow"
          /\ task' = [task EXCEPT ![t] = [pc |-> "store", event |-> e, candidate |-> c]]
    BY <1>5 DEF ReadHistory
  <2>2. PICK c \in cs :
          /\ Decide(c) = "allow"
          /\ task' = [task EXCEPT ![t] = [pc |-> "store", event |-> e, candidate |-> c]]
    BY <2>1
  <2>3. Own(e.user, c.type, Content(e), c.sources)
    BY <1>1, <1>2, <2>2, AllowedIsOwn
  <2>4. /\ task'[t].event = e /\ task'[t].candidate = c
        /\ \A s \in Threads \ {t} : task'[s] = task[s]
    BY <1>1, <2>2
  <2>5. QED
    BY <1>3, <2>3, <2>4, QuietSources
<1>6. QED
  BY <1>4, <1>5

LEMMA FailureSources ==
  ASSUME TypeOK, SourcesInv, NEW t \in Threads, ExtractionFails(t)
  PROVE  SourcesInv'
<1>1. ~Busy(t)' /\ \A s \in Threads \ {t} : task'[s] = task[s]
  BY FailureReturns, ReturnKeeps
<1>2. QED
  BY <1>1, FailureReturns, QuietSources

LEMMA StoreSources ==
  ASSUME TypeOK, SourcesInv, NEW t \in Threads, StoreMemory(t)
  PROVE  SourcesInv'
<1> DEFINE e == task[t].event
           c == task[t].candidate
           f == Fact(c, e)
<1>1. Busy(t) /\ task[t].pc = "store" /\ history' = history /\ Learn(e.user, f, c.sources)
  BY PcOfIdle DEF StoreMemory, Busy, Pc
<1>2. e.user \in Users /\ DOMAIN learnt = Users
  BY <1>1, EventParts DEF Busy, TypeOK
<1>3. Own(e.user, c.type, Content(e), c.sources)
  BY <1>1 DEF SourcesInv
<1>4. /\ task'[t].pc # "store"
      /\ \A s \in Threads \ {t} : task'[s] = task[s]
  <2>1. CASE GoesOn(t, {"append"})
    BY <2>1, GoesOnKeeps DEF Pc
  <2>2. CASE Return(t)
    BY <2>2, ReturnKeeps DEF Busy, Idle
  <2>3. QED
    BY <2>1, <2>2, StoreMoves
<1>5. \A u \in Users : \A g \in DOMAIN learnt'[u] : Own(u, g[1], g[2], learnt'[u][g])
  <2>1. f[1] = c.type /\ f[2] = Content(e)
    BY DEF Fact
  <2>2. Own(e.user, f[1], f[2], Known(e.user, f)) \/ Known(e.user, f) = {}
    BY <1>2 DEF Known, SourcesInv
  <2>3. Own(e.user, f[1], f[2], Known(e.user, f) \cup c.sources)
    BY <1>3, <2>1, <2>2, OwnAddsUp
  <2> DEFINE own == [g \in FactsOf(e.user) \cup {f} |->
                       IF g = f THEN Known(e.user, f) \cup c.sources ELSE learnt[e.user][g]]
  <2>4. learnt'[e.user] = own /\ \A u \in Users \ {e.user} : learnt'[u] = learnt[u]
    BY <1>1, <1>2 DEF Learn
  <2>5. \A g \in DOMAIN own : Own(e.user, g[1], g[2], own[g])
    BY <1>2, <2>3 DEF SourcesInv
  <2> HIDE DEF own, f
  <2>6. QED
    BY <2>4, <2>5 DEF SourcesInv, FactsOf
<1>6. QED
  BY <1>1, <1>4, <1>5 DEF SourcesInv, FactsOf, Busy

\* The history changes: what is appended is the user's, what is left was there.
LEMMA HistorySources ==
  ASSUME TypeOK, SourcesInv, NEW t \in Threads, AppendEvidence(t) \/ TrimEvidence(t)
  PROVE  SourcesInv'
<1> DEFINE e == task[t].event
<1>1. Busy(t) /\ learnt' = learnt
  <2>1. task[t].pc \in {"append", "trim"} /\ learnt' = learnt
    BY DEF AppendEvidence, TrimEvidence
  <2>2. QED
    BY <2>1, PcOfIdle DEF Busy, Pc
<1>2. e \in Event /\ e.user \in Users /\ DOMAIN history = Users /\ history[e.user] \in Seq(Event)
  BY <1>1, EventParts DEF Busy, TypeOK
<1>3. /\ task'[t].pc # "store"
      /\ \A s \in Threads \ {t} : task'[s] = task[s]
  <2>1. CASE GoesOn(t, {"trim"})
    BY <2>1, GoesOnKeeps DEF Pc
  <2>2. CASE Return(t)
    BY <2>2, ReturnKeeps DEF Busy, Idle
  <2>3. QED
    BY <2>1, <2>2, AppendMoves DEF TrimEvidence
<1>4. \A u \in Users : \A i \in DOMAIN history'[u] : history'[u][i].user = u
  <2>1. \A i \in DOMAIN history[e.user] : history[e.user][i].user = e.user
    BY <1>2 DEF SourcesInv
  <2>2. CASE AppendEvidence(t)
    <3>1. /\ history'[e.user] = Append(history[e.user], e)
          /\ \A u \in Users \ {e.user} : history'[u] = history[u]
      BY <1>2, <2>2 DEF AppendEvidence
    <3>2. \A i \in DOMAIN history'[e.user] : history'[e.user][i].user = e.user
      <4> DEFINE h == history[e.user]
                 n == Len(h) + 1
      <4>1. /\ DOMAIN Append(h, e) = DOMAIN h \cup {n}
            /\ Append(h, e)[n] = e
            /\ \A i \in DOMAIN h : Append(h, e)[i] = h[i]
        BY <1>2, AppendParts
      <4> HIDE DEF h, n
      <4>2. \A i \in DOMAIN Append(h, e) : Append(h, e)[i].user = e.user
        BY <2>1, <4>1 DEF h
      <4>3. QED
        BY <3>1, <4>2 DEF h
    <3>3. QED
      BY <3>1, <3>2 DEF SourcesInv
  <2>3. CASE TrimEvidence(t)
    <3>1. /\ history'[e.user] = Newest(history[e.user])
          /\ \A u \in Users \ {e.user} : history'[u] = history[u]
      BY <1>2, <2>3 DEF TrimEvidence
    <3>2. \A i \in DOMAIN history'[e.user] : history'[e.user][i].user = e.user
      BY <1>2, <2>1, <3>1, NewestElements
    <3>3. QED
      BY <3>1, <3>2 DEF SourcesInv
  <2>4. QED
    BY <2>2, <2>3
<1>5. QED
  BY <1>1, <1>3, <1>4 DEF SourcesInv, FactsOf, Busy

\* Every step keeps evidence apart.
LEMMA StepSources == TypeOK /\ SourcesInv /\ [Next]_vars => SourcesInv'
<1> SUFFICES ASSUME TypeOK, SourcesInv, [Next]_vars PROVE SourcesInv'
  OBVIOUS
<1>1. CASE UNCHANGED vars
  BY <1>1 DEF vars, SourcesInv, FactsOf, Busy
<1>2. CASE Next
  <2>1. PICK t \in Threads :
           \/ \E e \in Event : Ingest(t, e)
           \/ Register(t) \/ ReadHistory(t) \/ ExtractionFails(t) \/ StoreMemory(t)
           \/ AppendEvidence(t) \/ TrimEvidence(t)
    BY <1>2, StepCases
  <2>2. CASE Register(t)
    <3>1. {"read", "append"} \in SUBSET Pc
      BY DEF Pc
    <3>2. task'[t].pc # "store" /\ \A s \in Threads \ {t} : task'[s] = task[s]
      BY <2>2, <3>1, RegisterMoves, GoesOnKeeps
    <3>3. UNCHANGED <<history, learnt>>
      BY <2>2 DEF Register
    <3>4. QED
      BY <3>2, <3>3, QuietSources
  <2>3. QED
    BY <2>1, <2>2, IngestSources, ReadSources, FailureSources, StoreSources, HistorySources
<1>3. QED
  BY <1>1, <1>2

\* Own evidence is what SourcesAreOwn asks for.
LEMMA OwnSuffices == SourcesInv => SourcesAreOwn
<1> SUFFICES ASSUME SourcesInv, NEW u \in Users, NEW f \in FactsOf(u)
             PROVE  LET behaviour == {e \in learnt[u][f] : Behavioral(e)}
                    IN  /\ \A e \in learnt[u][f] : e.user = u /\ Content(e) = f[2]
                        /\ IF f[1] = "candidate_preference" THEN Cardinality(behaviour) >= 2
                           ELSE behaviour = {}
  BY DEF SourcesAreOwn
<1> DEFINE behaviour == {e \in learnt[u][f] : Behavioral(e)}
<1>1. Own(u, f[1], f[2], learnt[u][f])
  BY DEF SourcesInv
<1>2. \A e \in learnt[u][f] : e.user = u /\ Content(e) = f[2]
  BY <1>1 DEF Own
<1>3. CASE f[1] = "candidate_preference"
  <2>1. IsFiniteSet(behaviour)
    BY <1>1, FS_Subset DEF Own
  <2>2. PICK d \in behaviour, e \in behaviour : d # e
    BY <1>1, <1>3 DEF Own, OneBehaviour
  <2>3. Cardinality(behaviour) >= 2
    BY <2>1, <2>2, TwoElements
  <2>4. QED
    BY <1>2, <1>3, <2>3
<1>4. CASE f[1] # "candidate_preference"
  <2>1. behaviour = {}
    BY <1>1, <1>4 DEF Own, NoBehaviour
  <2>2. QED
    BY <1>2, <1>4, <2>1
<1>5. QED
  BY <1>3, <1>4

\* However requests interleave and fail, a memory rests on events its user
\* submitted about its content, what was stated on statements alone, and a habit
\* on two submissions of behaviour or more: that is what the threshold of the
\* score amounts to, for every window and every history.
THEOREM MemoriesRestOnOwnEvidence == Spec => []SourcesAreOwn
<1>1. Init => SourcesInv
  BY InitSources
<1>2. TypeOK /\ SourcesInv /\ [Next]_vars => SourcesInv'
  BY StepSources
<1>3. SourcesInv => SourcesAreOwn
  BY OwnSuffices
<1>4. QED
  BY <1>1, <1>2, <1>3, TypeCorrect, PTL DEF Spec

------------------------------------------------------------------------------
(* Enough evidence is a memory, for a user whose requests never overlapped.    *)

\* After the events before, e makes the evidence for a habit sufficient.
Habit(before, e) ==
  /\ Behavioral(e) /\ e.id.payload.valid /\ e.id.payload.type # "none"
  /\ Score(Supporting(Newest(before), e)) > BEHAVIOR_MEMORY_THRESHOLD

\* If so, that evidence is among the memories l.
Learnt(before, e, l) ==
  LET fact == <<"candidate_preference", Content(e)>>
  IN  Habit(before, e) => fact \in DOMAIN l /\ Supporting(Newest(before), e) \subseteq l[fact]

RequestOf(t, u) == Busy(t) /\ task[t].event.user = u

\* The candidate of a request w that will store one is the habit, if there is
\* one, and what a request is about to append has been learnt.
Learning(w, a, l) ==
  /\ w.pc = "store" /\ Habit(a, w.event) =>
       /\ w.candidate.type = "candidate_preference"
       /\ w.candidate.sources = Supporting(Newest(a), w.event)
  /\ w.pc = "append" => Learnt(a, w.event, l)

\* A user u of one request at a time.
Settled(u) ==
  /\ \A s, t \in Threads : RequestOf(s, u) /\ RequestOf(t, u) => s = t
  /\ appended[u] # <<>> => Learnt(Front(appended[u]), Last(appended[u]), learnt[u])
  /\ \A t \in Threads : RequestOf(t, u) => Learning(task[t], appended[u], learnt[u])

SettledInv == \A u \in Users \ overlapped : Settled(u)

LEMMA InitSettled == Init => SettledInv
  BY DEF Init, SettledInv, Settled, RequestOf, Busy

\* A history with no trim due is the end of what was appended.
LEMMA RecentIsNewest ==
  ASSUME NEW h \in Seq(Event), NEW a \in Seq(Event), RecentOf(h, a, 0)
  PROVE  h = Newest(a)
<1>1. /\ Len(h) <= Len(a) /\ Len(h) <= MaxHistory
      /\ Len(h) >= MaxHistory \/ Len(h) = Len(a)
      /\ \A i \in 1 .. Len(h) : h[i] = a[Len(a) - Len(h) + i]
  BY MaxHistoryAssumption DEF RecentOf, EndOf
<1>2. CASE Len(a) > MaxHistory
  <2>1. Len(h) = MaxHistory
    BY <1>1, <1>2, MaxHistoryAssumption
  <2> DEFINE n == SubSeq(a, Len(a) - MaxHistory + 1, Len(a))
  <2>2. /\ n \in Seq(Event) /\ Len(n) = MaxHistory
        /\ \A i \in 1 .. MaxHistory : n[i] = a[Len(a) - MaxHistory + i]
    <3>1. Newest(a) = n
      BY <1>2 DEF Newest
    <3>2. n \in Seq(Event)
      BY <3>1, NewestTyped
    <3>3. QED
      BY <1>2, <3>2, MaxHistoryAssumption
  <2>3. n = Newest(a)
    BY <1>2 DEF Newest
  <2> HIDE DEF n
  <2>4. h = n
    BY <1>1, <2>1, <2>2
  <2>5. QED
    BY <2>3, <2>4
<1>3. CASE ~(Len(a) > MaxHistory)
  <2>1. Len(h) = Len(a)
    BY <1>1, <1>3, MaxHistoryAssumption
  <2>2. \A i \in 1 .. Len(h) : h[i] = a[i]
    BY <1>1, <2>1
  <2>3. h = a
    BY <2>1, <2>2
  <2>4. QED
    BY <1>3, <2>3 DEF Newest
<1>4. QED
  BY <1>2, <1>3

\* What is appended last is last, and the rest was there before.
LEMMA LastOfAppend ==
  ASSUME NEW a \in Seq(Event), NEW e \in Event
  PROVE  /\ Append(a, e) # <<>>
         /\ Front(Append(a, e)) = a /\ Last(Append(a, e)) = e
<1> DEFINE b == Append(a, e)
           f == SubSeq(b, 1, Len(b) - 1)
<1>1. b \in Seq(Event) /\ Len(b) = Len(a) + 1 /\ b[Len(b)] = e
      /\ \A i \in 1 .. Len(a) : b[i] = a[i]
  OBVIOUS
<1>2. f \in Seq(Event) /\ Len(f) = Len(a) /\ \A i \in 1 .. Len(a) : f[i] = b[i]
  <2> HIDE DEF b
  <2>1. QED
    BY <1>1
<1> HIDE DEF f, b
<1>3. f = a
  BY <1>1, <1>2
<1>4. Front(b) = a /\ Last(b) = e /\ b # <<>>
  BY <1>1, <1>3 DEF Front, Last, f
<1>5. QED
  BY <1>4 DEF b

\* Memories that only gain evidence have learnt what they had.
LEMMA LearntStays ==
  ASSUME NEW before, NEW e, NEW l, NEW l2, Learnt(before, e, l),
         DOMAIN l \subseteq DOMAIN l2, \A f \in DOMAIN l : l[f] \subseteq l2[f]
  PROVE  Learnt(before, e, l2)
  BY DEF Learnt

\* The step of a request of user u leaves the other users as they are.
LEMMA OtherSettled ==
  ASSUME TypeOK, SettledInv, NEW t \in Threads, NEW u \in Users \ overlapped', Settled(u),
         ~RequestOf(t, u)', \A s \in Threads \ {t} : task'[s] = task[s],
         appended'[u] = appended[u], learnt'[u] = learnt[u]
  PROVE  Settled(u)'
<1>1. \A s \in Threads : RequestOf(s, u)' => s # t /\ RequestOf(s, u) /\ task'[s] = task[s]
  BY DEF RequestOf, Busy
<1>2. QED
  BY <1>1 DEF Settled

\* The step of the one request of user u.
LEMMA OwnSettled ==
  ASSUME TypeOK, NEW t \in Threads, NEW u \in Users,
         \A s \in Threads \ {t} : ~RequestOf(s, u),
         \A s \in Threads \ {t} : task'[s] = task[s],
         appended'[u] # <<>> =>
           Learnt(Front(appended'[u]), Last(appended'[u]), learnt'[u]),
         RequestOf(t, u)' => Learning(task'[t], appended'[u], learnt'[u])
  PROVE  Settled(u)'
<1>1. \A s \in Threads : RequestOf(s, u)' => s = t
  BY DEF RequestOf, Busy
<1>2. QED
  BY <1>1 DEF Settled

LEMMA IngestSettled ==
  ASSUME TypeOK, SettledInv, NEW t \in Threads, NEW e \in Event, Ingest(t, e)
  PROVE  SettledInv'
<1> SUFFICES ASSUME NEW u \in Users \ overlapped' PROVE Settled(u)'
  BY DEF SettledInv
<1>1. UNCHANGED <<appended, learnt>> /\ task[t] = Idle
  BY DEF Ingest
<1>2. u \notin overlapped /\ Settled(u)
  BY DEF Ingest, Begins, SettledInv
<1>3. CASE UNCHANGED task
  BY <1>1, <1>2, <1>3 DEF Settled, RequestOf, Busy
<1>4. CASE /\ Begins(e)
           /\ \E pc \in {"register", AfterIngestion(e)} :
                task' = [task EXCEPT ![t] = [pc |-> pc, event |-> e]]
  <2>1. PICK pc \in {"register", AfterIngestion(e)} :
               task' = [task EXCEPT ![t] = [pc |-> pc, event |-> e]]
    BY <1>4
  <2>2. pc \in Pc /\ pc # "store" /\ (pc = "append" => ~e.id.payload.valid)
    BY DEF AfterIngestion, Pc
  <2>3. /\ task'[t].pc = pc /\ task'[t].event = e
        /\ \A s \in Threads \ {t} : task'[s] = task[s]
    BY <2>1, <2>2, BeginsKeeps
  <2>4. CASE u # e.user
    <3>1. ~RequestOf(t, u)'
      BY <2>3, <2>4 DEF RequestOf
    <3>2. QED
      BY <1>1, <1>2, <2>3, <3>1, OtherSettled
  <2>5. CASE u = e.user
    <3>1. \A s \in Threads : ~RequestOf(s, u)
      BY <1>4, <2>5 DEF Begins, Underway, RequestOf, Busy
    <3>2. Learning(task'[t], appended'[u], learnt'[u])
      BY <2>2, <2>3 DEF Learning, Learnt, Habit
    <3>3. QED
      BY <1>1, <1>2, <2>3, <3>1, <3>2, OwnSettled DEF Settled
  <2>6. QED
    BY <2>4, <2>5
<1>5. QED
  BY <1>3, <1>4 DEF Ingest

\* What is known of the one request of a user.
LEMMA OnlyRequest ==
  ASSUME TypeOK, SettledInv, NEW t \in Threads, Busy(t), task[t].event.user \notin overlapped
  PROVE  LET u == task[t].event.user IN
         /\ u \in Users /\ Settled(u) /\ RequestOf(t, u)
         /\ \A s \in Threads \ {t} : ~RequestOf(s, u)
         /\ Learning(task[t], appended[u], learnt[u])
         /\ appended[u] \in Seq(Event) /\ history[u] \in Seq(Event)
<1> DEFINE u == task[t].event.user
<1>1. u \in Users
  BY EventParts DEF TypeOK, Busy
<1>2. Settled(u) /\ RequestOf(t, u)
  BY <1>1 DEF SettledInv, RequestOf
<1>3. QED
  BY <1>1, <1>2 DEF Settled, TypeOK

\* A step of a request that appends nothing and learns nothing leaves every user
\* settled if it leaves its own so.
LEMMA QuietSettled ==
  ASSUME TypeOK, SettledInv, NEW t \in Threads, Busy(t),
         \A s \in Threads \ {t} : task'[s] = task[s],
         Busy(t)' => task'[t].event = task[t].event,
         UNCHANGED <<appended, learnt, overlapped>>,
         Busy(t)' /\ task[t].event.user \notin overlapped =>
           Learning(task'[t], appended[task[t].event.user], learnt[task[t].event.user])
  PROVE  SettledInv'
<1> SUFFICES ASSUME NEW u \in Users \ overlapped' PROVE Settled(u)'
  BY DEF SettledInv
<1>1. u \notin overlapped /\ Settled(u)
  BY DEF SettledInv
<1>2. CASE u # task[t].event.user
  <2>1. ~RequestOf(t, u)'
    BY <1>2 DEF RequestOf
  <2>2. QED
    BY <1>1, <2>1, OtherSettled
<1>3. CASE u = task[t].event.user
  <2>1. \A s \in Threads \ {t} : ~RequestOf(s, u)
    BY <1>1, <1>3, OnlyRequest
  <2>2. RequestOf(t, u)' => Learning(task'[t], appended'[u], learnt'[u])
    BY <1>1, <1>3 DEF RequestOf
  <2>3. QED
    BY <1>1, <2>1, <2>2, OwnSettled DEF Settled
<1>4. QED
  BY <1>2, <1>3

LEMMA RegisterSettled ==
  ASSUME TypeOK, SettledInv, NEW t \in Threads, Register(t)
  PROVE  SettledInv'
<1> DEFINE e == task[t].event
           pc == AfterIngestion(e)
<1>1. Busy(t) /\ UNCHANGED <<appended, learnt, overlapped>> /\ Goto(t, pc)
  BY PcOfIdle DEF Register, Busy, Pc
<1>2. pc \in {"read", "append"} /\ (pc = "append" => ~e.id.payload.valid)
  BY DEF AfterIngestion
<1>3. {pc} \in SUBSET Pc /\ GoesOn(t, {pc})
  BY <1>1, <1>2, GotoMoves DEF Pc
<1>4. /\ task'[t].pc = pc /\ task'[t].event = e
      /\ \A s \in Threads \ {t} : task'[s] = task[s]
  BY <1>3, GoesOnKeeps
<1>5. \A a, l : Learning(task'[t], a, l)
  BY <1>2, <1>4 DEF Learning, Learnt, Habit
<1>6. QED
  BY <1>1, <1>4, <1>5, QuietSettled

\* An event that makes the evidence for a habit sufficient yields that evidence as
\* the one candidate, and policy allows it.
LEMMA HabitIsExtracted ==
  ASSUME NEW h \in Seq(Event), NEW e \in Event, \A i \in DOMAIN h : h[i].user = e.user,
         Behavioral(e), e.id.payload.type # "none",
         Score(Supporting(h, e)) > BEHAVIOR_MEMORY_THRESHOLD,
         NEW cs \in Extract(h, e)
  PROVE  \E c \in cs : /\ cs = {c} /\ Decide(c) = "allow"
                       /\ c.type = "candidate_preference" /\ c.sources = Supporting(h, e)
<1> DEFINE s == Supporting(h, e)
           c == [type |-> "candidate_preference", class |-> "standard", sources |-> s]
<1>1. IsFiniteSet(s)
  BY SupportingIsOwn
<1>2. ~OneBehaviour(s)
  <2>1. SUFFICES ASSUME OneBehaviour(s) PROVE FALSE
    OBVIOUS
  <2>2. Score(s) \in Int /\ Score(s) < BEHAVIOR_MEMORY_THRESHOLD
    BY <1>1, <2>1, OneIsNotEnough
  <2>3. QED
    BY <2>2 DEF BEHAVIOR_MEMORY_THRESHOLD
<1>3. Cardinality(s) >= 2 /\ Cardinality(s) \in Nat
  BY <1>1, <1>2, TwoElements, FS_CardinalityType DEF OneBehaviour
<1>4. Crosses(Score(s)) = {TRUE}
  <2>1. Score(s) # BEHAVIOR_MEMORY_THRESHOLD
    <3>1. Score(s) = BEHAVIOR_MEMORY_THRESHOLD => ~(BEHAVIOR_MEMORY_THRESHOLD > BEHAVIOR_MEMORY_THRESHOLD)
      BY DEF BEHAVIOR_MEMORY_THRESHOLD
    <3>2. QED
      BY <3>1
  <2>2. QED
    BY <2>1 DEF Crosses
<1>5. cs = {c}
  <2>1. e.id.payload.signal \notin {"preference", "exclusion", "episode", "sensitive", "correction"}
    BY DEF Behavioral, BehavioralSignals
  <2>2. Extract(h, e) = {IF crosses THEN {c} ELSE {} : crosses \in Crosses(Score(s))}
    BY <2>1 DEF Extract
  <2>3. QED
    BY <1>4, <2>2
<1>6. c.type = "candidate_preference" /\ c.class = "standard" /\ c.sources = s
  OBVIOUS
<1> HIDE DEF c, s
<1>7. Decide(c) = "allow"
  BY <1>3, <1>6 DEF Decide
<1>8. QED
  BY <1>5, <1>6, <1>7 DEF s

LEMMA ReadSettled ==
  ASSUME TypeOK, SourcesInv, Recent, SettledInv, NEW t \in Threads, ReadHistory(t)
  PROVE  SettledInv'
<1> DEFINE e == task[t].event
           u == e.user
<1>1. Busy(t) /\ task[t].pc = "read" /\ UNCHANGED <<appended, learnt, overlapped>>
  BY PcOfIdle DEF ReadHistory, Busy, Pc
<1>2. e \in Event /\ u \in Users /\ DOMAIN task = Threads
  BY <1>1, EventParts DEF TypeOK, Busy
<1>3. GoesOn(t, {"store", "append"}) /\ {"store", "append"} \in SUBSET Pc
  BY ReadMoves DEF Pc
<1>4. /\ task'[t].event = e
      /\ \A s \in Threads \ {t} : task'[s] = task[s]
  BY <1>3, GoesOnKeeps
<1>5. ASSUME u \notin overlapped
      PROVE  Learning(task'[t], appended[u], learnt[u])
  <2>1. /\ \A s \in Threads \ {t} : ~RequestOf(s, u)
        /\ appended[u] \in Seq(Event) /\ history[u] \in Seq(Event)
    BY <1>1, <1>5, OnlyRequest
  <2>2. \A s \in Threads : task[s].pc = "trim" => Busy(s)
    BY PcOfIdle DEF Busy, Pc
  <2>3. Due(u) = {}
    BY <1>1, <2>1, <2>2 DEF Due, RequestOf
  <2>4. Cardinality(Due(u)) = 0
    BY <2>3, FS_EmptySet
  <2>5. history[u] = Newest(appended[u])
    BY <1>2, <2>1, <2>4, RecentIsNewest DEF Recent
  <2>6. \A i \in DOMAIN history[u] : history[u][i].user = u
    BY <1>2 DEF SourcesInv
  <2>7. ASSUME Habit(appended[u], e), NEW cs \in Extract(history[u], e)
        PROVE  \E c \in cs : /\ cs = {c} /\ Decide(c) = "allow"
                             /\ c.type = "candidate_preference"
                             /\ c.sources = Supporting(Newest(appended[u]), e)
    <3>1. /\ Behavioral(e) /\ e.id.payload.type # "none"
          /\ Score(Supporting(history[u], e)) > BEHAVIOR_MEMORY_THRESHOLD
      BY <2>5, <2>7 DEF Habit
    <3>2. \A i \in DOMAIN history[u] : history[u][i].user = e.user
      BY <2>6
    <3>3. \E c \in cs : /\ cs = {c} /\ Decide(c) = "allow"
                       /\ c.type = "candidate_preference"
                       /\ c.sources = Supporting(history[u], e)
      <4> HIDE DEF e, u
      <4>1. \A i \in DOMAIN history[u] : history[u][i].user = e.user
        BY <3>2
      <4>2. QED
        BY <1>2, <2>1, <2>7, <3>1, <4>1, HabitIsExtracted
    <3>4. QED
      BY <2>5, <3>3
  <2>8. PICK cs \in Extract(history[u], e) :
          \/ {c \in cs : Decide(c) = "allow"} = {} /\ Goto(t, "append")
          \/ \E c \in cs : task' = [task EXCEPT ![t] =
                                     [pc |-> "store", event |-> e, candidate |-> c]]
    BY DEF ReadHistory
  <2>9. CASE {c \in cs : Decide(c) = "allow"} = {} /\ Goto(t, "append")
    <3>1. ~Habit(appended[u], e)
      BY <2>7, <2>9
    <3>2. task'[t].pc = "append"
      BY <1>2, <2>9 DEF Goto
    <3>3. QED
      BY <1>4, <3>1, <3>2 DEF Learning, Learnt
  <2>10. CASE \E c \in cs : task' = [task EXCEPT ![t] =
                                     [pc |-> "store", event |-> e, candidate |-> c]]
    <3>1. PICK c \in cs : task' = [task EXCEPT ![t] =
                                     [pc |-> "store", event |-> e, candidate |-> c]]
      BY <2>10
    <3>2. task'[t].pc = "store" /\ task'[t].candidate = c
      BY <1>2, <3>1
    <3>3. Habit(appended[u], e) => /\ c.type = "candidate_preference"
                                   /\ c.sources = Supporting(Newest(appended[u]), e)
      BY <2>7
    <3>4. QED
      BY <1>4, <3>2, <3>3 DEF Learning
  <2>11. QED
    BY <2>8, <2>9, <2>10
<1>6. QED
  BY <1>1, <1>4, <1>5, QuietSettled

\* A request that fails before its event is appended leaves nothing to learn.
LEMMA FailureSettled ==
  ASSUME TypeOK, SettledInv, NEW t \in Threads, ExtractionFails(t)
  PROVE  SettledInv'
<1>1. ~Busy(t)' /\ \A s \in Threads \ {t} : task'[s] = task[s]
  BY FailureReturns, ReturnKeeps
<1>2. QED
  BY <1>1, FailureReturns, QuietSettled

LEMMA StoreSettled ==
  ASSUME TypeOK, SettledInv, NEW t \in Threads, StoreMemory(t)
  PROVE  SettledInv'
<1> DEFINE e == task[t].event
           c == task[t].candidate
           f == Fact(c, e)
<1>1. /\ Busy(t) /\ task[t].pc = "store" /\ UNCHANGED <<appended, overlapped>>
      /\ Learn(e.user, f, c.sources)
  BY PcOfIdle DEF StoreMemory, Busy, Pc
<1>2. e.user \in Users /\ DOMAIN learnt = Users
  BY <1>1, EventParts DEF Busy, TypeOK
<1>3. /\ \A s \in Threads \ {t} : task'[s] = task[s]
      /\ Busy(t)' => task'[t].pc = "append" /\ task'[t].event = e
  <2>1. CASE GoesOn(t, {"append"})
    <3>1. {"append"} \in SUBSET Pc
      BY DEF Pc
    <3>2. QED
      BY <2>1, <3>1, GoesOnKeeps
  <2>2. CASE Return(t)
    BY <2>2, ReturnKeeps
  <2>3. QED
    BY <2>1, <2>2, StoreMoves
<1>4. /\ \A u \in Users \ {e.user} : learnt'[u] = learnt[u]
      /\ DOMAIN learnt'[e.user] = DOMAIN learnt[e.user] \cup {f}
      /\ \A g \in DOMAIN learnt[e.user] : learnt[e.user][g] \subseteq learnt'[e.user][g]
      /\ c.sources \subseteq learnt'[e.user][f]
  <2> DEFINE own == [g \in FactsOf(e.user) \cup {f} |->
                       IF g = f THEN Known(e.user, f) \cup c.sources ELSE learnt[e.user][g]]
  <2>1. learnt'[e.user] = own /\ \A u \in Users \ {e.user} : learnt'[u] = learnt[u]
    BY <1>1, <1>2 DEF Learn
  <2> HIDE DEF f
  <2>2. QED
    BY <2>1 DEF Known, FactsOf
<1> SUFFICES ASSUME NEW u \in Users \ overlapped' PROVE Settled(u)'
  BY DEF SettledInv
<1>5. u \notin overlapped /\ Settled(u)
  BY <1>1 DEF SettledInv
<1>6. CASE u # e.user
  <2>1. ~RequestOf(t, u)'
    BY <1>3, <1>6 DEF RequestOf
  <2>2. QED
    BY <1>1, <1>3, <1>4, <1>5, <1>6, <2>1, OtherSettled
<1>7. CASE u = e.user
  <2>1. /\ \A s \in Threads \ {t} : ~RequestOf(s, u)
        /\ Learning(task[t], appended[u], learnt[u])
    BY <1>1, <1>5, <1>7, OnlyRequest
  <2>2. \A before, x : Learnt(before, x, learnt[u]) => Learnt(before, x, learnt'[u])
    BY <1>4, <1>7, LearntStays
  <2>3. Learnt(appended[u], e, learnt'[u])
    <3>1. Habit(appended[u], e) =>
            /\ f = <<"candidate_preference", Content(e)>>
            /\ c.sources = Supporting(Newest(appended[u]), e)
      BY <1>1, <2>1 DEF Learning, Fact
    <3> HIDE DEF f
    <3>2. QED
      BY <1>4, <1>7, <3>1 DEF Learnt
  <2>4. RequestOf(t, u)' => Learning(task'[t], appended'[u], learnt'[u])
    BY <1>1, <1>3, <2>3 DEF RequestOf, Learning
  <2>5. appended'[u] # <<>> => Learnt(Front(appended'[u]), Last(appended'[u]), learnt'[u])
    BY <1>1, <1>5, <2>2 DEF Settled
  <2>6. QED
    BY <1>3, <2>1, <2>4, <2>5, OwnSettled
<1>8. QED
  BY <1>6, <1>7

LEMMA AppendSettled ==
  ASSUME TypeOK, SettledInv, NEW t \in Threads, AppendEvidence(t)
  PROVE  SettledInv'
<1> DEFINE e == task[t].event
<1>1. /\ Busy(t) /\ task[t].pc = "append" /\ UNCHANGED <<learnt, overlapped>>
      /\ appended' = [appended EXCEPT ![e.user] = Append(@, e)]
  BY PcOfIdle DEF AppendEvidence, Busy, Pc
<1>2. e \in Event /\ e.user \in Users /\ DOMAIN appended = Users
  BY <1>1, EventParts DEF Busy, TypeOK
<1>3. /\ task'[t].pc = "trim" /\ task'[t].event = e
      /\ \A s \in Threads \ {t} : task'[s] = task[s]
  <2>1. {"trim"} \in SUBSET Pc
    BY DEF Pc
  <2>2. QED
    BY <2>1, AppendMoves, GoesOnKeeps
<1>4. /\ appended'[e.user] = Append(appended[e.user], e)
      /\ \A u \in Users \ {e.user} : appended'[u] = appended[u]
  BY <1>1, <1>2
<1> SUFFICES ASSUME NEW u \in Users \ overlapped' PROVE Settled(u)'
  BY DEF SettledInv
<1>5. u \notin overlapped /\ Settled(u)
  BY <1>1 DEF SettledInv
<1>6. CASE u # e.user
  <2>1. ~RequestOf(t, u)'
    BY <1>3, <1>6 DEF RequestOf
  <2>2. QED
    BY <1>1, <1>3, <1>4, <1>5, <1>6, <2>1, OtherSettled
<1>7. CASE u = e.user
  <2>1. /\ \A s \in Threads \ {t} : ~RequestOf(s, u)
        /\ Learning(task[t], appended[u], learnt[u])
        /\ appended[u] \in Seq(Event)
    BY <1>1, <1>5, <1>7, OnlyRequest
  <2>2. Front(appended'[u]) = appended[u] /\ Last(appended'[u]) = e
    BY <1>2, <1>4, <1>7, <2>1, LastOfAppend
  <2>3. Learnt(appended[u], e, learnt'[u])
    BY <1>1, <2>1 DEF Learning
  <2>4. Learning(task'[t], appended'[u], learnt'[u])
    BY <1>3 DEF Learning
  <2>5. QED
    BY <1>3, <2>1, <2>2, <2>3, <2>4, OwnSettled
<1>8. QED
  BY <1>6, <1>7

LEMMA TrimSettled ==
  ASSUME TypeOK, SettledInv, NEW t \in Threads, TrimEvidence(t)
  PROVE  SettledInv'
<1>1. Busy(t) /\ UNCHANGED <<appended, learnt, overlapped>> /\ Return(t)
  BY PcOfIdle DEF TrimEvidence, Busy, Pc
<1>2. ~Busy(t)' /\ \A s \in Threads \ {t} : task'[s] = task[s]
  BY <1>1, ReturnKeeps
<1>3. QED
  BY <1>1, <1>2, QuietSettled

\* Every step leaves the users settled whose requests never overlapped.
LEMMA StepSettled ==
  TypeOK /\ SourcesInv /\ Recent /\ SettledInv /\ [Next]_vars => SettledInv'
<1> SUFFICES ASSUME TypeOK, SourcesInv, Recent, SettledInv, [Next]_vars PROVE SettledInv'
  OBVIOUS
<1>1. CASE UNCHANGED vars
  BY <1>1 DEF vars, SettledInv, Settled, RequestOf, Busy
<1>2. CASE Next
  <2>1. PICK t \in Threads :
           \/ \E e \in Event : Ingest(t, e)
           \/ Register(t) \/ ReadHistory(t) \/ ExtractionFails(t) \/ StoreMemory(t)
           \/ AppendEvidence(t) \/ TrimEvidence(t)
    BY <1>2, StepCases
  <2>2. QED
    BY <2>1, IngestSettled, RegisterSettled, ReadSettled, FailureSettled, StoreSettled,
       AppendSettled, TrimSettled
<1>3. QED
  BY <1>1, <1>2

\* For a user whose requests never overlapped, evidence beyond the threshold is a
\* memory by the time the event that completed it is in the history: the trimmed
\* history was always enough to see it, and policy never holds it back.
THEOREM EnoughEvidenceIsLearnt == Spec => []LearningIsSettled
<1>1. Init => SourcesInv /\ Recent /\ SettledInv
  BY InitSources, InitRecent, InitSettled
<1>2. TypeOK /\ SourcesInv /\ Recent /\ SettledInv /\ [Next]_vars
        => (SourcesInv /\ Recent /\ SettledInv)'
  BY StepSources, StepRecent, StepSettled
<1>3. SettledInv => LearningIsSettled
  BY DEF SettledInv, Settled, Learnt, Habit, LearningIsSettled, FactsOf
<1>4. QED
  BY <1>1, <1>2, <1>3, TypeCorrect, PTL DEF Spec

==============================================================================
