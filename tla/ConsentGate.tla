------------------------------ MODULE ConsentGate ------------------------------
(***************************************************************************)
(* A user's consent (ConsentControlService, policy_consent.py) and the     *)
(* operations it is meant to govern (orchestration.py).  Consent is read   *)
(* and written without a lock by synchronous routes that run in a pool of  *)
(* threads, and an operation reads it once, some time before it stores or  *)
(* discloses a memory; both are taken apart here.                          *)
(*                                                                         *)
(* What an operation does with memories is MemoryOrchestration's matter;   *)
(* here it is the one step in which it stores or discloses one.  Deletion  *)
(* is possible in every state of consent and left out.                     *)
(***************************************************************************)
EXTENDS Integers, FiniteSets

CONSTANTS
  Threads,     \* the threads of the server's pool
  Subjects,    \* the users
  Operations   \* the requests issued: a subset of AllOperations

\* add_explicit_preference, process_memory_correction, process_query with
\* retrieve_memory, and explain_memory_use ask for consent; the events route
\* does not.
GatedOperations == {"preference", "correction", "query", "explanation"}
AllOperations == GatedOperations \cup {"control", "event"}

ASSUME GateOperationsAssumption == Operations \subseteq AllOperations
ASSUME GateThreadsAssumption == IsFiniteSet(Threads) /\ Threads # {}

VARIABLES
  consent,   \* InMemoryConsentStateStore._records, UNKNOWN by default
  task,      \* the request each thread is serving
  optedOut,  \* history: the users whose last accepted opt-in or opt-out was an opt-out
  late,      \* history: uses let through by consent since it was withdrawn
  overlapped \* history: the users two of whose requests ran at once

vars == <<consent, task, optedOut, late, overlapped>>

ConsentState == {"unknown", "opted_in", "opted_out", "paused"}
ControlAction == {"opt_in", "opt_out", "pause", "resume"}

Idle == [pc |-> "idle"]

Task ==
  [pc : {"put"}, by : Subjects, action : ControlAction, next : ConsentState]
    \cup [pc : {"use"}, by : Subjects, op : Operations]

TypeOK ==
  /\ consent \in [Subjects -> ConsentState]
  /\ DOMAIN task = Threads
  /\ \A t \in Threads : task[t] = Idle \/ task[t] \in Task
  /\ optedOut \cup overlapped \subseteq Subjects
  /\ late \in [Subjects -> Nat]

Init ==
  /\ consent = [u \in Subjects |-> "unknown"]
  /\ task = [t \in Threads |-> Idle]
  /\ optedOut = {}
  /\ late = [u \in Subjects |-> 0]
  /\ overlapped = {}

\* History: a request of u begins.
Begins(u) ==
  overlapped' = overlapped \cup
    {v \in {u} : \E t \in Threads : task[t] # Idle /\ task[t].by = v}

------------------------------------------------------------------------------
\* Mutation of Transitions: a user who opted out may pause.
TransitionsFromOptOut ==
  { <<"opted_in",  "pause",   "paused">>,
    <<"paused",    "resume",  "opted_in">>,
    <<"opted_in",  "opt_out", "opted_out">>,
    <<"opted_out", "opt_in",  "opted_in">>,
    <<"opted_out", "pause",   "paused">>,
    <<"unknown",   "opt_in",  "opted_in">> }

\* The table of _transition; any other pair is an error.
Transitions ==
  { <<"opted_in",  "pause",   "paused">>,
    <<"paused",    "resume",  "opted_in">>,
    <<"opted_in",  "opt_out", "opted_out">>,
    <<"opted_out", "opt_in",  "opted_in">>,
    <<"unknown",   "opt_in",  "opted_in">>,
    <<"unknown",   "opt_out", "opted_out">>,
    <<"unknown",   "pause",   "paused">> }

\* Mutation of Control: the default state is taken for the current one.
ControlFromDefault(t, u, action) ==
  /\ "control" \in Operations
  /\ task[t] = Idle
  /\ \E next \in ConsentState :
       /\ <<"unknown", action, next>> \in Transitions
       /\ task' = [task EXCEPT ![t] = [pc |-> "put", by |-> u, action |-> action, next |-> next]]
  /\ Begins(u)
  /\ UNCHANGED <<consent, optedOut, late>>

\* apply reads the state and derives the next one ...
Control(t, u, action) ==
  /\ "control" \in Operations
  /\ task[t] = Idle
  /\ \E next \in ConsentState :
       /\ <<consent[u], action, next>> \in Transitions
       /\ task' = [task EXCEPT ![t] = [pc |-> "put", by |-> u, action |-> action, next |-> next]]
  /\ Begins(u)
  /\ UNCHANGED <<consent, optedOut, late>>

\* ... and puts it.  The request is then reported as accepted.
PutConsent(t) ==
  /\ task[t].pc = "put"
  /\ consent' = [consent EXCEPT ![task[t].by] = task[t].next]
  /\ optedOut' = CASE task[t].action = "opt_out" -> optedOut \cup {task[t].by}
                   [] task[t].action = "opt_in"  -> optedOut \ {task[t].by}
                   [] OTHER -> optedOut
  /\ late' = IF task[t].next = "opted_in" THEN [late EXCEPT ![task[t].by] = 0] ELSE late
  /\ task' = [task EXCEPT ![t] = Idle]
  /\ UNCHANGED overlapped

\* Mutation of Allowed: only an opt-out forbids.
AllowedUnlessOut(state) == state # "opted_out"

\* _memory_access_allowed, and the consent checks of the policy engine, the
\* extractor and process_memory_correction.
Allowed(state) == state = "opted_in"

\* Mutation of Ask: the answer is not looked at.
AskInVain(t, u, op) ==
  /\ op \in Operations \cap GatedOperations
  /\ task[t] = Idle
  /\ task' = [task EXCEPT ![t] = [pc |-> "use", by |-> u, op |-> op]]
  /\ Begins(u)
  /\ UNCHANGED <<consent, optedOut, late>>

\* An operation that asks for consent and gets it.
Ask(t, u, op) ==
  /\ op \in Operations \cap GatedOperations
  /\ task[t] = Idle
  /\ Allowed(consent[u])
  /\ task' = [task EXCEPT ![t] = [pc |-> "use", by |-> u, op |-> op]]
  /\ Begins(u)
  /\ UNCHANGED <<consent, optedOut, late>>

\* submit_event marks every event as opted in.
SubmitEvent(t, u) ==
  /\ "event" \in Operations
  /\ task[t] = Idle
  /\ task' = [task EXCEPT ![t] = [pc |-> "use", by |-> u, op |-> "event"]]
  /\ Begins(u)
  /\ UNCHANGED <<consent, optedOut, late>>

\* The operation stores or discloses a memory.
Use(t) ==
  /\ task[t].pc = "use"
  /\ task' = [task EXCEPT ![t] = Idle]
  /\ late' = IF task[t].op \in GatedOperations /\ ~Allowed(consent[task[t].by])
             THEN [late EXCEPT ![task[t].by] = @ + 1] ELSE late
  /\ UNCHANGED <<consent, optedOut, overlapped>>

Next ==
  \E t \in Threads :
    \/ \E u \in Subjects :
         \/ \E action \in ControlAction : Control(t, u, action)
         \/ \E op \in GatedOperations : Ask(t, u, op)
         \/ SubmitEvent(t, u)
    \/ PutConsent(t)
    \/ Use(t)

Spec == Init /\ [][Next]_vars

------------------------------------------------------------------------------
\* What holds however many requests interleave.

\* Withdrawn consent stops a user's memories from being used, but for the
\* requests that were under way: at most one for each other thread (the checks
\* of process_query, retrieve_memory, explain_memory_use and the two writers).
LateUseIsBounded ==
  \A u \in Subjects : late[u] <= Cardinality(Threads) - 1

\* A request under way that uses memories was let through by the user's own
\* consent: a user who never opted in, or resumed, has none.
NobodyUsedUnasked ==
  \A t \in Threads :
    task[t].pc = "use" /\ task[t].op # "event" => consent[task[t].by] # "unknown"

------------------------------------------------------------------------------
\* What a user gets whose requests never overlap, whatever the requests of the
\* others do at the same time.

\* No memory is stored or disclosed without consent at that very moment ("it
\* was accepted by the memory policy and consent rules", orchestration.py:482).
Uses(t) == task[t].pc = "use" /\ task'[t] # task[t] /\ task[t].by \notin overlapped

UseStep ==
  \A t \in Threads : Uses(t) /\ task[t].op # "event" => Allowed(consent[task[t].by])

OnlyWithConsent == [][UseStep]_vars

\* An accepted opt-out stands until the user opts in again: not even a pause
\* or a resume gets around it (test_policy_consent.py:542 and :562).
OptOutStands == \A u \in optedOut \ overlapped : consent[u] = "opted_out"

\* Consent moves along the transition table and in no other way.
ConsentStep ==
  \A u \in Subjects \ overlapped :
    consent'[u] = consent[u]
      \/ \E action \in ControlAction : <<consent[u], action, consent'[u]>> \in Transitions

ConsentFollowsTable == [][ConsentStep]_vars

------------------------------------------------------------------------------
\* What the extractor says of itself, and the program does not keep: "Memory
\* extraction is not permitted for an opted-out subject." (memory_extraction.py:629).
\* It looks at the state in the event only, which the events route sets to
\* opted in for a user whose opt-out is stored and stands.
EventStep ==
  \A t \in Threads :
    Uses(t) /\ task[t].op = "event" /\ task[t].by \in optedOut
      => consent[task[t].by] # "opted_out"

EventsRespectOptOut == [][EventStep]_vars
================================================================================
