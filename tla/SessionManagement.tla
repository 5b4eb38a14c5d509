--------------------------- MODULE SessionManagement ---------------------------
(***************************************************************************)
(* SessionManager (session_management.py) as the events, preference and    *)
(* correction routes use it: every request looks for the user's live       *)
(* session, expires the idle ones it comes across, and then touches the    *)
(* live one or starts another.  The routes run in a pool of threads over   *)
(* one SessionManager and one dict, without a lock, so a request is taken  *)
(* apart into its reads and writes of the dict; each request carries the   *)
(* wall-clock instant it arrived at.                                       *)
(*                                                                         *)
(* Session ids are numbered in the order the sessions are started, which   *)
(* is the order of the dict.  The device, platform and domain fields are   *)
(* left out.  max_session_duration_seconds is stored by the code and never *)
(* read.                                                                   *)
(***************************************************************************)
EXTENDS Integers, FiniteSets

CONSTANTS
  Threads,      \* the threads of the server's pool
  Subjects,     \* the users
  IdleTimeout,  \* idle_timeout_seconds
  OtherCalls,   \* calls of the service no route makes: subset of {"end", "expire"}
  MaxSessions,  \* bound: how many sessions can be started
  MaxTime       \* bound: the last instant of the clock

ASSUME ThreadsAssumption == IsFiniteSet(Threads)
ASSUME IdleTimeoutAssumption == IdleTimeout \in Nat \ {0}
ASSUME MaxSessionsAssumption == MaxSessions \in Nat
ASSUME SessionTimeAssumption == MaxTime \in Nat

VARIABLES
  clock,     \* the wall clock
  sessions,  \* InMemorySessionStore._records
  task,      \* the request each thread is serving
  rejected,  \* history: the users of whom a request was turned away
  overlapped \* history: the users two of whose requests ran at once

vars == <<clock, sessions, task, rejected, overlapped>>

SessionIds == 1 .. MaxSessions
Times == 0 .. MaxTime
None == -1

Session ==
  [ subject : Subjects,
    start   : Times,
    last    : Times,
    end     : Times \cup {None},
    status  : {"active", "ended", "expired"} ]

\* listed: the active sessions of the user as get_current_subject_sessions
\* found them; chosen: the one to touch, if any; updated: the record that
\* touch_session is about to save.
Task ==
  [ pc     : {"scan", "expire", "start", "touch", "save"},
    by     : Subjects,
    at     : Times,
    listed : SUBSET (SessionIds \X Session),
    chosen : SUBSET SessionIds,
    updated : SUBSET Session ]

Idle == [pc |-> "idle"]

TypeOK ==
  /\ clock \in Times
  /\ DOMAIN sessions \subseteq SessionIds
  /\ \A id \in DOMAIN sessions : sessions[id] \in Session
  /\ DOMAIN task = Threads
  /\ \A t \in Threads : task[t] = Idle \/ task[t] \in Task
  /\ rejected \cup overlapped \subseteq Subjects

Init ==
  /\ clock = 0
  /\ sessions = [id \in {} |-> None]
  /\ task = [t \in Threads |-> Idle]
  /\ rejected = {}
  /\ overlapped = {}

------------------------------------------------------------------------------
Save(id, s) == [x \in DOMAIN sessions \cup {id} |-> IF x = id THEN s ELSE sessions[x]]

\* Mutation of FreshIds: a session can be started over a closed one.
UnusedIds ==
  {id \in SessionIds : id \notin DOMAIN sessions \/ sessions[id].status # "active"}

FreshIds == {id \in SessionIds : DOMAIN sessions = 1 .. (id - 1)}

\* Mutation of IsIdle: idleness one tick late.
IsIdleLate(s, now) == now - s.last > IdleTimeout

IsIdle(s, now) == now - s.last >= IdleTimeout

Expired(s, now) == [s EXCEPT !.end = now, !.status = "expired"]

Touched(s, at) == [s EXCEPT !.last = at, !.end = None, !.status = "active"]

NewSession(subject, at) ==
  [subject |-> subject, start |-> at, last |-> at, end |-> None, status |-> "active"]

\* The live sessions a request may pick from: get_active_session takes the one
\* with the latest activity, the oldest of them in case of a tie.
Preferred(listed) ==
  {e \in listed : \A other \in listed :
     \/ e[2].last > other[2].last
     \/ e[2].last = other[2].last /\ e[1] <= other[1]}

------------------------------------------------------------------------------
\* History: a request of subject begins.
Begins(subject) ==
  overlapped' = overlapped \cup
    {u \in {subject} : \E t \in Threads : task[t] # Idle /\ task[t].by = u}

\* A request of subject arrives at a free thread, which notes the time.
Arrive(t, subject) ==
  /\ task[t] = Idle
  /\ task' = [task EXCEPT ![t] =
               [pc |-> "scan", by |-> subject, at |-> clock, listed |-> {},
                chosen |-> {}, updated |-> {}]]
  /\ Begins(subject)
  /\ UNCHANGED <<clock, sessions, rejected>>

\* Mutation of Scan: closed sessions are listed as well.
ScanAll(t) ==
  /\ task[t].pc = "scan"
  /\ LET own == {id \in DOMAIN sessions : sessions[id].subject = task[t].by}
     IN task' = [task EXCEPT ![t].pc = "expire",
                             ![t].listed = {<<id, sessions[id]>> : id \in own}]
  /\ UNCHANGED <<clock, sessions, rejected, overlapped>>

\* get_current_subject_sessions: the sessions of the user as they are now.
Scan(t) ==
  /\ task[t].pc = "scan"
  /\ LET live == {id \in DOMAIN sessions : /\ sessions[id].subject = task[t].by
                                           /\ sessions[id].status = "active"}
     IN task' = [task EXCEPT ![t].pc = "expire",
                             ![t].listed = {<<id, sessions[id]>> : id \in live}]
  /\ UNCHANGED <<clock, sessions, rejected, overlapped>>

\* ... each idle one is saved as expired, from what was read of it.
ExpireIdle(t) ==
  /\ task[t].pc = "expire"
  /\ \E e \in task[t].listed :
       /\ IsIdle(e[2], task[t].at)
       /\ \A other \in task[t].listed : IsIdle(other[2], task[t].at) => e[1] <= other[1]
       /\ sessions' = Save(e[1], Expired(e[2], task[t].at))
       /\ task' = [task EXCEPT ![t].listed = @ \ {e}]
  /\ UNCHANGED <<clock, rejected, overlapped>>

\* Mutation of Choose: no session is ever reused.
ChooseNone(t) ==
  /\ task[t].pc = "expire"
  /\ \A e \in task[t].listed : ~IsIdle(e[2], task[t].at)
  /\ task' = [task EXCEPT ![t].pc = "start", ![t].listed = {}]
  /\ UNCHANGED <<clock, sessions, rejected, overlapped>>

\* get_active_session returns the preferred live session, or None.
Choose(t) ==
  /\ task[t].pc = "expire"
  /\ \A e \in task[t].listed : ~IsIdle(e[2], task[t].at)
  /\ task' = [task EXCEPT ![t].pc = IF task[t].listed = {} THEN "start" ELSE "touch",
                          ![t].listed = {},
                          ![t].chosen = {e[1] : e \in Preferred(task[t].listed)}]
  /\ UNCHANGED <<clock, sessions, rejected, overlapped>>

\* start_session, when there was no live session.
Start(t) ==
  /\ task[t].pc = "start"
  /\ \E id \in FreshIds : sessions' = Save(id, NewSession(task[t].by, task[t].at))
  /\ task' = [task EXCEPT ![t] = Idle]
  /\ UNCHANGED <<clock, rejected, overlapped>>

\* touch_session reads the session again ...; mutated, it wants time to have passed.
TouchAcceptedLater(s, at) == s.status = "active" /\ at > s.last

TouchAccepted(s, at) == s.status = "active" /\ at >= s.last

Touch(t) ==
  /\ task[t].pc = "touch"
  /\ \E id \in task[t].chosen :
       /\ TouchAccepted(sessions[id], task[t].at)
       /\ task' = [task EXCEPT ![t].pc = "save",
                               ![t].updated = {Touched(sessions[id], task[t].at)}]
  /\ UNCHANGED <<clock, sessions, rejected, overlapped>>

\* ... and turns the request away if it was closed or used in the meantime.
TouchRejected(t) ==
  /\ task[t].pc = "touch"
  /\ \E id \in task[t].chosen : ~TouchAccepted(sessions[id], task[t].at)
  /\ task' = [task EXCEPT ![t] = Idle]
  /\ rejected' = rejected \cup {task[t].by}
  /\ UNCHANGED <<clock, sessions, overlapped>>

\* touch_session saves what it made of the session it read.
TouchSave(t) ==
  /\ task[t].pc = "save"
  /\ \E id \in task[t].chosen, s \in task[t].updated : sessions' = Save(id, s)
  /\ task' = [task EXCEPT ![t] = Idle]
  /\ UNCHANGED <<clock, rejected, overlapped>>

------------------------------------------------------------------------------
\* The calls no route makes, each in one piece.

\* Mutation of End: the end is only compared with the last activity.
EndAtStart(id) ==
  /\ "end" \in OtherCalls
  /\ id \in DOMAIN sessions /\ sessions[id].status = "active"
  /\ clock >= sessions[id].last
  /\ sessions' = Save(id, [sessions[id] EXCEPT !.end = clock, !.status = "ended"])
  /\ Begins(sessions[id].subject)
  /\ UNCHANGED <<clock, task, rejected>>

End(id) ==
  /\ "end" \in OtherCalls
  /\ id \in DOMAIN sessions /\ sessions[id].status = "active"
  /\ clock > sessions[id].start /\ clock >= sessions[id].last
  /\ sessions' = Save(id, [sessions[id] EXCEPT !.end = clock, !.status = "ended"])
  /\ Begins(sessions[id].subject)
  /\ UNCHANGED <<clock, task, rejected>>

\* expire_session; the validator of the record wants an end after the start.
ForceExpire(id) ==
  /\ "expire" \in OtherCalls
  /\ id \in DOMAIN sessions /\ sessions[id].status = "active"
  /\ clock > sessions[id].start
  /\ sessions' = Save(id, Expired(sessions[id], IF clock < sessions[id].last
                                                  THEN sessions[id].last ELSE clock))
  /\ Begins(sessions[id].subject)
  /\ UNCHANGED <<clock, task, rejected>>

Tick ==
  /\ clock < MaxTime
  /\ clock' = clock + 1
  /\ UNCHANGED <<sessions, task, rejected, overlapped>>

Next ==
  \/ \E t \in Threads :
       \/ \E subject \in Subjects : Arrive(t, subject)
       \/ Scan(t) \/ ExpireIdle(t) \/ Choose(t) \/ Start(t)
       \/ Touch(t) \/ TouchRejected(t) \/ TouchSave(t)
  \/ \E id \in SessionIds : End(id) \/ ForceExpire(id)
  \/ Tick

Spec == Init /\ [][Next]_vars

------------------------------------------------------------------------------
\* What holds however many requests interleave.

ActiveOf(subject) ==
  {id \in DOMAIN sessions : sessions[id].subject = subject /\ sessions[id].status = "active"}

\* Stale snapshots written back by several requests never leave a record that
\* validate_state would refuse or that ends before its user was idle long
\* enough (touch_session, end_session, _expire_session).
RecordsAreConsistent ==
  \A id \in DOMAIN sessions :
    LET s == sessions[id] IN
    /\ s.start <= s.last
    /\ s.status = "active" <=> s.end = None
    /\ s.status # "active" => s.end > s.start /\ s.end >= s.last
    /\ s.status = "expired" /\ "expire" \notin OtherCalls => s.end - s.last >= IdleTimeout

\* Races open extra sessions, but the damage is bounded: a user never has more
\* active sessions than the server has threads (get_active_session followed by
\* start_session or touch_session).
AsManyAsThreads ==
  \A subject \in Subjects : Cardinality(ActiveOf(subject)) <= Cardinality(Threads)

\* A session keeps its user and its start, and is never dropped.
IdentityStep ==
  \A id \in DOMAIN sessions :
    /\ id \in DOMAIN sessions'
    /\ sessions'[id].subject = sessions[id].subject
    /\ sessions'[id].start = sessions[id].start

IdentityIsKept == [][IdentityStep]_vars

------------------------------------------------------------------------------
\* What a user gets whose requests never overlap, whatever the requests of the
\* others do at the same time.

\* Requests of a user share one session: there is never a second active one
\* (test_api_events.py:325, test_multiple_events_reuse_active_session).
OneActiveSession ==
  \A subject \in Subjects \ overlapped : Cardinality(ActiveOf(subject)) <= 1

\* An ended or expired session is never opened again ("Session has already
\* expired.", session_management.py:239).
ClosedStep ==
  \A id \in DOMAIN sessions :
    sessions[id].status # "active" /\ sessions[id].subject \notin overlapped =>
      sessions'[id] = sessions[id]

ClosedStaysClosed == [][ClosedStep]_vars

\* Activity only moves forward, and never across a gap as long as the idle
\* timeout: whoever comes back after it gets another session.
ActivityStep ==
  \A id \in DOMAIN sessions :
    sessions[id].subject \notin overlapped =>
      sessions'[id].last - sessions[id].last \in 0 .. IdleTimeout - 1

ActivityIsContinuous == [][ActivityStep]_vars

\* A request that finds a live session can use it: no request of a user in good
\* standing is turned away.
NobodyIsTurnedAway == rejected \subseteq overlapped
================================================================================
