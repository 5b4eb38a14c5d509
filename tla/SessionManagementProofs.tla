------------------------ MODULE SessionManagementProofs ------------------------
(***************************************************************************)
(* Theorems about SessionManagement, for every number of threads, users,   *)
(* sessions and instants, with and without the calls no route makes.       *)
(***************************************************************************)
EXTENDS SessionManagement, FiniteSetTheorems, TLAPS

------------------------------------------------------------------------------
(* The inductive invariant.  Some of it holds of every request; the rest says *)
(* that a request of a user without overlapping requests acts on sessions     *)
(* that are still as it read them.                                            *)

RecordOK(s) ==
  /\ s.start <= s.last
  /\ s.status = "active" <=> s.end = None
  /\ s.status # "active" => s.end > s.start /\ s.end >= s.last
  /\ s.status = "expired" /\ "expire" \notin OtherCalls => s.end - s.last >= IdleTimeout

SessionsOK(s, now) ==
  /\ DOMAIN s \subseteq SessionIds
  /\ \A id \in DOMAIN s : s[id] \in Session /\ RecordOK(s[id]) /\ s[id].last <= now

\* r is an earlier or a coming version of session id of the user by, while it
\* is open.
VersionOf(r, id, by, s) ==
  id \in DOMAIN s /\ s[id].subject = by /\ s[id].start = r.start

OpenRecord(r, by, now) ==
  r \in Session /\ RecordOK(r) /\ r.subject = by /\ r.status = "active" /\ r.last <= now

AtMostOne(S) == \A x, y \in S : x = y

\* Any request: what it listed, chose or updated are its user's sessions.
RequestOK(w, s, now) ==
  /\ w \in Task
  /\ w.at <= now
  /\ \A e \in w.listed : OpenRecord(e[2], w.by, now) /\ VersionOf(e[2], e[1], w.by, s)
  /\ AtMostOne(w.chosen)
  /\ \A id \in w.chosen : id \in DOMAIN s /\ s[id].subject = w.by
  /\ w.pc # "save" => w.updated = {}
  /\ \A r \in w.updated : OpenRecord(r, w.by, now)
  /\ \A id \in w.chosen, r \in w.updated : VersionOf(r, id, w.by, s)

Own(s, u) == {id \in DOMAIN s : s[id].subject = u}
Open(s, u) == {id \in Own(s, u) : s[id].status = "active"}

\* A request whose user has no other one: its view is current.
ViewIsCurrent(w, s) ==
  /\ \A id \in Own(s, w.by) : s[id].last <= w.at
  /\ w.pc = "expire" =>
       /\ \A e \in w.listed : s[e[1]] = e[2]
       /\ \A id \in Open(s, w.by) : <<id, s[id]>> \in w.listed
  /\ w.pc = "start" => Open(s, w.by) = {}
  /\ w.pc \in {"touch", "save"} =>
       \A id \in w.chosen : id \in Open(s, w.by) /\ w.at - s[id].last < IdleTimeout
  /\ w.pc = "save" => \A r \in w.updated : r.last = w.at

Busy(t) == task[t] # Idle

OverlapIsKnown ==
  \A s, t \in Threads :
    s # t /\ Busy(s) /\ Busy(t) /\ task[s].by = task[t].by => task[s].by \in overlapped

IInv ==
  /\ clock \in Times
  /\ SessionsOK(sessions, clock)
  /\ DOMAIN task = Threads
  /\ \A t \in Threads : Busy(t) => RequestOK(task[t], sessions, clock)
  /\ rejected \subseteq overlapped /\ overlapped \subseteq Subjects
  /\ OverlapIsKnown
  /\ \A t \in Threads :
       Busy(t) /\ task[t].by \notin overlapped => ViewIsCurrent(task[t], sessions)
  /\ \A u \in Subjects \ overlapped : AtMostOne(Open(sessions, u))

------------------------------------------------------------------------------
(* Helpers.                                                                    *)

\* Sessions keep their user and start, and none is dropped.
Grows(s, s2) ==
  /\ DOMAIN s \subseteq DOMAIN s2
  /\ \A id \in DOMAIN s : s2[id].subject = s[id].subject /\ s2[id].start = s[id].start

\* The sessions of u are what they were.
SameFor(u, s, s2) == Own(s2, u) = Own(s, u) /\ \A id \in Own(s, u) : s2[id] = s[id]

\* A request survives what others do to the sessions.
LEMMA RequestSurvives ==
  ASSUME NEW w, NEW s, NEW s2, NEW now \in Nat, NEW now2 \in Nat,
         RequestOK(w, s, now), Grows(s, s2), now <= now2
  PROVE  RequestOK(w, s2, now2)
<1>1. \A r, id : VersionOf(r, id, w.by, s) => VersionOf(r, id, w.by, s2)
  BY DEF VersionOf, Grows
<1>2. \A r : OpenRecord(r, w.by, now) => OpenRecord(r, w.by, now2)
  BY DEF OpenRecord, Session, Times
<1>3. w.at <= now2
  BY DEF RequestOK, Task, Times
<1>4. \A id \in w.chosen : id \in DOMAIN s2 /\ s2[id].subject = w.by
  BY DEF RequestOK, Grows
<1>5. QED
  BY <1>1, <1>2, <1>3, <1>4 DEF RequestOK

\* A current view stays current as long as the user's sessions stay.
LEMMA ViewSurvives ==
  ASSUME NEW w, NEW s, NEW s2, NEW now, RequestOK(w, s, now),
         ViewIsCurrent(w, s), SameFor(w.by, s, s2)
  PROVE  ViewIsCurrent(w, s2)
<1>1. Open(s2, w.by) = Open(s, w.by) /\ Own(s2, w.by) = Own(s, w.by)
  BY DEF SameFor, Open, Own
<1>2. \A id \in Own(s, w.by) : s2[id] = s[id]
  BY DEF SameFor
<1>3. \A id \in Open(s, w.by) : id \in Own(s, w.by)
  BY DEF Open
<1>4. \A e \in w.listed : e[1] \in Own(s, w.by)
  BY DEF RequestOK, VersionOf, Own
<1>5. QED
  BY <1>1, <1>2, <1>3, <1>4 DEF ViewIsCurrent

\* Saving a version of one session.
LEMMA SaveFacts ==
  ASSUME NEW now, SessionsOK(sessions, now), NEW id \in SessionIds,
         NEW r \in Session, RecordOK(r), r.last <= now,
         id \in DOMAIN sessions =>
           r.subject = sessions[id].subject /\ r.start = sessions[id].start,
         sessions' = Save(id, r)
  PROVE  /\ SessionsOK(sessions', now) /\ Grows(sessions, sessions')
         /\ \A v : v # r.subject => SameFor(v, sessions, sessions')
         /\ Own(sessions', r.subject) = Own(sessions, r.subject) \cup {id}
         /\ sessions'[id] = r
         /\ \A x \in DOMAIN sessions : x # id => sessions'[x] = sessions[x]
<1>1. /\ DOMAIN sessions' = DOMAIN sessions \cup {id}
      /\ sessions'[id] = r
      /\ \A x \in DOMAIN sessions : x # id => sessions'[x] = sessions[x]
  BY DEF Save
<1>2. SessionsOK(sessions', now) /\ Grows(sessions, sessions')
  BY <1>1 DEF SessionsOK, Grows
<1>3. \A v : v # r.subject => SameFor(v, sessions, sessions')
  BY <1>1 DEF SameFor, Own
<1>4. Own(sessions', r.subject) = Own(sessions, r.subject) \cup {id}
  BY <1>1 DEF Own
<1>5. QED
  BY <1>1, <1>2, <1>3, <1>4

------------------------------------------------------------------------------
\* The step of a request under way: its own new state has to be sound, and only
\* its user's sessions may change.
LEMMA StepIInv ==
  ASSUME IInv, NEW t \in Threads, Busy(t), NEW w,
         task' = [task EXCEPT ![t] = w],
         UNCHANGED <<clock, overlapped>>,
         w # Idle => w.by = task[t].by /\ RequestOK(w, sessions', clock),
         SessionsOK(sessions', clock), Grows(sessions, sessions'),
         \A v : v # task[t].by => SameFor(v, sessions, sessions'),
         task[t].by \notin overlapped =>
           /\ w # Idle => ViewIsCurrent(w, sessions')
           /\ AtMostOne(Open(sessions', task[t].by)),
         rejected' \subseteq overlapped
  PROVE  IInv'
<1>1. DOMAIN task' = Threads /\ task'[t] = w /\ \A s \in Threads \ {t} : task'[s] = task[s]
  BY DEF IInv
<1>2. clock \in Nat
  BY SessionTimeAssumption DEF IInv, Times
<1>3. ASSUME NEW s \in Threads, task'[s] # Idle
      PROVE  RequestOK(task'[s], sessions', clock)
  <2>1. CASE s = t
    BY <1>1, <1>3, <2>1
  <2>2. CASE s # t
    <3>1. task'[s] = task[s] /\ RequestOK(task[s], sessions, clock)
      BY <1>1, <1>3, <2>2 DEF IInv, Busy
    <3>2. RequestOK(task[s], sessions, clock) => RequestOK(task[s], sessions', clock)
      BY <1>2, RequestSurvives
    <3>3. QED
      BY <3>1, <3>2
  <2>3. QED
    BY <2>1, <2>2
<1>4. \A s \in Threads : task'[s] # Idle => task[s] # Idle /\ task'[s].by = task[s].by
  BY <1>1 DEF Busy
<1>5. OverlapIsKnown'
  BY <1>4 DEF IInv, OverlapIsKnown, Busy
<1>6. ASSUME NEW s \in Threads, task'[s] # Idle, task'[s].by \notin overlapped
      PROVE  ViewIsCurrent(task'[s], sessions')
  <2>1. CASE s = t
    BY <1>1, <1>6, <2>1
  <2>2. CASE s # t
    <3>1. task'[s] = task[s] /\ Busy(s)
      BY <1>1, <1>6, <2>2 DEF Busy
    <3>2. RequestOK(task[s], sessions, clock) /\ ViewIsCurrent(task[s], sessions)
      BY <1>6, <3>1 DEF IInv
    <3>3. task[s].by # task[t].by
      BY <1>6, <2>2, <3>1 DEF IInv, OverlapIsKnown
    <3>4. SameFor(task[s].by, sessions, sessions')
      BY <3>3
    <3>5. ViewIsCurrent(task[s], sessions')
      BY <3>2, <3>4, ViewSurvives
    <3>6. QED
      BY <3>1, <3>5
  <2>3. QED
    BY <2>1, <2>2
<1>7. ASSUME NEW u \in Subjects \ overlapped
      PROVE  AtMostOne(Open(sessions', u))
  <2>1. CASE u = task[t].by
    BY <1>7, <2>1
  <2>2. CASE u # task[t].by
    <3>1. SameFor(u, sessions, sessions')
      BY <2>2
    <3>2. Open(sessions', u) = Open(sessions, u)
      BY <3>1 DEF SameFor, Open
    <3>3. QED
      BY <1>7, <3>2 DEF IInv
  <2>3. QED
    BY <2>1, <2>2
<1>8. QED
  BY <1>1, <1>3, <1>5, <1>6, <1>7 DEF IInv, Busy

\* A step of a request that leaves the sessions alone.
LEMMA QuietStepIInv ==
  ASSUME IInv, NEW t \in Threads, Busy(t), NEW w,
         task' = [task EXCEPT ![t] = w],
         UNCHANGED <<clock, sessions, overlapped>>,
         w # Idle => w.by = task[t].by /\ RequestOK(w, sessions, clock),
         task[t].by \notin overlapped /\ w # Idle => ViewIsCurrent(w, sessions),
         rejected' \subseteq overlapped
  PROVE  IInv'
<1>1. task[t].by \in Subjects
  BY DEF IInv, RequestOK, Task
<1>2. SessionsOK(sessions', clock) /\ Grows(sessions, sessions')
  BY DEF IInv, Grows
<1>3. \A v : SameFor(v, sessions, sessions')
  BY DEF SameFor
<1>4. task[t].by \notin overlapped => AtMostOne(Open(sessions', task[t].by))
  BY <1>1 DEF IInv
<1>5. QED
  BY <1>2, <1>3, <1>4, StepIInv

------------------------------------------------------------------------------
(* The steps of a request.                                                     *)

\* What is known of a request under way.
LEMMA BusyFacts ==
  ASSUME IInv, NEW t \in Threads,
         task[t].pc \in {"scan", "expire", "start", "touch", "save"}
  PROVE  /\ Busy(t) /\ RequestOK(task[t], sessions, clock) /\ task[t] \in Task
         /\ task[t].by \in Subjects /\ task[t].at \in Times /\ task[t].at <= clock
         /\ task[t].by \notin overlapped =>
              /\ ViewIsCurrent(task[t], sessions)
              /\ AtMostOne(Open(sessions, task[t].by))
<1>1. Busy(t)
  BY DEF Busy, Idle
<1>2. RequestOK(task[t], sessions, clock)
  BY <1>1 DEF IInv
<1>3. task[t] \in Task /\ task[t].at <= clock
  BY <1>2 DEF RequestOK
<1>4. task[t].by \in Subjects /\ task[t].at \in Times
  BY <1>3 DEF Task
<1>5. task[t].by \notin overlapped =>
        ViewIsCurrent(task[t], sessions) /\ AtMostOne(Open(sessions, task[t].by))
  BY <1>1, <1>4 DEF IInv
<1>6. QED
  BY <1>1, <1>2, <1>3, <1>4, <1>5

\* A request that arrives has seen nothing yet; a second one of its user is noted.
LEMMA ArriveIInv ==
  ASSUME IInv, NEW t \in Threads, NEW subject \in Subjects, Arrive(t, subject)
  PROVE  IInv'
<1> DEFINE w == [pc |-> "scan", by |-> subject, at |-> clock, listed |-> {},
                 chosen |-> {}, updated |-> {}]
<1>1. /\ ~Busy(t) /\ task' = [task EXCEPT ![t] = w] /\ Begins(subject)
      /\ UNCHANGED <<clock, sessions, rejected>>
  BY DEF Arrive, Busy
<1>2. w \in Task /\ w # Idle /\ w.by = subject
  BY DEF IInv, Task, Idle
<1>3. clock \in Nat
  BY SessionTimeAssumption DEF IInv, Times
<1>4. RequestOK(w, sessions, clock)
  BY <1>2, <1>3 DEF RequestOK, AtMostOne
<1>5. \A id \in Own(sessions, subject) : sessions[id].last <= clock
  BY DEF IInv, SessionsOK, Own
<1>6. ViewIsCurrent(w, sessions)
  BY <1>5 DEF ViewIsCurrent
<1> HIDE DEF w
<1>7. DOMAIN task' = Threads /\ task'[t] = w /\ \A s \in Threads \ {t} : task'[s] = task[s]
  BY <1>1 DEF IInv
<1>8. /\ overlapped \subseteq overlapped' /\ overlapped' \subseteq Subjects
      /\ \A s \in Threads : Busy(s) /\ task[s].by = subject => subject \in overlapped'
  BY <1>1 DEF Begins, Busy, IInv
<1>9. OverlapIsKnown'
  BY <1>1, <1>2, <1>7, <1>8 DEF IInv, OverlapIsKnown, Busy
<1>10. \A s \in Threads : task'[s] # Idle => RequestOK(task'[s], sessions, clock)
  BY <1>4, <1>7 DEF IInv, Busy
<1>11. \A s \in Threads : task'[s] # Idle /\ task'[s].by \notin overlapped' =>
         ViewIsCurrent(task'[s], sessions)
  BY <1>6, <1>7, <1>8 DEF IInv, Busy
<1>12. QED
  BY <1>1, <1>7, <1>8, <1>9, <1>10, <1>11 DEF IInv, Busy

\* Scanning takes the open sessions of the user as they are.
LEMMA ScanIInv ==
  ASSUME IInv, NEW t \in Threads, Scan(t)
  PROVE  IInv'
<1> DEFINE live == Open(sessions, task[t].by)
           seen == {<<id, sessions[id]>> : id \in live}
           w == [task[t] EXCEPT !.pc = "expire", !.listed = seen]
<1>1. task[t].pc = "scan" /\ UNCHANGED <<clock, sessions, rejected, overlapped>>
  BY DEF Scan
<1>2. task' = [task EXCEPT ![t] = w]
  <2>1. live = {id \in DOMAIN sessions : /\ sessions[id].subject = task[t].by
                                         /\ sessions[id].status = "active"}
    BY DEF Open, Own
  <2>2. task' = [task EXCEPT ![t].pc = "expire", ![t].listed = seen]
    BY <2>1 DEF Scan
  <2> HIDE DEF seen
  <2>3. QED
    BY <2>2 DEF IInv
<1>3. \A e \in seen : /\ e[1] \in live /\ e[2] = sessions[e[1]]
                      /\ e \in SessionIds \X Session
                      /\ OpenRecord(e[2], task[t].by, clock)
                      /\ VersionOf(e[2], e[1], task[t].by, sessions)
  BY DEF IInv, SessionsOK, Open, Own, OpenRecord, VersionOf
<1>4. \A id \in live : <<id, sessions[id]>> \in seen
  OBVIOUS
<1> HIDE DEF seen
<1>5. /\ w \in Task /\ w.pc = "expire" /\ w.by = task[t].by /\ w.at = task[t].at
      /\ w.listed = seen /\ w.chosen = task[t].chosen /\ w.updated = task[t].updated
  BY <1>1, <1>3, BusyFacts DEF Task
<1> HIDE DEF w
<1>6. RequestOK(w, sessions, clock)
  BY <1>1, <1>3, <1>5, BusyFacts DEF RequestOK
<1>7. task[t].by \notin overlapped => ViewIsCurrent(w, sessions)
  BY <1>1, <1>3, <1>4, <1>5, BusyFacts DEF ViewIsCurrent
<1>8. QED
  BY <1>1, <1>2, <1>5, <1>6, <1>7, BusyFacts, QuietStepIInv DEF IInv

\* Expiring an idle session writes a sound record, and a current one if its user
\* has no other request.
LEMMA ExpireIdleIInv ==
  ASSUME IInv, NEW t \in Threads, ExpireIdle(t)
  PROVE  IInv'
<1> DEFINE u == task[t].by
<1>1. task[t].pc = "expire" /\ UNCHANGED <<clock, rejected, overlapped>>
  BY DEF ExpireIdle
<1>2. PICK e \in task[t].listed :
        /\ IsIdle(e[2], task[t].at)
        /\ sessions' = Save(e[1], Expired(e[2], task[t].at))
        /\ task' = [task EXCEPT ![t].listed = @ \ {e}]
  BY DEF ExpireIdle
<1> DEFINE w == [task[t] EXCEPT !.listed = @ \ {e}]
           r == Expired(e[2], task[t].at)
<1>3. /\ RequestOK(task[t], sessions, clock) /\ task[t] \in Task
      /\ task[t].at \in Times /\ u \in Subjects
  BY <1>1, BusyFacts
<1>4. task' = [task EXCEPT ![t] = w]
  BY <1>2 DEF IInv
<1>5. OpenRecord(e[2], u, clock) /\ VersionOf(e[2], e[1], u, sessions)
  BY <1>3 DEF RequestOK
<1>6. e[1] \in DOMAIN sessions /\ e[1] \in SessionIds /\ SessionsOK(sessions, clock)
  BY <1>5 DEF VersionOf, IInv, SessionsOK
<1>7. /\ r \in Session /\ r.status = "expired" /\ r.end = task[t].at
      /\ r.last = e[2].last /\ r.start = e[2].start /\ r.subject = u
  BY <1>3, <1>5 DEF OpenRecord, Expired, Session
<1>8. RecordOK(r)
  <2>1. e[2].start <= e[2].last /\ e[2].last \in Int /\ e[2].start \in Int
    BY <1>5 DEF OpenRecord, RecordOK, Session, Times
  <2>2. task[t].at - e[2].last >= IdleTimeout /\ task[t].at \in Int /\ task[t].at # None
    BY <1>2, <1>3 DEF IsIdle, Times, None
  <2> HIDE DEF r
  <2>3. QED
    BY <1>7, <2>1, <2>2, IdleTimeoutAssumption DEF RecordOK
<1>9. r.last <= clock
  BY <1>5, <1>7 DEF OpenRecord
<1>10. r.subject = sessions[e[1]].subject /\ r.start = sessions[e[1]].start
  BY <1>5, <1>7 DEF VersionOf
<1> HIDE DEF r
<1>11. /\ SessionsOK(sessions', clock) /\ Grows(sessions, sessions')
       /\ \A v : v # u => SameFor(v, sessions, sessions')
       /\ Own(sessions', u) = Own(sessions, u) \cup {e[1]}
       /\ sessions'[e[1]] = r
       /\ \A x \in DOMAIN sessions : x # e[1] => sessions'[x] = sessions[x]
  BY <1>2, <1>6, <1>7, <1>8, <1>9, <1>10, SaveFacts DEF r
<1>12. /\ w \in Task /\ w.pc = "expire" /\ w.by = u /\ w.at = task[t].at
       /\ w.listed = task[t].listed \ {e}
       /\ w.chosen = task[t].chosen /\ w.updated = task[t].updated
  BY <1>1, <1>3 DEF Task
<1> HIDE DEF w
<1>13. RequestOK(w, sessions, clock)
  BY <1>1, <1>3, <1>12 DEF RequestOK
<1>14. RequestOK(w, sessions', clock)
  <2>1. clock \in Nat
    BY SessionTimeAssumption DEF IInv, Times
  <2>2. QED
    BY <1>11, <1>13, <2>1, RequestSurvives
<1>15. e[1] \in Own(sessions, u)
  BY <1>5 DEF VersionOf, Own
<1>16. Open(sessions', u) = Open(sessions, u) \ {e[1]}
  BY <1>7, <1>11, <1>15 DEF Open, Own
<1>17. ASSUME u \notin overlapped
       PROVE  ViewIsCurrent(w, sessions') /\ AtMostOne(Open(sessions', u))
  <2>1. ViewIsCurrent(task[t], sessions) /\ AtMostOne(Open(sessions, u))
    BY <1>1, <1>17, BusyFacts
  <2>2. \A id \in Own(sessions', u) : sessions'[id].last <= w.at
    <3>1. r.last <= task[t].at
      <4>1. sessions[e[1]] = e[2] /\ sessions[e[1]].last <= task[t].at
        BY <1>1, <1>15, <2>1 DEF ViewIsCurrent
      <4>2. QED
        BY <1>7, <4>1
    <3>2. QED
      BY <1>11, <1>12, <1>15, <2>1, <3>1 DEF ViewIsCurrent, Own
  <2>3. \A x \in w.listed : sessions'[x[1]] = x[2]
    <3>1. ASSUME NEW x \in task[t].listed, x # e
          PROVE  x[1] # e[1] /\ x[1] \in DOMAIN sessions /\ sessions[x[1]] = x[2]
      <4>1. sessions[x[1]] = x[2] /\ sessions[e[1]] = e[2]
        BY <1>1, <2>1 DEF ViewIsCurrent
      <4>2. x \in SessionIds \X Session /\ e \in SessionIds \X Session
        BY <1>3 DEF Task
      <4>3. x[1] # e[1]
        BY <3>1, <4>1, <4>2
      <4>4. x[1] \in DOMAIN sessions
        BY <1>3 DEF RequestOK, VersionOf
      <4>5. QED
        BY <4>1, <4>3, <4>4
    <3>2. QED
      BY <1>11, <1>12, <3>1
  <2>4. \A id \in Open(sessions', u) : <<id, sessions'[id]>> \in w.listed
    <3>1. ASSUME NEW id \in Open(sessions', u)
          PROVE  <<id, sessions'[id]>> \in w.listed
      <4>1. id \in Open(sessions, u) /\ id # e[1]
        BY <1>16
      <4>2. <<id, sessions[id]>> \in task[t].listed
        BY <1>1, <2>1, <4>1 DEF ViewIsCurrent
      <4>3. sessions'[id] = sessions[id]
        BY <1>11, <4>1 DEF Open, Own
      <4>4. <<id, sessions[id]>> # e
        BY <4>1
      <4>5. QED
        BY <1>12, <4>2, <4>3, <4>4
    <3>2. QED
      BY <3>1
  <2>5. AtMostOne(Open(sessions', u))
    BY <1>16, <2>1 DEF AtMostOne
  <2>6. QED
    BY <1>12, <2>2, <2>3, <2>4, <2>5 DEF ViewIsCurrent
<1>18. rejected' \subseteq overlapped
  BY <1>1 DEF IInv
<1>19. QED
  BY <1>1, <1>4, <1>11, <1>12, <1>14, <1>17, <1>18, BusyFacts, StepIInv

\* The session get_active_session prefers is one at most.
LEMMA PreferredIsOne ==
  ASSUME NEW listed \in SUBSET (SessionIds \X Session)
  PROVE  AtMostOne({e[1] : e \in Preferred(listed)}) /\ Preferred(listed) \subseteq listed
<1>1. ASSUME NEW e \in Preferred(listed), NEW f \in Preferred(listed)
      PROVE  e[1] = f[1]
  <2>1. e \in listed /\ f \in listed
    BY DEF Preferred
  <2>2. /\ e[2].last > f[2].last \/ (e[2].last = f[2].last /\ e[1] <= f[1])
        /\ f[2].last > e[2].last \/ (f[2].last = e[2].last /\ f[1] <= e[1])
    BY <2>1 DEF Preferred
  <2>3. e[1] \in Int /\ f[1] \in Int /\ e[2].last \in Int /\ f[2].last \in Int
    BY <2>1 DEF SessionIds, Session, Times
  <2>4. QED
    BY <2>2, <2>3
<1>2. QED
  BY <1>1 DEF Preferred, AtMostOne

\* What is chosen is the user's, and open and in use if the view is current.
LEMMA ChooseIInv ==
  ASSUME IInv, NEW t \in Threads, Choose(t)
  PROVE  IInv'
<1> DEFINE u == task[t].by
           best == {e[1] : e \in Preferred(task[t].listed)}
           next == IF task[t].listed = {} THEN "start" ELSE "touch"
           w == [task[t] EXCEPT !.pc = next, !.listed = {}, !.chosen = best]
<1>1. /\ task[t].pc = "expire" /\ UNCHANGED <<clock, sessions, rejected, overlapped>>
      /\ \A e \in task[t].listed : ~IsIdle(e[2], task[t].at)
  BY DEF Choose
<1>2. task' = [task EXCEPT ![t] = w]
  <2>1. task' = [task EXCEPT ![t].pc = next, ![t].listed = {}, ![t].chosen = best]
    BY DEF Choose
  <2> HIDE DEF best, next
  <2>2. QED
    BY <2>1 DEF IInv
<1>3. /\ RequestOK(task[t], sessions, clock) /\ task[t] \in Task /\ task[t].at \in Times
  BY <1>1, BusyFacts
<1>4. task[t].listed \in SUBSET (SessionIds \X Session)
  BY <1>3 DEF Task
<1>5. AtMostOne(best) /\ \A id \in best : \E e \in task[t].listed : id = e[1]
  BY <1>4, PreferredIsOne
<1>6. best \subseteq SessionIds
  BY <1>4, <1>5
<1>7. next \in {"start", "touch"} /\ (next = "start" => task[t].listed = {})
  OBVIOUS
<1> HIDE DEF best, next
<1>8. /\ w \in Task /\ w.pc = next /\ w.by = u /\ w.at = task[t].at
      /\ w.listed = {} /\ w.chosen = best /\ w.updated = task[t].updated
  BY <1>3, <1>6, <1>7 DEF Task
<1> HIDE DEF w
<1>9. \A id \in best : id \in DOMAIN sessions /\ sessions[id].subject = u
  BY <1>3, <1>5 DEF RequestOK, VersionOf
<1>10. task[t].updated = {}
  BY <1>1, <1>3 DEF RequestOK
<1>11. RequestOK(w, sessions, clock)
  BY <1>3, <1>5, <1>8, <1>9, <1>10 DEF RequestOK
<1>12. ASSUME u \notin overlapped
       PROVE  ViewIsCurrent(w, sessions)
  <2>1. ViewIsCurrent(task[t], sessions)
    BY <1>1, <1>12, BusyFacts
  <2>2. next = "start" => Open(sessions, u) = {}
    BY <1>1, <1>7, <2>1 DEF ViewIsCurrent
  <2>3. ASSUME NEW id \in best
        PROVE  id \in Open(sessions, u) /\ task[t].at - sessions[id].last < IdleTimeout
    <3>1. PICK e \in task[t].listed : id = e[1]
      BY <1>5
    <3>2. sessions[id] = e[2] /\ OpenRecord(e[2], u, clock)
      BY <1>1, <1>3, <2>1, <3>1 DEF ViewIsCurrent, RequestOK
    <3>3. ~(task[t].at - e[2].last >= IdleTimeout)
      BY <1>1 DEF IsIdle
    <3>4. task[t].at \in Int /\ e[2].last \in Int /\ IdleTimeout \in Int
      BY <1>3, <3>2, IdleTimeoutAssumption DEF Times, OpenRecord, Session
    <3>5. QED
      BY <1>9, <3>2, <3>3, <3>4 DEF OpenRecord, Open, Own
  <2>4. QED
    BY <1>7, <1>8, <2>1, <2>2, <2>3 DEF ViewIsCurrent
<1>13. QED
  BY <1>1, <1>2, <1>8, <1>11, <1>12, BusyFacts, QuietStepIInv DEF IInv

\* A request that saves an open version of its user's session, or starts one, and
\* ends.
LEMMA SaveAndEndIInv ==
  ASSUME IInv, NEW t \in Threads, Busy(t), NEW id \in SessionIds, NEW r,
         OpenRecord(r, task[t].by, clock),
         id \in DOMAIN sessions => VersionOf(r, id, task[t].by, sessions),
         task[t].by \notin overlapped => Open(sessions, task[t].by) \subseteq {id},
         sessions' = Save(id, r), task' = [task EXCEPT ![t] = Idle],
         UNCHANGED <<clock, rejected, overlapped>>
  PROVE  IInv'
<1>1. r \in Session /\ RecordOK(r) /\ r.last <= clock /\ r.subject = task[t].by
  BY DEF OpenRecord
<1>2. SessionsOK(sessions, clock)
  BY DEF IInv
<1>3. id \in DOMAIN sessions =>
        r.subject = sessions[id].subject /\ r.start = sessions[id].start
  BY <1>1 DEF VersionOf
<1>4. /\ SessionsOK(sessions', clock) /\ Grows(sessions, sessions')
      /\ \A v : v # task[t].by => SameFor(v, sessions, sessions')
      /\ Own(sessions', task[t].by) = Own(sessions, task[t].by) \cup {id}
      /\ \A x \in DOMAIN sessions : x # id => sessions'[x] = sessions[x]
  BY <1>1, <1>2, <1>3, SaveFacts
<1>5. Open(sessions', task[t].by) \subseteq Open(sessions, task[t].by) \cup {id}
  BY <1>4 DEF Open, Own
<1>6. task[t].by \notin overlapped => AtMostOne(Open(sessions', task[t].by))
  BY <1>5 DEF AtMostOne
<1>7. rejected' \subseteq overlapped
  BY DEF IInv
<1>8. QED
  BY <1>4, <1>6, <1>7, StepIInv

\* Starting a session.
LEMMA StartIInv ==
  ASSUME IInv, NEW t \in Threads, Start(t)
  PROVE  IInv'
<1>1. /\ task[t].pc = "start" /\ task' = [task EXCEPT ![t] = Idle]
      /\ UNCHANGED <<clock, rejected, overlapped>>
  BY DEF Start
<1>2. PICK id \in FreshIds : sessions' = Save(id, NewSession(task[t].by, task[t].at))
  BY DEF Start
<1>3. id \in SessionIds /\ id \notin DOMAIN sessions
  BY MaxSessionsAssumption DEF FreshIds, SessionIds
<1>4. /\ Busy(t) /\ task[t].by \in Subjects /\ task[t].at \in Times /\ task[t].at <= clock
      /\ task[t].by \notin overlapped => ViewIsCurrent(task[t], sessions)
  BY <1>1, BusyFacts
<1> DEFINE r == NewSession(task[t].by, task[t].at)
<1>5. /\ r \in Session /\ r.start = task[t].at /\ r.last = task[t].at /\ r.end = None
      /\ r.status = "active" /\ r.subject = task[t].by
  BY <1>4 DEF NewSession, Session
<1> HIDE DEF r
<1>6. OpenRecord(r, task[t].by, clock)
  BY <1>4, <1>5 DEF OpenRecord, RecordOK, Times
<1>7. task[t].by \notin overlapped => Open(sessions, task[t].by) \subseteq {id}
  BY <1>1, <1>4 DEF ViewIsCurrent
<1>8. QED
  BY <1>1, <1>2, <1>3, <1>4, <1>6, <1>7, SaveAndEndIInv DEF r

\* Touching makes the next version of an open session.
LEMMA TouchIInv ==
  ASSUME IInv, NEW t \in Threads, Touch(t)
  PROVE  IInv'
<1> DEFINE u == task[t].by
<1>1. task[t].pc = "touch" /\ UNCHANGED <<clock, sessions, rejected, overlapped>>
  BY DEF Touch
<1>2. PICK id \in task[t].chosen :
        /\ TouchAccepted(sessions[id], task[t].at)
        /\ task' = [task EXCEPT ![t].pc = "save",
                                ![t].updated = {Touched(sessions[id], task[t].at)}]
  BY DEF Touch
<1> DEFINE r == Touched(sessions[id], task[t].at)
           w == [task[t] EXCEPT !.pc = "save", !.updated = {r}]
<1>3. /\ RequestOK(task[t], sessions, clock) /\ task[t] \in Task
      /\ task[t].at \in Times /\ task[t].at <= clock
  BY <1>1, BusyFacts
<1>4. /\ id \in DOMAIN sessions /\ sessions[id].subject = u
      /\ \A x \in task[t].chosen : x = id
  BY <1>3 DEF RequestOK, AtMostOne
<1>5. sessions[id] \in Session /\ RecordOK(sessions[id])
  BY <1>4 DEF IInv, SessionsOK
<1>6. /\ r \in Session /\ r.status = "active" /\ r.end = None /\ r.last = task[t].at
      /\ r.start = sessions[id].start /\ r.subject = u
  BY <1>3, <1>4, <1>5 DEF Touched, Session
<1>7. task' = [task EXCEPT ![t] = w]
  <2> HIDE DEF r
  <2>1. task' = [task EXCEPT ![t].pc = "save", ![t].updated = {r}]
    BY <1>2 DEF r
  <2>2. QED
    BY <2>1 DEF IInv
<1> HIDE DEF r
<1>8. r.start <= r.last
  BY <1>2, <1>3, <1>5, <1>6 DEF TouchAccepted, RecordOK, Session, Times
<1>9. OpenRecord(r, u, clock)
  BY <1>3, <1>6, <1>8 DEF OpenRecord, RecordOK
<1>10. /\ w \in Task /\ w.pc = "save" /\ w.by = u /\ w.at = task[t].at
       /\ w.listed = task[t].listed /\ w.chosen = task[t].chosen /\ w.updated = {r}
  BY <1>3, <1>6 DEF Task
<1> HIDE DEF w
<1>11. \A x \in w.chosen : VersionOf(r, x, u, sessions)
  BY <1>4, <1>6, <1>10 DEF VersionOf
<1>12. RequestOK(w, sessions, clock)
  BY <1>3, <1>9, <1>10, <1>11 DEF RequestOK
<1>13. u \notin overlapped => ViewIsCurrent(w, sessions)
  BY <1>1, <1>6, <1>10, BusyFacts DEF ViewIsCurrent
<1>14. QED
  BY <1>1, <1>7, <1>10, <1>12, <1>13, BusyFacts, QuietStepIInv DEF IInv

\* Only a request that shares its user is turned away.
LEMMA TouchRejectedIInv ==
  ASSUME IInv, NEW t \in Threads, TouchRejected(t)
  PROVE  IInv'
<1>1. /\ task[t].pc = "touch" /\ task' = [task EXCEPT ![t] = Idle]
      /\ rejected' = rejected \cup {task[t].by}
      /\ UNCHANGED <<clock, sessions, overlapped>>
  BY DEF TouchRejected
<1>2. PICK id \in task[t].chosen : ~TouchAccepted(sessions[id], task[t].at)
  BY DEF TouchRejected
<1>3. task[t].by \in overlapped
  <2> SUFFICES ASSUME task[t].by \notin overlapped PROVE FALSE
    OBVIOUS
  <2>1. ViewIsCurrent(task[t], sessions) /\ task[t].at \in Times
    BY <1>1, BusyFacts
  <2>2. id \in Open(sessions, task[t].by) /\ id \in Own(sessions, task[t].by)
    BY <1>1, <2>1 DEF ViewIsCurrent, Open
  <2>3. sessions[id].status = "active" /\ sessions[id].last <= task[t].at
    BY <2>1, <2>2 DEF ViewIsCurrent, Open
  <2>4. sessions[id].last \in Int /\ task[t].at \in Int
    BY <2>1, <2>2 DEF IInv, SessionsOK, Own, Session, Times
  <2>5. QED
    BY <1>2, <2>3, <2>4 DEF TouchAccepted
<1>4. rejected' \subseteq overlapped
  BY <1>1, <1>3 DEF IInv
<1>5. QED
  BY <1>1, <1>4, BusyFacts, QuietStepIInv

\* Saving what was made of the session that was read.
LEMMA TouchSaveIInv ==
  ASSUME IInv, NEW t \in Threads, TouchSave(t)
  PROVE  IInv'
<1>1. /\ task[t].pc = "save" /\ task' = [task EXCEPT ![t] = Idle]
      /\ UNCHANGED <<clock, rejected, overlapped>>
  BY DEF TouchSave
<1>2. PICK id \in task[t].chosen, r \in task[t].updated : sessions' = Save(id, r)
  BY DEF TouchSave
<1>3. /\ OpenRecord(r, task[t].by, clock) /\ VersionOf(r, id, task[t].by, sessions)
      /\ Busy(t)
  BY <1>1, BusyFacts DEF RequestOK
<1>4. id \in SessionIds
  BY <1>3 DEF VersionOf, IInv, SessionsOK
<1>5. task[t].by \notin overlapped => Open(sessions, task[t].by) \subseteq {id}
  BY <1>1, BusyFacts DEF ViewIsCurrent, AtMostOne
<1>6. QED
  BY <1>1, <1>2, <1>3, <1>4, <1>5, SaveAndEndIInv

------------------------------------------------------------------------------
(* The steps of others.                                                        *)

\* A call from outside that closes an open session of u: a request of u under way
\* is noted as overlapping.
LEMMA CloseIInv ==
  ASSUME IInv, NEW id \in DOMAIN sessions, NEW r \in Session, RecordOK(r),
         r.last = sessions[id].last, r.start = sessions[id].start,
         r.subject = sessions[id].subject, r.status # "active",
         sessions' = Save(id, r), Begins(r.subject),
         UNCHANGED <<clock, task, rejected>>
  PROVE  IInv'
<1> DEFINE u == r.subject
<1>1. /\ SessionsOK(sessions, clock) /\ id \in SessionIds /\ r.last <= clock
      /\ u \in Subjects /\ clock \in Nat
  BY SessionTimeAssumption DEF IInv, SessionsOK, Session, Times
<1>2. /\ SessionsOK(sessions', clock) /\ Grows(sessions, sessions')
      /\ \A v : v # u => SameFor(v, sessions, sessions')
      /\ Own(sessions', u) = Own(sessions, u) \cup {id}
      /\ sessions'[id] = r
      /\ \A x \in DOMAIN sessions : x # id => sessions'[x] = sessions[x]
  BY <1>1, SaveFacts
<1>3. /\ overlapped \subseteq overlapped' /\ overlapped' \subseteq Subjects
      /\ \A s \in Threads : Busy(s) /\ task[s].by = u => u \in overlapped'
  BY <1>1 DEF Begins, Busy, IInv
<1>4. \A s \in Threads : Busy(s) => RequestOK(task[s], sessions', clock)
  <2>1. ASSUME NEW s \in Threads, Busy(s)
        PROVE  RequestOK(task[s], sessions', clock)
    <3>1. RequestOK(task[s], sessions, clock)
      BY <2>1 DEF IInv
    <3>2. QED
      BY <1>1, <1>2, <3>1, RequestSurvives
  <2>2. QED
    BY <2>1
<1>5. OverlapIsKnown'
  BY <1>3 DEF IInv, OverlapIsKnown, Busy
<1>6. \A s \in Threads : Busy(s) /\ task[s].by \notin overlapped' =>
        ViewIsCurrent(task[s], sessions')
  <2>1. ASSUME NEW s \in Threads, Busy(s), task[s].by \notin overlapped'
        PROVE  ViewIsCurrent(task[s], sessions')
    <3>1. task[s].by \notin overlapped /\ task[s].by # u
      BY <1>3, <2>1
    <3>2. RequestOK(task[s], sessions, clock) /\ ViewIsCurrent(task[s], sessions)
      BY <2>1, <3>1 DEF IInv
    <3>3. SameFor(task[s].by, sessions, sessions')
      BY <1>2, <3>1
    <3>4. QED
      BY <3>2, <3>3, ViewSurvives
  <2>2. QED
    BY <2>1
<1>7. \A v : Open(sessions', v) \subseteq Open(sessions, v)
  <2>1. \A v : v # u => Open(sessions', v) \subseteq Open(sessions, v)
    BY <1>2 DEF SameFor, Open
  <2>2. Open(sessions', u) \subseteq Open(sessions, u)
    BY <1>2 DEF Open, Own
  <2>3. QED
    BY <2>1, <2>2
<1>8. \A v \in Subjects \ overlapped' : AtMostOne(Open(sessions', v))
  BY <1>3, <1>7 DEF IInv, AtMostOne
<1>9. QED
  BY <1>2, <1>3, <1>4, <1>5, <1>6, <1>8 DEF IInv, Busy

\* Ending a session, and expiring one by force.
LEMMA EndIInv ==
  ASSUME IInv, NEW id \in SessionIds, End(id)
  PROVE  IInv'
<1> DEFINE r == [sessions[id] EXCEPT !.end = clock, !.status = "ended"]
<1>1. /\ id \in DOMAIN sessions
      /\ clock > sessions[id].start /\ clock >= sessions[id].last
      /\ sessions' = Save(id, r) /\ Begins(sessions[id].subject)
      /\ UNCHANGED <<clock, task, rejected>>
  BY DEF End
<1>2. sessions[id] \in Session /\ RecordOK(sessions[id]) /\ clock \in Times
  BY <1>1 DEF IInv, SessionsOK
<1>3. /\ r \in Session /\ r.status = "ended" /\ r.end = clock
      /\ r.last = sessions[id].last /\ r.start = sessions[id].start
      /\ r.subject = sessions[id].subject
  BY <1>2 DEF Session
<1> HIDE DEF r
<1>4. RecordOK(r)
  BY <1>1, <1>2, <1>3 DEF RecordOK, Times, None
<1>5. QED
  BY <1>1, <1>3, <1>4, CloseIInv

LEMMA ForceExpireIInv ==
  ASSUME IInv, NEW id \in SessionIds, ForceExpire(id)
  PROVE  IInv'
<1> DEFINE end == IF clock < sessions[id].last THEN sessions[id].last ELSE clock
           r == Expired(sessions[id], end)
<1>1. /\ id \in DOMAIN sessions /\ "expire" \in OtherCalls
      /\ clock > sessions[id].start
      /\ sessions' = Save(id, r) /\ Begins(sessions[id].subject)
      /\ UNCHANGED <<clock, task, rejected>>
  BY DEF ForceExpire
<1>2. sessions[id] \in Session /\ RecordOK(sessions[id]) /\ clock \in Times
  BY <1>1 DEF IInv, SessionsOK
<1>3. end \in Times /\ end >= clock /\ end >= sessions[id].last
  BY <1>2 DEF Session, Times
<1> HIDE DEF end
<1>4. /\ r \in Session /\ r.status = "expired" /\ r.end = end
      /\ r.last = sessions[id].last /\ r.start = sessions[id].start
      /\ r.subject = sessions[id].subject
  BY <1>2, <1>3 DEF Expired, Session
<1>5. r.end > r.start /\ r.end # None
  BY <1>1, <1>2, <1>3, <1>4 DEF Session, Times, None
<1> HIDE DEF r
<1>6. RecordOK(r)
  BY <1>1, <1>2, <1>3, <1>4, <1>5 DEF RecordOK
<1>7. QED
  BY <1>1, <1>4, <1>6, CloseIInv

\* Time passes.
LEMMA TickIInv ==
  ASSUME IInv, Tick
  PROVE  IInv'
<1>1. /\ clock' = clock + 1 /\ clock < MaxTime /\ clock \in Nat /\ clock' \in Nat
      /\ UNCHANGED <<sessions, task, rejected, overlapped>>
  BY SessionTimeAssumption DEF Tick, IInv, Times
<1>2. clock' \in Times
  BY <1>1, SessionTimeAssumption DEF Times
<1>3. SessionsOK(sessions, clock')
  BY <1>1 DEF IInv, SessionsOK, Session, Times
<1>4. Grows(sessions, sessions)
  BY DEF Grows
<1>5. \A s \in Threads : Busy(s) => RequestOK(task[s], sessions, clock')
  <2>1. ASSUME NEW s \in Threads, Busy(s)
        PROVE  RequestOK(task[s], sessions, clock')
    <3>1. RequestOK(task[s], sessions, clock)
      BY <2>1 DEF IInv
    <3>2. clock <= clock'
      BY <1>1
    <3>3. QED
      BY <1>1, <1>4, <3>1, <3>2, RequestSurvives
  <2>2. QED
    BY <2>1
<1>6. QED
  BY <1>1, <1>2, <1>3, <1>5 DEF IInv, Busy, OverlapIsKnown

------------------------------------------------------------------------------
\* At first there is no session and no request.
LEMMA InitIInv == Init => IInv
  BY SessionTimeAssumption
  DEF Init, IInv, Times, SessionsOK, Busy, OverlapIsKnown, AtMostOne, Open, Own

\* Every step keeps the invariant.
LEMMA NextIInv == IInv /\ [Next]_vars => IInv'
<1> SUFFICES ASSUME IInv, [Next]_vars PROVE IInv'
  OBVIOUS
<1>1. CASE UNCHANGED vars
  BY <1>1 DEF vars, IInv, Busy, OverlapIsKnown
<1>2. ASSUME NEW t \in Threads,
             \/ \E subject \in Subjects : Arrive(t, subject)
             \/ Scan(t) \/ ExpireIdle(t) \/ Choose(t) \/ Start(t)
             \/ Touch(t) \/ TouchRejected(t) \/ TouchSave(t)
      PROVE  IInv'
  BY <1>2, ArriveIInv, ScanIInv, ExpireIdleIInv, ChooseIInv, StartIInv, TouchIInv,
     TouchRejectedIInv, TouchSaveIInv
<1>3. QED
  BY <1>1, <1>2, EndIInv, ForceExpireIInv, TickIInv DEF Next

\* The invariant holds in every reachable state.
LEMMA InvariantHolds == Spec => []IInv
<1>1. QED
  BY InitIInv, NextIInv, PTL DEF Spec

------------------------------------------------------------------------------
\* The clock, the sessions and the requests under way keep their types.
THEOREM TypeCorrect == Spec => []TypeOK
<1>1. IInv => TypeOK
  <2> SUFFICES ASSUME IInv PROVE TypeOK
    OBVIOUS
  <2>1. \A t \in Threads : task[t] = Idle \/ task[t] \in Task
    BY DEF IInv, Busy, RequestOK
  <2>2. QED
    BY <2>1 DEF IInv, TypeOK, SessionsOK
<1>2. QED
  BY <1>1, InvariantHolds, PTL

\* Whatever stale versions requests write back, a stored session always passes
\* the rules of its record.
THEOREM RecordsStayConsistent == Spec => []RecordsAreConsistent
<1>1. IInv => RecordsAreConsistent
  BY DEF IInv, SessionsOK, RecordOK, RecordsAreConsistent
<1>2. QED
  BY <1>1, InvariantHolds, PTL

\* A user whose requests do not overlap has one active session at most.
THEOREM OneSessionPerUser == Spec => []OneActiveSession
<1>1. IInv => OneActiveSession
  <2> SUFFICES ASSUME IInv, NEW u \in Subjects \ overlapped
               PROVE  Cardinality(ActiveOf(u)) <= 1
    BY DEF OneActiveSession
  <2>1. ActiveOf(u) = Open(sessions, u) /\ AtMostOne(Open(sessions, u))
    BY DEF IInv, ActiveOf, Open, Own
  <2>2. CASE ActiveOf(u) = {}
    BY <2>2, FS_EmptySet
  <2>3. CASE ActiveOf(u) # {}
    <3>1. PICK x : x \in ActiveOf(u)
      BY <2>3
    <3>2. ActiveOf(u) = {x}
      BY <2>1, <3>1 DEF AtMostOne
    <3>3. Cardinality({x}) = 1
      BY FS_Singleton
    <3>4. QED
      BY <3>2, <3>3
  <2>4. QED
    BY <2>2, <2>3
<1>2. QED
  BY <1>1, InvariantHolds, PTL

\* No request of a user whose requests do not overlap is turned away.
THEOREM NobodyIsRejected == Spec => []NobodyIsTurnedAway
<1>1. IInv => NobodyIsTurnedAway
  BY DEF IInv, NobodyIsTurnedAway
<1>2. QED
  BY <1>1, InvariantHolds, PTL

------------------------------------------------------------------------------
(* What one step may do to the sessions.                                       *)

SessionStep ==
  /\ IdentityStep
  /\ ClosedStep
  /\ ActivityStep

\* A step that leaves the sessions alone.
LEMMA NoSessionStep ==
  ASSUME IInv, UNCHANGED sessions
  PROVE  SessionStep
<1>1. \A id \in DOMAIN sessions : sessions[id].last \in Int
  BY DEF IInv, SessionsOK, Session, Times
<1>2. 0 \in 0 .. IdleTimeout - 1
  BY IdleTimeoutAssumption
<1>3. \A id \in DOMAIN sessions : sessions'[id].last - sessions[id].last = 0
  BY <1>1
<1>4. QED
  BY <1>2, <1>3 DEF SessionStep, IdentityStep, ClosedStep, ActivityStep

\* A step that saves a version of one session: if it is known and its user has no
\* overlapping requests, it has to be open, and its activity to go on in time.
LEMMA SaveSessionStep ==
  ASSUME IInv, NEW id, NEW r, sessions' = Save(id, r),
         id \in DOMAIN sessions =>
           /\ r.subject = sessions[id].subject /\ r.start = sessions[id].start
           /\ r.subject \notin overlapped =>
                /\ sessions[id].status = "active"
                /\ r.last - sessions[id].last \in 0 .. IdleTimeout - 1
  PROVE  SessionStep
<1>1. /\ DOMAIN sessions \subseteq DOMAIN sessions'
      /\ id \in DOMAIN sessions => sessions'[id] = r
      /\ \A x \in DOMAIN sessions : x # id => sessions'[x] = sessions[x]
  BY DEF Save
<1>2. \A x \in DOMAIN sessions : sessions[x].last - sessions[x].last = 0
  BY DEF IInv, SessionsOK, Session, Times
<1>3. 0 \in 0 .. IdleTimeout - 1
  BY IdleTimeoutAssumption
<1>4. IdentityStep
  BY <1>1 DEF IdentityStep
<1>5. ClosedStep
  BY <1>1 DEF ClosedStep
<1>6. ASSUME NEW x \in DOMAIN sessions, sessions[x].subject \notin overlapped
      PROVE  sessions'[x].last - sessions[x].last \in 0 .. IdleTimeout - 1
  <2>1. CASE x = id
    BY <1>1, <1>6, <2>1
  <2>2. CASE x # id
    BY <1>1, <1>2, <1>3, <2>2
  <2>3. QED
    BY <2>1, <2>2
<1>7. QED
  BY <1>4, <1>5, <1>6 DEF SessionStep, ActivityStep

\* Every step does to the sessions what it may.
LEMMA NextSessionStep == IInv /\ [Next]_vars => SessionStep
<1> SUFFICES ASSUME IInv, [Next]_vars PROVE SessionStep
  OBVIOUS
<1>1. ASSUME NEW t \in Threads, ExpireIdle(t)
      PROVE  SessionStep
  <2>1. PICK e \in task[t].listed : sessions' = Save(e[1], Expired(e[2], task[t].at))
    BY <1>1 DEF ExpireIdle
  <2>2. /\ task[t].pc = "expire" /\ RequestOK(task[t], sessions, clock)
        /\ task[t].by \notin overlapped => ViewIsCurrent(task[t], sessions)
    BY <1>1, BusyFacts DEF ExpireIdle
  <2>3. OpenRecord(e[2], task[t].by, clock) /\ VersionOf(e[2], e[1], task[t].by, sessions)
    BY <2>2 DEF RequestOK
  <2>4. task[t].by \notin overlapped => sessions[e[1]] = e[2]
    BY <2>2 DEF ViewIsCurrent
  <2> DEFINE r == Expired(e[2], task[t].at)
  <2>5. r.subject = task[t].by /\ r.start = e[2].start /\ r.last = e[2].last
    BY <2>3 DEF OpenRecord, Session, Expired
  <2>6. e[2].status = "active" /\ e[2].last - e[2].last = 0
    BY <2>3 DEF OpenRecord, Session, Times
  <2>7. 0 \in 0 .. IdleTimeout - 1
    BY IdleTimeoutAssumption
  <2> HIDE DEF r
  <2>8. sessions' = Save(e[1], r)
    BY <2>1 DEF r
  <2>9. /\ r.subject = sessions[e[1]].subject /\ r.start = sessions[e[1]].start
        /\ r.subject \notin overlapped =>
             /\ sessions[e[1]].status = "active"
             /\ r.last - sessions[e[1]].last \in 0 .. IdleTimeout - 1
    BY <2>3, <2>4, <2>5, <2>6, <2>7 DEF VersionOf
  <2>10. QED
    BY <2>8, <2>9, SaveSessionStep
<1>2. ASSUME NEW t \in Threads, Start(t)
      PROVE  SessionStep
  <2>1. PICK id \in FreshIds : sessions' = Save(id, NewSession(task[t].by, task[t].at))
    BY <1>2 DEF Start
  <2>2. id \notin DOMAIN sessions
    BY MaxSessionsAssumption DEF FreshIds, SessionIds
  <2>3. QED
    BY <2>1, <2>2, SaveSessionStep
<1>3. ASSUME NEW t \in Threads, TouchSave(t)
      PROVE  SessionStep
  <2>1. PICK id \in task[t].chosen, r \in task[t].updated : sessions' = Save(id, r)
    BY <1>3 DEF TouchSave
  <2>2. /\ task[t].pc = "save" /\ RequestOK(task[t], sessions, clock)
        /\ task[t].at \in Times
        /\ task[t].by \notin overlapped => ViewIsCurrent(task[t], sessions)
    BY <1>3, BusyFacts DEF TouchSave
  <2>3. OpenRecord(r, task[t].by, clock) /\ VersionOf(r, id, task[t].by, sessions)
    BY <2>2 DEF RequestOK
  <2>4. ASSUME task[t].by \notin overlapped
        PROVE  /\ sessions[id].status = "active"
               /\ r.last - sessions[id].last \in 0 .. IdleTimeout - 1
    <3>1. /\ id \in Open(sessions, task[t].by) /\ r.last = task[t].at
          /\ task[t].at - sessions[id].last < IdleTimeout
      BY <2>2, <2>4 DEF ViewIsCurrent
    <3>2. id \in Own(sessions, task[t].by) /\ sessions[id].status = "active"
      BY <3>1 DEF Open
    <3>3. sessions[id].last <= task[t].at
      BY <2>2, <2>4, <3>2 DEF ViewIsCurrent
    <3>4. sessions[id].last \in Int /\ task[t].at \in Int /\ IdleTimeout \in Int
      BY <2>2, <3>2, IdleTimeoutAssumption DEF IInv, SessionsOK, Own, Session, Times
    <3>5. QED
      BY <3>1, <3>2, <3>3, <3>4
  <2>5. QED
    BY <2>1, <2>3, <2>4, SaveSessionStep DEF OpenRecord, VersionOf
<1>4. ASSUME NEW id \in SessionIds, End(id) \/ ForceExpire(id)
      PROVE  SessionStep
  <2>1. /\ id \in DOMAIN sessions /\ sessions[id].status = "active"
    BY <1>4 DEF End, ForceExpire
  <2>2. sessions[id] \in Session
    BY <2>1 DEF IInv, SessionsOK
  <2>3. PICK end, status :
          sessions' = Save(id, [sessions[id] EXCEPT !.end = end, !.status = status])
    <3>1. CASE End(id)
      BY <3>1 DEF End
    <3>2. CASE ForceExpire(id)
      BY <3>2 DEF ForceExpire, Expired
    <3>3. QED
      BY <1>4, <3>1, <3>2
  <2> DEFINE r == [sessions[id] EXCEPT !.end = end, !.status = status]
  <2>4. /\ r.last = sessions[id].last /\ r.start = sessions[id].start
        /\ r.subject = sessions[id].subject
    BY <2>2 DEF Session
  <2> HIDE DEF r
  <2>5. r.last - sessions[id].last = 0 /\ 0 \in 0 .. IdleTimeout - 1
    BY <2>2, <2>4, IdleTimeoutAssumption DEF Session, Times
  <2>6. sessions' = Save(id, r)
    BY <2>3 DEF r
  <2>7. QED
    BY <2>1, <2>4, <2>5, <2>6, SaveSessionStep
<1>5. ASSUME UNCHANGED sessions PROVE SessionStep
  BY <1>5, NoSessionStep
<1>6. QED
  BY <1>1, <1>2, <1>3, <1>4, <1>5
  DEF Next, vars, Arrive, Scan, Choose, Touch, TouchRejected, Tick

\* No session ever changes its user or its start, or is dropped.
THEOREM IdentityNeverChanges == Spec => IdentityIsKept
<1>1. IInv /\ [Next]_vars => [IdentityStep]_vars
  BY NextSessionStep DEF SessionStep
<1>2. QED
  BY <1>1, InvariantHolds, PTL DEF Spec, IdentityIsKept

\* A session that was ended or expired is never opened again, if its user's
\* requests do not overlap.
THEOREM ClosedIsFinal == Spec => ClosedStaysClosed
<1>1. IInv /\ [Next]_vars => [ClosedStep]_vars
  BY NextSessionStep DEF SessionStep
<1>2. QED
  BY <1>1, InvariantHolds, PTL DEF Spec, ClosedStaysClosed

\* Activity of such a user's session never goes back and never bridges the idle
\* timeout.
THEOREM ActivityStaysContinuous == Spec => ActivityIsContinuous
<1>1. IInv /\ [Next]_vars => [ActivityStep]_vars
  BY NextSessionStep DEF SessionStep
<1>2. QED
  BY <1>1, InvariantHolds, PTL DEF Spec, ActivityIsContinuous

------------------------------------------------------------------------------
(* How many sessions a user can have.  A request whose listed sessions are all *)
(* idle will start one; any other that has listed some will bring one back to  *)
(* life at most, the one it goes for.                                          *)

Serving(t, u) == Busy(t) /\ task[t].by = u
Kept(t) == {e \in task[t].listed : ~IsIdle(e[2], task[t].at)}

Starters(u) ==
  {t \in Threads : /\ Serving(t, u)
                   /\ task[t].pc = "start" \/ (task[t].pc = "expire" /\ Kept(t) = {})}
Touchers(u) ==
  {t \in Threads : /\ Serving(t, u)
                   /\ \/ task[t].pc \in {"touch", "save"}
                      \/ task[t].pc = "expire" /\ Kept(t) # {}}

Targets(t) ==
  IF task[t].pc = "expire" THEN {e[1] : e \in Preferred(Kept(t))} ELSE task[t].chosen
AllTargets(u) == UNION {Targets(t) : t \in Touchers(u)}

\* The sessions starter r still has to expire before it starts one.
Doomed(u, r) ==
  {a \in ActiveOf(u) : task[r].pc = "expire" /\ <<a, sessions[a]>> \in task[r].listed}

\* The sessions that are alive, or can come back, and that r does not expire.
Fresh(u, r) == (ActiveOf(u) \ Doomed(u, r)) \cup AllTargets(u)

\* The threads still to scan for a request that arrived before one of R's.
Late(u, R) ==
  {t \in Threads : /\ Serving(t, u) /\ task[t].pc = "scan"
                   /\ \E r \in R \cap Starters(u) : task[t].at < task[r].at}
Slots(u, R) == Threads \ ((R \cap Starters(u)) \cup Late(u, R))

\* before[r] holds the starters that scanned before r, and r.
Nested(u, before) ==
  \A r, s \in Starters(u) :
    r \in before[r] /\ (s \notin before[r] => before[r] \cap Starters(u) \subseteq before[s])

\* There is a thread for each session of the user; and, for each starter r, one
\* for each session it leaves alive that is none of the starters up to r.
Crowd(u) ==
  /\ Cardinality(ActiveOf(u) \cup AllTargets(u)) <= Cardinality(Threads)
  /\ \E before \in [Threads -> SUBSET Threads] :
       /\ Nested(u, before)
       /\ \A r \in Starters(u) : Cardinality(Fresh(u, r)) <= Cardinality(Slots(u, before[r]))

\* Less to place and more room.
LEMMA RoomKept ==
  ASSUME NEW V, NEW F, NEW V2, NEW F2, IsFiniteSet(V), IsFiniteSet(F2),
         V2 \subseteq V, F \subseteq F2, Cardinality(V) <= Cardinality(F)
  PROVE  Cardinality(V2) <= Cardinality(F2)
<1>1. /\ IsFiniteSet(V2) /\ Cardinality(V2) <= Cardinality(V)
      /\ IsFiniteSet(F) /\ Cardinality(F) <= Cardinality(F2)
  BY FS_Subset
<1>2. /\ Cardinality(V2) \in Nat /\ Cardinality(V) \in Nat
      /\ Cardinality(F) \in Nat /\ Cardinality(F2) \in Nat
  BY <1>1, FS_CardinalityType
<1>3. QED
  BY <1>1, <1>2

\* One more to place and one more place.
LEMMA RoomAdded ==
  ASSUME NEW V, NEW F, NEW V2, NEW F2, NEW x, NEW y, IsFiniteSet(V), IsFiniteSet(F2),
         V2 \subseteq V \cup {y}, F \cup {x} \subseteq F2, x \notin F,
         Cardinality(V) <= Cardinality(F)
  PROVE  Cardinality(V2) <= Cardinality(F2)
<1>1. IsFiniteSet(F)
  BY FS_Subset
<1>2. Cardinality(V) \in Nat /\ Cardinality(F) \in Nat
  BY <1>1, FS_CardinalityType
<1>3. IsFiniteSet(V \cup {y}) /\ Cardinality(V \cup {y}) <= Cardinality(V) + 1
  BY <1>2, FS_AddElement
<1>4. Cardinality(F \cup {x}) = Cardinality(F) + 1 /\ IsFiniteSet(F \cup {x})
  BY <1>1, FS_AddElement
<1>5. Cardinality(V \cup {y}) \in Nat
  BY <1>3, FS_CardinalityType
<1>6. Cardinality(V \cup {y}) <= Cardinality(F \cup {x})
  BY <1>2, <1>3, <1>4, <1>5
<1>7. QED
  BY <1>3, <1>6, RoomKept

\* What is counted is finite, and a request goes for one session of its user.
LEMMA CrowdIsFinite ==
  ASSUME IInv, NEW u \in Subjects
  PROVE  /\ \A t \in Touchers(u) : Targets(t) \subseteq SessionIds /\ AtMostOne(Targets(t))
         /\ IsFiniteSet(ActiveOf(u) \cup AllTargets(u))
         /\ \A r : IsFiniteSet(Fresh(u, r))
<1>1. IsFiniteSet(SessionIds)
  BY MaxSessionsAssumption, FS_Interval DEF SessionIds
<1>2. ASSUME NEW t \in Touchers(u)
      PROVE  Targets(t) \subseteq SessionIds /\ AtMostOne(Targets(t))
  <2>1. RequestOK(task[t], sessions, clock) /\ task[t] \in Task
    BY <1>2 DEF Touchers, Serving, IInv, RequestOK
  <2>2. Kept(t) \in SUBSET (SessionIds \X Session)
    BY <2>1 DEF Kept, Task
  <2>3. /\ AtMostOne({e[1] : e \in Preferred(Kept(t))})
        /\ {e[1] : e \in Preferred(Kept(t))} \subseteq SessionIds
    BY <2>2, PreferredIsOne
  <2>4. AtMostOne(task[t].chosen) /\ task[t].chosen \subseteq SessionIds
    BY <2>1 DEF RequestOK, Task
  <2>5. QED
    BY <2>3, <2>4 DEF Targets
<1>3. AllTargets(u) \subseteq SessionIds
  BY <1>2 DEF AllTargets
<1>4. ActiveOf(u) \subseteq SessionIds
  BY DEF ActiveOf, IInv, SessionsOK
<1>5. /\ ActiveOf(u) \cup AllTargets(u) \subseteq SessionIds
      /\ \A r : Fresh(u, r) \subseteq SessionIds
  BY <1>3, <1>4 DEF Fresh
<1>6. QED
  BY <1>1, <1>2, <1>5, FS_Subset

\* A step that adds neither sessions nor starters keeps the places, or gives one
\* to a session and frees one.
Settles(u, r, R) ==
  \/ Fresh(u, r)' \subseteq Fresh(u, r) /\ Slots(u, R) \subseteq Slots(u, R)'
  \/ \E x, y : /\ Fresh(u, r)' \subseteq Fresh(u, r) \cup {y}
               /\ Slots(u, R) \cup {x} \subseteq Slots(u, R)' /\ x \notin Slots(u, R)

LEMMA SettlingKeepsCrowd ==
  ASSUME IInv, NEW u \in Subjects, Crowd(u), Starters(u)' \subseteq Starters(u),
         (ActiveOf(u) \cup AllTargets(u))' \subseteq ActiveOf(u) \cup AllTargets(u),
         \A r \in Starters(u)', R \in SUBSET Threads : r \in R => Settles(u, r, R)
  PROVE  Crowd(u)'
<1>1. /\ IsFiniteSet(ActiveOf(u) \cup AllTargets(u)) /\ \A r : IsFiniteSet(Fresh(u, r))
  BY CrowdIsFinite
<1>2. IsFiniteSet(Threads)
  BY ThreadsAssumption
<1>3. Cardinality(ActiveOf(u) \cup AllTargets(u)) <= Cardinality(Threads)
  BY DEF Crowd
<1>4. Cardinality((ActiveOf(u) \cup AllTargets(u))') <= Cardinality(Threads)
  BY <1>1, <1>2, <1>3, RoomKept
<1>5. PICK before \in [Threads -> SUBSET Threads] :
        /\ Nested(u, before)
        /\ \A r \in Starters(u) : Cardinality(Fresh(u, r)) <= Cardinality(Slots(u, before[r]))
  BY DEF Crowd
<1>6. Nested(u, before)'
  BY <1>5 DEF Nested
<1>7. ASSUME NEW r \in Starters(u)'
      PROVE  Cardinality(Fresh(u, r)') <= Cardinality(Slots(u, before[r])')
  <2>1. r \in Starters(u) /\ r \in Threads
    BY <1>7 DEF Starters
  <2>2. r \in before[r] /\ before[r] \in SUBSET Threads
    BY <1>5, <2>1 DEF Nested
  <2>3. Settles(u, r, before[r])
    BY <1>7, <2>2
  <2>4. Cardinality(Fresh(u, r)) <= Cardinality(Slots(u, before[r])) /\ IsFiniteSet(Fresh(u, r))
    BY <1>1, <1>5, <2>1
  <2>5. IsFiniteSet(Slots(u, before[r])')
    <3>1. Slots(u, before[r])' \in SUBSET Threads
      BY DEF Slots
    <3>2. QED
      BY <1>2, <3>1, FS_Subset
  <2>6. CASE Fresh(u, r)' \subseteq Fresh(u, r)
             /\ Slots(u, before[r]) \subseteq Slots(u, before[r])'
    BY <2>4, <2>5, <2>6, RoomKept
  <2>7. CASE \E x, y : /\ Fresh(u, r)' \subseteq Fresh(u, r) \cup {y}
                       /\ Slots(u, before[r]) \cup {x} \subseteq Slots(u, before[r])'
                       /\ x \notin Slots(u, before[r])
    BY <2>4, <2>5, <2>7, RoomAdded
  <2>8. QED
    BY <2>3, <2>6, <2>7 DEF Settles
<1>8. QED
  BY <1>4, <1>5, <1>6, <1>7 DEF Crowd

\* What a thread without a step brings to the count stays.
LEMMA ThreadStays ==
  ASSUME NEW r, NEW u, task'[r] = task[r]
  PROVE  /\ Serving(r, u)' <=> Serving(r, u)
         /\ Kept(r)' = Kept(r)
         /\ Targets(r)' = Targets(r)
<1>1. Serving(r, u)' <=> Serving(r, u)
  BY DEF Serving, Busy
<1>2. Kept(r)' = Kept(r)
  BY DEF Kept
<1>3. Targets(r)' = Targets(r)
  BY <1>2 DEF Targets
<1>4. QED
  BY <1>1, <1>2, <1>3

\* Only the threads of M make a step, none of them becomes a starter or goes for
\* a session it did not go for, and no session is opened that nobody went for.
Calm(u, M) ==
  /\ \A r \in Threads \ M : task'[r] = task[r]
  /\ \A t \in M : t \in Starters(u)' =>
       /\ t \in Starters(u) /\ task'[t].at = task[t].at
       /\ \A a \in ActiveOf(u)' : a \in Doomed(u, t) => a \in Doomed(u, t)'
  /\ \A t \in M : t \in Touchers(u)' => t \in Touchers(u) /\ Targets(t)' \subseteq Targets(t)
  /\ \A t \in M : Serving(t, u)' /\ task'[t].pc = "scan" =>
       \A r \in Starters(u) : ~(task'[t].at < task[r].at)

CalmSessions(u) ==
  /\ ActiveOf(u)' \subseteq ActiveOf(u) \cup AllTargets(u)
  /\ \A a \in ActiveOf(u)' \ AllTargets(u) : sessions'[a] = sessions[a]

LEMMA CalmKeepsCrowd ==
  ASSUME IInv, NEW u \in Subjects, Crowd(u), NEW M \in SUBSET Threads, Calm(u, M), CalmSessions(u)
  PROVE  Crowd(u)'
<1>1. \A r \in Threads \ M :
        /\ task'[r] = task[r]
        /\ Serving(r, u)' <=> Serving(r, u)
        /\ Kept(r)' = Kept(r) /\ Targets(r)' = Targets(r)
  BY ThreadStays DEF Calm
<1>2. Starters(u)' \subseteq Starters(u)
  <2>1. ASSUME NEW r \in Starters(u)'
        PROVE  r \in Starters(u)
    <3>1. CASE r \in M
      BY <2>1, <3>1 DEF Calm
    <3>2. CASE r \notin M
      BY <1>1, <2>1, <3>2 DEF Starters
    <3>3. QED
      BY <3>1, <3>2
  <2>2. QED
    BY <2>1
<1>3. AllTargets(u)' \subseteq AllTargets(u)
  <2>1. ASSUME NEW r \in Touchers(u)'
        PROVE  r \in Touchers(u) /\ Targets(r)' \subseteq Targets(r)
    <3>1. CASE r \in M
      BY <2>1, <3>1 DEF Calm
    <3>2. CASE r \notin M
      BY <1>1, <2>1, <3>2 DEF Touchers
    <3>3. QED
      BY <3>1, <3>2
  <2>2. QED
    BY <2>1 DEF AllTargets
<1>4. (ActiveOf(u) \cup AllTargets(u))' \subseteq ActiveOf(u) \cup AllTargets(u)
  BY <1>3 DEF CalmSessions
<1>5. ASSUME NEW r \in Starters(u)'
      PROVE  Fresh(u, r)' \subseteq Fresh(u, r)
  <2>1. ASSUME NEW a \in ActiveOf(u)', a \notin AllTargets(u), a \in Doomed(u, r)
        PROVE  a \in Doomed(u, r)'
    <3>1. CASE r \in M
      BY <1>5, <2>1, <3>1 DEF Calm
    <3>2. CASE r \notin M
      <4>1. task'[r] = task[r]
        BY <1>1, <1>5, <3>2 DEF Starters
      <4>2. sessions'[a] = sessions[a]
        BY <2>1 DEF CalmSessions
      <4>3. QED
        BY <2>1, <4>1, <4>2 DEF Doomed
    <3>3. QED
      BY <3>1, <3>2
  <2>2. QED
    BY <1>3, <2>1 DEF Fresh, CalmSessions
<1>6. ASSUME NEW R \in SUBSET Threads
      PROVE  Slots(u, R) \subseteq Slots(u, R)'
  <2>1. \A r \in Starters(u)' : task'[r].at = task[r].at
    <3>1. ASSUME NEW r \in Starters(u)'
          PROVE  task'[r].at = task[r].at
      <4>1. r \in Threads
        BY <3>1 DEF Starters
      <4>2. CASE r \in M
        BY <3>1, <4>2 DEF Calm
      <4>3. QED
        BY <1>1, <4>1, <4>2
    <3>2. QED
      BY <3>1
  <2>2. ASSUME NEW t \in Late(u, R)'
        PROVE  t \in Late(u, R)
    <3>1. PICK r \in R : r \in Starters(u)' /\ task'[t].at < task'[r].at
      BY <2>2 DEF Late
    <3>2. r \in Starters(u) /\ task'[t].at < task[r].at
      BY <1>2, <2>1, <3>1
    <3>3. t \in Threads /\ Serving(t, u)' /\ task'[t].pc = "scan"
      BY <2>2 DEF Late
    <3>4. t \notin M
      BY <3>2, <3>3 DEF Calm
    <3>5. QED
      BY <1>1, <3>1, <3>2, <3>3, <3>4 DEF Late
  <2>3. QED
    BY <1>2, <2>2 DEF Slots
<1>7. QED
  BY <1>2, <1>4, <1>5, <1>6, SettlingKeepsCrowd DEF Settles

\* The sessions of u stay as they are.
LEMMA SameForIsCalm ==
  ASSUME NEW u \in Subjects, SameFor(u, sessions, sessions')
  PROVE  CalmSessions(u) /\ ActiveOf(u)' = ActiveOf(u)
         /\ \A a \in ActiveOf(u) : sessions'[a] = sessions[a]
<1>1. ActiveOf(u)' = ActiveOf(u)
  BY DEF SameFor, ActiveOf, Own
<1>2. \A a \in ActiveOf(u) : a \in Own(sessions, u)
  BY DEF ActiveOf, Own
<1>3. QED
  BY <1>1, <1>2 DEF SameFor, CalmSessions

LEMMA OthersAreCalm ==
  ASSUME IInv, NEW u \in Subjects, Crowd(u), NEW t \in Threads, Busy(t), task[t].by # u, NEW w,
         task' = [task EXCEPT ![t] = w], w # Idle => w.by = task[t].by,
         SameFor(u, sessions, sessions')
  PROVE  Crowd(u)'
<1>1. task'[t] = w /\ \A r \in Threads \ {t} : task'[r] = task[r]
  BY DEF IInv
<1>2. ~Serving(t, u)'
  BY <1>1 DEF Serving, Busy
<1>3. t \notin Starters(u)' /\ t \notin Touchers(u)'
  BY <1>2 DEF Starters, Touchers
<1>4. Calm(u, {t})
  BY <1>1, <1>2, <1>3 DEF Calm
<1>5. QED
  BY <1>4, SameForIsCalm, CalmKeepsCrowd

LEMMA ArriveCrowd ==
  ASSUME IInv, NEW u \in Subjects, Crowd(u), NEW t \in Threads, NEW subject \in Subjects,
         Arrive(t, subject)
  PROVE  Crowd(u)'
<1> DEFINE w == [pc |-> "scan", by |-> subject, at |-> clock, listed |-> {},
                 chosen |-> {}, updated |-> {}]
<1>1. /\ task' = [task EXCEPT ![t] = w] /\ UNCHANGED sessions
      /\ w.pc = "scan" /\ w.at = clock
  BY DEF Arrive
<1> HIDE DEF w
<1>2. task'[t] = w /\ \A r \in Threads \ {t} : task'[r] = task[r]
  BY <1>1 DEF IInv
<1>3. t \notin Starters(u)' /\ t \notin Touchers(u)'
  BY <1>1, <1>2 DEF Starters, Touchers
<1>4. \A r \in Starters(u) : ~(clock < task[r].at)
  <2>1. ASSUME NEW r \in Starters(u)
        PROVE  ~(clock < task[r].at)
    <3>1. task[r].at \in Times /\ task[r].at <= clock
      BY <2>1 DEF Starters, Serving, IInv, RequestOK, Task
    <3>2. clock \in Int /\ task[r].at \in Int
      BY <3>1, SessionTimeAssumption DEF IInv, Times
    <3>3. QED
      BY <3>1, <3>2
  <2>2. QED
    BY <2>1
<1>5. Calm(u, {t})
  BY <1>1, <1>2, <1>3, <1>4 DEF Calm
<1>6. SameFor(u, sessions, sessions')
  BY <1>1 DEF SameFor
<1>7. QED
  BY <1>5, <1>6, SameForIsCalm, CalmKeepsCrowd

\* Saving a session of one user leaves the others' alone; saving one that is
\* closed or gone for opens none that was not counted.
LEMMA SaveForOther ==
  ASSUME NEW u, NEW id, NEW r, sessions' = Save(id, r), r.subject # u,
         id \in DOMAIN sessions => sessions[id].subject # u
  PROVE  SameFor(u, sessions, sessions')
<1>1. /\ DOMAIN sessions' = DOMAIN sessions \cup {id} /\ sessions'[id] = r
      /\ \A x \in DOMAIN sessions : x # id => sessions'[x] = sessions[x]
  BY DEF Save
<1>2. QED
  BY <1>1 DEF SameFor, Own

LEMMA SaveIsCalm ==
  ASSUME NEW u, NEW id, NEW r, sessions' = Save(id, r),
         r.status # "active" \/ id \in AllTargets(u)
  PROVE  CalmSessions(u) /\ (r.status # "active" => id \notin ActiveOf(u)')
         /\ \A x \in ActiveOf(u)' : x # id => x \in ActiveOf(u) /\ sessions'[x] = sessions[x]
<1>1. /\ DOMAIN sessions' = DOMAIN sessions \cup {id} /\ sessions'[id] = r
      /\ \A x \in DOMAIN sessions : x # id => sessions'[x] = sessions[x]
  BY DEF Save
<1>2. /\ r.status # "active" => id \notin ActiveOf(u)'
      /\ \A x \in ActiveOf(u)' : x # id => x \in ActiveOf(u) /\ sessions'[x] = sessions[x]
  BY <1>1 DEF ActiveOf
<1>3. QED
  BY <1>2 DEF CalmSessions

LEMMA ExpireIdleCrowd ==
  ASSUME IInv, NEW u \in Subjects, Crowd(u), NEW t \in Threads, ExpireIdle(t)
  PROVE  Crowd(u)'
<1>1. task[t].pc = "expire"
  BY DEF ExpireIdle
<1>2. PICK e \in task[t].listed :
        /\ IsIdle(e[2], task[t].at)
        /\ sessions' = Save(e[1], Expired(e[2], task[t].at))
        /\ task' = [task EXCEPT ![t].listed = @ \ {e}]
  BY DEF ExpireIdle
<1> DEFINE w == [task[t] EXCEPT !.listed = task[t].listed \ {e}]
           x == Expired(e[2], task[t].at)
<1>3. Busy(t) /\ RequestOK(task[t], sessions, clock) /\ task[t] \in Task
  BY <1>1, BusyFacts
<1>4. /\ OpenRecord(e[2], task[t].by, clock) /\ VersionOf(e[2], e[1], task[t].by, sessions)
      /\ e \in SessionIds \X Session
  BY <1>3 DEF RequestOK, Task
<1>5. x.status = "expired" /\ x.subject = task[t].by
  BY <1>4 DEF Expired, OpenRecord, Session
<1>6. task' = [task EXCEPT ![t] = w]
  BY <1>2 DEF IInv
<1>7. /\ w.pc = "expire" /\ w.by = task[t].by /\ w.at = task[t].at
      /\ w.listed = task[t].listed \ {e}
  BY <1>1, <1>3 DEF Task
<1> HIDE DEF w, x
<1>8. CASE task[t].by # u
  <2>1. sessions[e[1]].subject # u
    BY <1>4, <1>8 DEF VersionOf
  <2>2. SameFor(u, sessions, sessions')
    BY <1>2, <1>5, <1>8, <2>1, SaveForOther DEF x
  <2>3. QED
    BY <1>3, <1>6, <1>7, <1>8, <2>2, OthersAreCalm
<1>9. CASE task[t].by = u
  <2>1. task'[t] = w /\ \A r \in Threads \ {t} : task'[r] = task[r]
    BY <1>6 DEF IInv
  <2>2. /\ CalmSessions(u) /\ e[1] \notin ActiveOf(u)'
        /\ \A a \in ActiveOf(u)' : a # e[1] => a \in ActiveOf(u) /\ sessions'[a] = sessions[a]
    BY <1>2, <1>5, SaveIsCalm DEF x
  <2>3. Kept(t)' = Kept(t)
    BY <1>2, <1>7, <2>1 DEF Kept
  <2>4. Targets(t)' = Targets(t)
    BY <1>1, <1>7, <2>1, <2>3 DEF Targets
  <2>5. (t \in Starters(u)' => t \in Starters(u)) /\ (t \in Touchers(u)' => t \in Touchers(u))
    BY <1>1, <1>3, <1>7, <1>9, <2>1, <2>3 DEF Starters, Touchers, Serving
  <2>6. ASSUME NEW a \in ActiveOf(u)', a \in Doomed(u, t)
        PROVE  a \in Doomed(u, t)'
    <3>1. a # e[1] /\ sessions'[a] = sessions[a]
      BY <2>2
    <3>2. <<a, sessions[a]>> \in task[t].listed \ {e}
      <4>1. <<a, sessions[a]>>[1] = a
        OBVIOUS
      <4>2. QED
        BY <2>6, <3>1, <4>1 DEF Doomed
    <3>3. QED
      BY <1>7, <2>1, <3>1, <3>2 DEF Doomed
  <2>7. Calm(u, {t})
    BY <1>7, <2>1, <2>4, <2>5, <2>6 DEF Calm
  <2>8. QED
    BY <2>2, <2>7, CalmKeepsCrowd
<1>10. QED
  BY <1>8, <1>9

LEMMA ChooseCrowd ==
  ASSUME IInv, NEW u \in Subjects, Crowd(u), NEW t \in Threads, Choose(t)
  PROVE  Crowd(u)'
<1> DEFINE next == IF task[t].listed = {} THEN "start" ELSE "touch"
           best == {e[1] : e \in Preferred(task[t].listed)}
           w == [task[t] EXCEPT !.pc = next, !.listed = {}, !.chosen = best]
<1>1. /\ task[t].pc = "expire" /\ UNCHANGED sessions
      /\ \A e \in task[t].listed : ~IsIdle(e[2], task[t].at)
  BY DEF Choose
<1>2. Busy(t) /\ RequestOK(task[t], sessions, clock) /\ task[t] \in Task
  BY <1>1, BusyFacts
<1>3. task' = [task EXCEPT ![t] = w]
  <2>1. task' = [task EXCEPT ![t].pc = next, ![t].listed = {}, ![t].chosen = best]
    BY DEF Choose
  <2> HIDE DEF best, next
  <2>2. QED
    BY <2>1 DEF IInv
<1>4. Kept(t) = task[t].listed
  BY <1>1 DEF Kept
<1>5. best = Targets(t)
  BY <1>1, <1>4 DEF Targets
<1>6. next \in {"start", "touch"} /\ (next = "start" <=> task[t].listed = {})
  OBVIOUS
<1> HIDE DEF best, next
<1>7. /\ w.pc = next /\ w.by = task[t].by /\ w.at = task[t].at /\ w.chosen = best
  BY <1>2 DEF Task
<1> HIDE DEF w
<1>8. SameFor(u, sessions, sessions')
  BY <1>1 DEF SameFor
<1>9. CASE task[t].by # u
  BY <1>2, <1>3, <1>7, <1>8, <1>9, OthersAreCalm
<1>10. CASE task[t].by = u
  <2>1. task'[t] = w /\ \A r \in Threads \ {t} : task'[r] = task[r]
    BY <1>3 DEF IInv
  <2>2. t \in Starters(u)' => t \in Starters(u) /\ Doomed(u, t) = {}
    <3>1. ASSUME t \in Starters(u)'
          PROVE  next = "start"
      BY <1>6, <1>7, <2>1, <3>1 DEF Starters
    <3>2. next = "start" => t \in Starters(u) /\ Doomed(u, t) = {}
      BY <1>1, <1>2, <1>4, <1>6, <1>10 DEF Starters, Serving, Doomed
    <3>3. QED
      BY <3>1, <3>2
  <2>3. t \in Touchers(u)' => t \in Touchers(u) /\ Targets(t)' \subseteq Targets(t)
    <3>1. ASSUME t \in Touchers(u)'
          PROVE  next = "touch"
      BY <1>6, <1>7, <2>1, <3>1 DEF Touchers
    <3>2. next = "touch" => t \in Touchers(u)
      BY <1>1, <1>2, <1>4, <1>6, <1>10 DEF Touchers, Serving
    <3>3. next = "touch" => Targets(t)' = Targets(t)
      BY <1>5, <1>7, <2>1 DEF Targets
    <3>4. QED
      BY <3>1, <3>2, <3>3
  <2>4. Calm(u, {t})
    BY <1>6, <1>7, <2>1, <2>2, <2>3 DEF Calm
  <2>5. QED
    BY <1>8, <2>4, SameForIsCalm, CalmKeepsCrowd
<1>11. QED
  BY <1>9, <1>10

LEMMA TouchCrowd ==
  ASSUME IInv, NEW u \in Subjects, Crowd(u), NEW t \in Threads, Touch(t)
  PROVE  Crowd(u)'
<1>1. task[t].pc = "touch" /\ UNCHANGED sessions
  BY DEF Touch
<1>2. PICK id \in task[t].chosen :
        task' = [task EXCEPT ![t].pc = "save",
                             ![t].updated = {Touched(sessions[id], task[t].at)}]
  BY DEF Touch
<1> DEFINE w == [task[t] EXCEPT !.pc = "save", !.updated = {Touched(sessions[id], task[t].at)}]
<1>3. Busy(t) /\ task[t] \in Task
  BY <1>1, BusyFacts
<1>4. task' = [task EXCEPT ![t] = w]
  BY <1>2 DEF IInv
<1>5. w.pc = "save" /\ w.by = task[t].by /\ w.chosen = task[t].chosen
  BY <1>3 DEF Task
<1> HIDE DEF w
<1>6. SameFor(u, sessions, sessions')
  BY <1>1 DEF SameFor
<1>7. CASE task[t].by # u
  BY <1>3, <1>4, <1>5, <1>6, <1>7, OthersAreCalm
<1>8. CASE task[t].by = u
  <2>1. task'[t] = w /\ \A r \in Threads \ {t} : task'[r] = task[r]
    BY <1>4 DEF IInv
  <2>2. t \notin Starters(u)'
    BY <1>5, <2>1 DEF Starters
  <2>3. t \in Touchers(u) /\ Targets(t)' = Targets(t)
    BY <1>1, <1>3, <1>5, <1>8, <2>1 DEF Touchers, Serving, Targets
  <2>4. Calm(u, {t})
    BY <1>5, <2>1, <2>2, <2>3 DEF Calm
  <2>5. QED
    BY <1>6, <2>4, SameForIsCalm, CalmKeepsCrowd
<1>9. QED
  BY <1>7, <1>8

\* A request that ends.
LEMMA EndedIsCalm ==
  ASSUME IInv, NEW u, NEW t \in Threads, task' = [task EXCEPT ![t] = Idle]
  PROVE  Calm(u, {t})
<1>1. task'[t] = Idle /\ \A r \in Threads \ {t} : task'[r] = task[r]
  BY DEF IInv
<1>2. ~Serving(t, u)' /\ t \notin Starters(u)' /\ t \notin Touchers(u)'
  BY <1>1 DEF Serving, Busy, Starters, Touchers
<1>3. QED
  BY <1>1, <1>2 DEF Calm

LEMMA TouchRejectedCrowd ==
  ASSUME IInv, NEW u \in Subjects, Crowd(u), NEW t \in Threads, TouchRejected(t)
  PROVE  Crowd(u)'
<1>1. task' = [task EXCEPT ![t] = Idle] /\ UNCHANGED sessions
  BY DEF TouchRejected
<1>2. SameFor(u, sessions, sessions')
  BY <1>1 DEF SameFor
<1>3. QED
  BY <1>1, <1>2, EndedIsCalm, SameForIsCalm, CalmKeepsCrowd

LEMMA TouchSaveCrowd ==
  ASSUME IInv, NEW u \in Subjects, Crowd(u), NEW t \in Threads, TouchSave(t)
  PROVE  Crowd(u)'
<1>1. task[t].pc = "save" /\ task' = [task EXCEPT ![t] = Idle]
  BY DEF TouchSave
<1>2. PICK id \in task[t].chosen, r \in task[t].updated : sessions' = Save(id, r)
  BY DEF TouchSave
<1>3. /\ Busy(t) /\ OpenRecord(r, task[t].by, clock)
      /\ VersionOf(r, id, task[t].by, sessions)
  BY <1>1, BusyFacts DEF RequestOK
<1>4. CalmSessions(u)
  <2>1. CASE task[t].by # u
    <3>1. SameFor(u, sessions, sessions')
      BY <1>2, <1>3, <2>1, SaveForOther DEF OpenRecord, VersionOf
    <3>2. QED
      BY <3>1, SameForIsCalm
  <2>2. CASE task[t].by = u
    <3>1. id \in AllTargets(u)
      BY <1>1, <1>2, <1>3, <2>2 DEF AllTargets, Touchers, Targets, Serving
    <3>2. QED
      BY <1>2, <3>1, SaveIsCalm
  <2>3. QED
    BY <2>1, <2>2
<1>5. QED
  BY <1>1, <1>4, EndedIsCalm, CalmKeepsCrowd

\* Closing a session from outside, and time.
LEMMA NoThreadIsCalm ==
  ASSUME NEW u, UNCHANGED task
  PROVE  Calm(u, {})
BY DEF Calm

LEMMA CloseCrowd ==
  ASSUME IInv, NEW u \in Subjects, Crowd(u), NEW id \in SessionIds, End(id) \/ ForceExpire(id)
  PROVE  Crowd(u)'
<1>1. PICK r : /\ sessions' = Save(id, r) /\ r.status # "active"
               /\ UNCHANGED task
  <2>1. id \in DOMAIN sessions /\ sessions[id] \in Session
    BY DEF End, ForceExpire, IInv, SessionsOK
  <2>2. /\ \A now : [sessions[id] EXCEPT !.end = now, !.status = "ended"].status = "ended"
        /\ \A now : Expired(sessions[id], now).status = "expired"
    BY <2>1 DEF Session, Expired
  <2>3. QED
    BY <2>2 DEF End, ForceExpire
<1>2. CalmSessions(u)
  BY <1>1, SaveIsCalm
<1>3. QED
  BY <1>1, <1>2, NoThreadIsCalm, CalmKeepsCrowd

LEMMA TickCrowd ==
  ASSUME IInv, NEW u \in Subjects, Crowd(u), UNCHANGED <<sessions, task>>
  PROVE  Crowd(u)'
<1>1. SameFor(u, sessions, sessions')
  BY DEF SameFor
<1>2. QED
  BY <1>1, NoThreadIsCalm, SameForIsCalm, CalmKeepsCrowd

------------------------------------------------------------------------------
\* A scan: the request becomes a starter, the last one, or goes for a session.

\* What the scan makes of its request.
LEMMA ScanFacts ==
  ASSUME IInv, NEW t \in Threads, Scan(t)
  PROVE  /\ Busy(t) /\ task[t].pc = "scan" /\ UNCHANGED sessions
         /\ \A r \in Threads \ {t} : task'[r] = task[r]
         /\ task'[t].pc = "expire" /\ task'[t].by = task[t].by /\ task'[t].at = task[t].at
         /\ task'[t].listed = {<<id, sessions[id]>> : id \in ActiveOf(task[t].by)}
         /\ task'[t] # Idle
<1> DEFINE seen == {<<id, sessions[id]>> : id \in ActiveOf(task[t].by)}
           w == [task[t] EXCEPT !.pc = "expire", !.listed = seen]
<1>1. task[t].pc = "scan" /\ UNCHANGED sessions
  BY DEF Scan
<1>2. Busy(t) /\ task[t] \in Task
  BY <1>1, BusyFacts
<1>3. task' = [task EXCEPT ![t] = w]
  <2>1. task' = [task EXCEPT ![t].pc = "expire", ![t].listed = seen]
    BY DEF Scan, ActiveOf
  <2> HIDE DEF seen
  <2>2. QED
    BY <2>1 DEF IInv
<1> HIDE DEF seen
<1>4. w.pc = "expire" /\ w.by = task[t].by /\ w.at = task[t].at /\ w.listed = seen
  BY <1>2 DEF Task
<1> HIDE DEF w
<1>5. task'[t] = w /\ \A r \in Threads \ {t} : task'[r] = task[r]
  BY <1>3 DEF IInv
<1>6. w # Idle
  BY <1>4 DEF Idle
<1>7. QED
  BY <1>1, <1>2, <1>4, <1>5, <1>6 DEF seen

\* What stays when the request of user u at t has scanned.
LEMMA ScanCounts ==
  ASSUME IInv, NEW u \in Subjects, NEW t \in Threads, Scan(t), task[t].by = u
  PROVE  /\ t \notin Starters(u) /\ t \notin Touchers(u)
         /\ ActiveOf(u)' = ActiveOf(u)
         /\ Starters(u)' = IF Kept(t)' = {} THEN Starters(u) \cup {t} ELSE Starters(u)
         /\ Touchers(u)' = IF Kept(t)' = {} THEN Touchers(u) ELSE Touchers(u) \cup {t}
         /\ \A r \in Threads \ {t} : Targets(r)' = Targets(r) /\ Doomed(u, r)' = Doomed(u, r)
         /\ Doomed(u, t)' = ActiveOf(u)
         /\ \A R \in SUBSET Threads : t \notin R => Late(u, R)' = Late(u, R) \ {t}
<1>1. /\ Busy(t) /\ task[t].pc = "scan" /\ UNCHANGED sessions
      /\ \A r \in Threads \ {t} : task'[r] = task[r]
      /\ task'[t].pc = "expire" /\ task'[t].by = u /\ task'[t].at = task[t].at
      /\ task'[t].listed = {<<id, sessions[id]>> : id \in ActiveOf(u)}
      /\ task'[t] # Idle
  BY ScanFacts
<1>2. t \notin Starters(u) /\ t \notin Touchers(u)
  BY <1>1 DEF Starters, Touchers
<1>3. ActiveOf(u)' = ActiveOf(u)
  BY <1>1 DEF ActiveOf
<1>4. Serving(t, u)' /\ Serving(t, u)
  BY <1>1 DEF Serving, Busy
<1>5. \A r \in Threads \ {t} : /\ Serving(r, u)' <=> Serving(r, u)
                               /\ Kept(r)' = Kept(r) /\ Targets(r)' = Targets(r)
  BY <1>1, ThreadStays
<1>6. Starters(u)' = IF Kept(t)' = {} THEN Starters(u) \cup {t} ELSE Starters(u)
  <2>1. t \in Starters(u)' <=> Kept(t)' = {}
    BY <1>1, <1>4 DEF Starters
  <2>2. \A r \in Threads \ {t} : r \in Starters(u)' <=> r \in Starters(u)
    BY <1>1, <1>5 DEF Starters
  <2>3. Starters(u)' \subseteq Threads /\ Starters(u) \subseteq Threads
    BY DEF Starters
  <2>4. QED
    BY <1>2, <2>1, <2>2, <2>3
<1>7. Touchers(u)' = IF Kept(t)' = {} THEN Touchers(u) ELSE Touchers(u) \cup {t}
  <2>1. t \in Touchers(u)' <=> Kept(t)' # {}
    BY <1>1, <1>4 DEF Touchers
  <2>2. \A r \in Threads \ {t} : r \in Touchers(u)' <=> r \in Touchers(u)
    BY <1>1, <1>5 DEF Touchers
  <2>3. Touchers(u)' \subseteq Threads /\ Touchers(u) \subseteq Threads
    BY DEF Touchers
  <2>4. QED
    BY <1>2, <2>1, <2>2, <2>3
<1>8. \A r \in Threads \ {t} : Doomed(u, r)' = Doomed(u, r)
  BY <1>1, <1>3 DEF Doomed
<1>9. Doomed(u, t)' = ActiveOf(u)
  BY <1>1, <1>3 DEF Doomed
<1>10. ASSUME NEW R \in SUBSET Threads, t \notin R
       PROVE  Late(u, R)' = Late(u, R) \ {t}
  <2>1. R \cap Starters(u)' = R \cap Starters(u)
    BY <1>6, <1>10
  <2>2. \A r \in R : task'[r] = task[r]
    BY <1>1, <1>10
  <2>3. t \notin Late(u, R)'
    BY <1>1 DEF Late
  <2>4. \A r \in Threads \ {t} : r \in Late(u, R)' <=> r \in Late(u, R)
    BY <1>1, <1>5, <2>1, <2>2 DEF Late
  <2>5. Late(u, R)' \subseteq Threads /\ Late(u, R) \subseteq Threads
    BY DEF Late
  <2>6. QED
    BY <2>3, <2>4, <2>5
<1>11. QED
  BY <1>2, <1>3, <1>5, <1>6, <1>7, <1>8, <1>9, <1>10

\* The session a request goes for is one that it found alive; if a starter is
\* about to expire it, the request is a late one, whose place it takes.
LEMMA ScanToTouchCrowd ==
  ASSUME IInv, NEW u \in Subjects, Crowd(u), NEW t \in Threads, Scan(t), task[t].by = u,
         Kept(t)' # {}, IInv'
  PROVE  Crowd(u)'
<1>1. /\ t \notin Starters(u) /\ t \notin Touchers(u)
      /\ ActiveOf(u)' = ActiveOf(u)
      /\ Starters(u)' = Starters(u) /\ Touchers(u)' = Touchers(u) \cup {t}
      /\ \A r \in Threads \ {t} : Targets(r)' = Targets(r) /\ Doomed(u, r)' = Doomed(u, r)
      /\ \A R \in SUBSET Threads : t \notin R => Late(u, R)' = Late(u, R) \ {t}
  BY ScanCounts
<1>2. /\ task'[t].pc = "expire" /\ task'[t].at = task[t].at /\ UNCHANGED sessions
      /\ task'[t].listed = {<<id, sessions[id]>> : id \in ActiveOf(u)}
      /\ task[t].pc = "scan" /\ Serving(t, u)
      /\ \A r \in Threads \ {t} : task'[r] = task[r]
  BY ScanFacts DEF Serving
<1>3. Targets(t)' \subseteq {id \in ActiveOf(u) : ~IsIdle(sessions[id], task[t].at)}
  <2>1. ASSUME NEW e \in Kept(t)'
        PROVE  e[1] \in ActiveOf(u) /\ ~IsIdle(sessions[e[1]], task[t].at)
    <3>1. e \in task'[t].listed /\ ~IsIdle(e[2], task[t].at)
      BY <1>2, <2>1 DEF Kept
    <3>2. PICK id \in ActiveOf(u) : e = <<id, sessions[id]>>
      BY <1>2, <3>1
    <3>3. QED
      BY <3>1, <3>2
  <2>2. Targets(t)' = {e[1] : e \in Preferred(Kept(t)')}
    BY <1>2 DEF Targets
  <2>3. Preferred(Kept(t)') \subseteq Kept(t)'
    BY DEF Preferred
  <2>4. QED
    BY <2>1, <2>2, <2>3
<1>4. AtMostOne(Targets(t)')
  <2>1. task'[t] \in Task
    BY <1>2 DEF IInv, Busy, Idle, RequestOK
  <2>2. Kept(t)' \in SUBSET (SessionIds \X Session)
    BY <2>1 DEF Kept, Task
  <2>3. AtMostOne({e[1] : e \in Preferred(Kept(t)')})
    BY <2>2, PreferredIsOne
  <2>4. QED
    BY <1>2, <2>3 DEF Targets
<1>5. Touchers(u) \subseteq Threads
  BY DEF Touchers
<1>6. AllTargets(u)' = AllTargets(u) \cup Targets(t)'
  BY <1>1, <1>5 DEF AllTargets
<1>7. (ActiveOf(u) \cup AllTargets(u))' \subseteq ActiveOf(u) \cup AllTargets(u)
  BY <1>1, <1>3, <1>6
<1>8. ASSUME NEW r \in Starters(u)', NEW R0 \in SUBSET Threads, r \in R0
      PROVE  Settles(u, r, R0)
  <2> DEFINE R == R0 \ {t}
  <2>1. r \in Threads \ {t} /\ r \in R /\ r \in Starters(u)
    BY <1>1, <1>8 DEF Starters
  <2>2. Slots(u, R0) = Slots(u, R) /\ Slots(u, R0)' = Slots(u, R)'
    <3>1. R0 \cap Starters(u) = R \cap Starters(u) /\ R0 \cap Starters(u)' = R \cap Starters(u)'
      BY <1>1
    <3>2. Late(u, R0) = Late(u, R) /\ Late(u, R0)' = Late(u, R)'
      BY <3>1 DEF Late
    <3>3. QED
      BY <3>1, <3>2 DEF Slots
  <2>3. Late(u, R)' = Late(u, R) \ {t}
    BY <1>1
  <2>4. Slots(u, R)' = Slots(u, R) \cup {t}
    <3>1. t \notin R \cap Starters(u)
      BY <1>1
    <3>2. QED
      BY <1>1, <2>3, <3>1 DEF Slots
  <2>5. Fresh(u, r)' = Fresh(u, r) \cup Targets(t)'
    BY <1>1, <1>6, <2>1 DEF Fresh
  <2>6. CASE t \in Late(u, R)
    <3>1. t \notin Slots(u, R)
      BY <2>6 DEF Slots
    <3>2. \E y : Targets(t)' \subseteq {y}
      BY <1>4 DEF AtMostOne
    <3>3. QED
      BY <2>2, <2>4, <2>5, <3>1, <3>2 DEF Settles
  <2>7. CASE t \notin Late(u, R)
    <3>1. ~(task[t].at < task[r].at)
      BY <1>2, <2>1, <2>7 DEF Late
    <3>2. ASSUME NEW id \in Targets(t)', id \in Doomed(u, r)
          PROVE  FALSE
      <4>1. task[r].pc = "expire" /\ <<id, sessions[id]>> \in task[r].listed /\ id \in ActiveOf(u)
        BY <3>2 DEF Doomed
      <4>2. Kept(r) = {}
        BY <2>1, <4>1 DEF Starters
      <4>3. IsIdle(sessions[id], task[r].at)
        <5>1. <<id, sessions[id]>>[2] = sessions[id]
          OBVIOUS
        <5>2. QED
          BY <4>1, <4>2, <5>1 DEF Kept
      <4>4. ~IsIdle(sessions[id], task[t].at)
        BY <1>3, <3>2
      <4>5. task[r].at \in Int /\ task[t].at \in Int /\ sessions[id].last \in Int
        <5>1. task[r] \in Task /\ task[t] \in Task
          BY <1>2, <2>1 DEF Starters, Serving, IInv, RequestOK
        <5>2. sessions[id] \in Session
          BY <4>1 DEF ActiveOf, IInv, SessionsOK
        <5>3. QED
          BY <5>1, <5>2 DEF Task, Session, Times
      <4>6. IdleTimeout \in Int
        BY IdleTimeoutAssumption
      <4>7. QED
        BY <3>1, <4>3, <4>4, <4>5, <4>6 DEF IsIdle
    <3>3. Targets(t)' \subseteq Fresh(u, r)
      BY <1>3, <3>2 DEF Fresh
    <3>4. QED
      BY <2>2, <2>4, <2>5, <3>3 DEF Settles
  <2>8. QED
    BY <2>6, <2>7
<1>9. QED
  BY <1>1, <1>7, <1>8, SettlingKeepsCrowd

\* Sets of which each of S contributes at most one element have no more elements
\* together than S.
LEMMA OneEach ==
  ASSUME NEW S, IsFiniteSet(S), NEW f, \A x \in S : AtMostOne(f[x])
  PROVE  Cardinality(UNION {f[x] : x \in S}) <= Cardinality(S)
<1> DEFINE all == UNION {f[x] : x \in S}
           some == {x \in S : f[x] # {}}
           g == [x \in some |-> CHOOSE y : y \in f[x]]
<1>1. IsFiniteSet(some) /\ Cardinality(some) <= Cardinality(S)
  BY FS_Subset
<1>2. \A x \in some : g[x] \in f[x] /\ \A y \in f[x] : y = g[x]
  BY DEF AtMostOne
<1>3. g \in [some -> all]
  BY <1>2
<1>4. \A y \in all : \E x \in some : g[x] = y
  BY <1>2
<1>5. g \in Surjection(some, all)
  BY <1>3, <1>4 DEF Surjection
<1>6. IsFiniteSet(all) /\ Cardinality(all) <= Cardinality(some)
  BY <1>1, <1>5, FS_Surjection
<1>7. Cardinality(all) \in Int /\ Cardinality(some) \in Int /\ Cardinality(S) \in Int
  BY <1>1, <1>6, FS_CardinalityType
<1>8. QED
  BY <1>1, <1>6, <1>7

\* There are no more sessions gone for than requests that go for one.
LEMMA EachTargetHasItsRequest ==
  ASSUME IInv, NEW u \in Subjects
  PROVE  /\ IsFiniteSet(AllTargets(u))
         /\ Cardinality(AllTargets(u)) <= Cardinality(Touchers(u))
<1> DEFINE f == [x \in Touchers(u) |-> Targets(x)]
<1>1. IsFiniteSet(Touchers(u))
  <2>1. Touchers(u) \subseteq Threads
    BY DEF Touchers
  <2>2. QED
    BY <2>1, ThreadsAssumption, FS_Subset
<1>2. \A x \in Touchers(u) : f[x] = Targets(x) /\ AtMostOne(f[x])
  BY CrowdIsFinite
<1>3. UNION {f[x] : x \in Touchers(u)} = AllTargets(u)
  BY <1>2 DEF AllTargets
<1> HIDE DEF f
<1>4. Cardinality(UNION {f[x] : x \in Touchers(u)}) <= Cardinality(Touchers(u))
  BY <1>1, <1>2, OneEach
<1>5. IsFiniteSet(AllTargets(u))
  <2>1. AllTargets(u) \subseteq ActiveOf(u) \cup AllTargets(u)
    OBVIOUS
  <2>2. QED
    BY <2>1, CrowdIsFinite, FS_Subset
<1>6. QED
  BY <1>3, <1>4, <1>5

\* A request that found its sessions idle is the last of the starters: all the
\* sessions it leaves alive are ones that another request goes for.
LEMMA ScanToStartCrowd ==
  ASSUME IInv, NEW u \in Subjects, Crowd(u), NEW t \in Threads, Scan(t), task[t].by = u,
         Kept(t)' = {}, IInv'
  PROVE  Crowd(u)'
<1>1. /\ t \notin Starters(u) /\ t \notin Touchers(u)
      /\ ActiveOf(u)' = ActiveOf(u)
      /\ Starters(u)' = Starters(u) \cup {t} /\ Touchers(u)' = Touchers(u)
      /\ \A r \in Threads \ {t} : Targets(r)' = Targets(r) /\ Doomed(u, r)' = Doomed(u, r)
      /\ Doomed(u, t)' = ActiveOf(u)
      /\ \A R \in SUBSET Threads : t \notin R => Late(u, R)' = Late(u, R) \ {t}
  BY ScanCounts
<1>2. Touchers(u) \subseteq Threads \ {t} /\ Starters(u) \subseteq Threads
  BY <1>1 DEF Touchers, Starters
<1>3. AllTargets(u)' = AllTargets(u)
  BY <1>1, <1>2 DEF AllTargets
<1>4. PICK before \in [Threads -> SUBSET Threads] :
        /\ Nested(u, before)
        /\ \A r \in Starters(u) : Cardinality(Fresh(u, r)) <= Cardinality(Slots(u, before[r]))
  BY DEF Crowd
<1> DEFINE after == [r \in Threads |-> IF r = t THEN Threads ELSE before[r] \ {t}]
<1>5. /\ after \in [Threads -> SUBSET Threads] /\ after[t] = Threads
      /\ \A r \in Threads \ {t} : after[r] = before[r] \ {t}
  BY <1>4
<1> HIDE DEF after
<1>6. Nested(u, after)'
  <2>1. ASSUME NEW r \in Starters(u)', NEW s \in Starters(u)'
        PROVE  r \in after[r] /\ (s \notin after[r] =>
                 after[r] \cap Starters(u)' \subseteq after[s])
    <3>1. r \in Threads /\ s \in Threads
      BY <1>1, <1>2, <2>1
    <3>2. CASE r = t
      BY <1>5, <3>1, <3>2
    <3>3. CASE r # t /\ s = t
      BY <1>1, <1>2, <1>4, <1>5, <2>1, <3>1, <3>3 DEF Nested
    <3>4. CASE r # t /\ s # t
      <4>1. r \in Starters(u) /\ s \in Starters(u)
        BY <1>1, <2>1, <3>4
      <4>2. r \in before[r] /\ (s \notin before[r] => before[r] \cap Starters(u) \subseteq before[s])
        BY <1>4, <4>1 DEF Nested
      <4>3. after[r] = before[r] \ {t} /\ after[s] = before[s] \ {t}
        BY <1>5, <3>1, <3>4
      <4>4. QED
        BY <1>1, <3>4, <4>2, <4>3
    <3>5. QED
      BY <3>2, <3>3, <3>4
  <2>2. QED
    BY <2>1 DEF Nested
<1>7. ASSUME NEW r \in Starters(u)'
      PROVE  Cardinality(Fresh(u, r)') <= Cardinality(Slots(u, after[r])')
  <2>1. CASE r = t
    <3>1. Fresh(u, t)' = AllTargets(u)'
      BY <1>1 DEF Fresh
    <3>2. Touchers(u)' \subseteq Slots(u, Threads)'
      BY DEF Touchers, Slots, Starters, Late
    <3>3. IsFiniteSet(Slots(u, Threads)')
      <4>1. Slots(u, Threads)' \in SUBSET Threads
        BY DEF Slots
      <4>2. QED
        BY <4>1, ThreadsAssumption, FS_Subset
    <3>4. /\ IsFiniteSet(AllTargets(u))
          /\ Cardinality(AllTargets(u)) <= Cardinality(Touchers(u))
      BY EachTargetHasItsRequest
    <3>5. Cardinality(AllTargets(u)) <= Cardinality(Slots(u, Threads)')
      BY <1>1, <3>2, <3>3, <3>4, RoomKept
    <3>6. QED
      BY <1>3, <1>5, <2>1, <3>1, <3>5
  <2>2. CASE r # t
    <3>1. r \in Starters(u) /\ r \in Threads
      BY <1>1, <1>2, <1>7, <2>2
    <3>2. Fresh(u, r)' = Fresh(u, r)
      BY <1>1, <1>3, <2>2, <3>1 DEF Fresh
    <3>3. after[r] = before[r] \ {t}
      BY <1>5, <2>2, <3>1
    <3>4. Slots(u, before[r]) \subseteq Slots(u, after[r])'
      <4>1. before[r] \in SUBSET Threads /\ after[r] \in SUBSET Threads /\ t \notin after[r]
        BY <1>4, <3>1, <3>3
      <4>2. Late(u, after[r])' = Late(u, after[r]) \ {t}
        BY <1>1, <4>1
      <4>3. after[r] \cap Starters(u)' = before[r] \cap Starters(u)
        BY <1>1, <3>3
      <4>4. after[r] \cap Starters(u) = before[r] \cap Starters(u)
        BY <1>1, <3>3
      <4>5. Late(u, after[r]) = Late(u, before[r])
        BY <4>4 DEF Late
      <4>6. QED
        BY <4>2, <4>3, <4>5 DEF Slots
    <3>5. IsFiniteSet(Slots(u, after[r])')
      <4>1. Slots(u, after[r])' \in SUBSET Threads
        BY DEF Slots
      <4>2. QED
        BY <4>1, ThreadsAssumption, FS_Subset
    <3>6. Cardinality(Fresh(u, r)) <= Cardinality(Slots(u, before[r])) /\ IsFiniteSet(Fresh(u, r))
      BY <1>4, <3>1, CrowdIsFinite
    <3>7. QED
      BY <3>2, <3>4, <3>5, <3>6, RoomKept
  <2>3. QED
    BY <2>1, <2>2
<1>8. Cardinality((ActiveOf(u) \cup AllTargets(u))') <= Cardinality(Threads)
  BY <1>1, <1>3 DEF Crowd
<1>9. QED
  BY <1>5, <1>6, <1>7, <1>8 DEF Crowd

LEMMA ScanCrowd ==
  ASSUME IInv, IInv', NEW u \in Subjects, Crowd(u), NEW t \in Threads, Scan(t)
  PROVE  Crowd(u)'
<1>1. CASE task[t].by = u
  BY <1>1, ScanToStartCrowd, ScanToTouchCrowd
<1>2. CASE task[t].by # u
  <2>1. /\ Busy(t) /\ UNCHANGED sessions /\ task'[t].by = task[t].by
        /\ \A r \in Threads \ {t} : task'[r] = task[r]
    BY ScanFacts
  <2>2. ~Serving(t, u)'
    BY <1>2, <2>1 DEF Serving
  <2>3. t \notin Starters(u)' /\ t \notin Touchers(u)'
    BY <2>2 DEF Starters, Touchers
  <2>4. Calm(u, {t})
    BY <2>1, <2>2, <2>3 DEF Calm
  <2>5. SameFor(u, sessions, sessions')
    BY <2>1 DEF SameFor
  <2>6. QED
    BY <2>4, <2>5, SameForIsCalm, CalmKeepsCrowd
<1>3. QED
  BY <1>1, <1>2

\* A starter that starts: the new session has the place of its thread.
LEMMA StartFacts ==
  ASSUME IInv, NEW u \in Subjects, NEW t \in Threads, Start(t), task[t].by = u
  PROVE  /\ t \in Starters(u) /\ Doomed(u, t) = {}
         /\ Starters(u)' = Starters(u) \ {t} /\ AllTargets(u)' = AllTargets(u)
         /\ \A r \in Threads \ {t} : task'[r] = task[r]
         /\ t \notin Late(u, Threads)'
         /\ \E id : /\ ActiveOf(u)' \subseteq ActiveOf(u) \cup {id}
                    /\ \A r \in Starters(u)' : Fresh(u, r)' \subseteq Fresh(u, r) \cup {id}
<1>1. task[t].pc = "start" /\ task' = [task EXCEPT ![t] = Idle]
  BY DEF Start
<1>2. PICK id \in FreshIds : sessions' = Save(id, NewSession(task[t].by, task[t].at))
  BY DEF Start
<1>3. Busy(t)
  BY <1>1, BusyFacts
<1>4. t \in Starters(u) /\ t \notin Touchers(u) /\ Doomed(u, t) = {}
  BY <1>1, <1>3 DEF Starters, Touchers, Serving, Doomed
<1>5. task'[t] = Idle /\ \A r \in Threads \ {t} : task'[r] = task[r]
  BY <1>1 DEF IInv
<1>6. ~Serving(t, u)'
  BY <1>5 DEF Serving, Busy
<1>7. \A r \in Threads \ {t} : /\ Serving(r, u)' <=> Serving(r, u)
                               /\ Kept(r)' = Kept(r) /\ Targets(r)' = Targets(r)
  BY <1>5, ThreadStays
<1>8. Starters(u)' = Starters(u) \ {t}
  <2>1. \A r \in Threads \ {t} : r \in Starters(u)' <=> r \in Starters(u)
    BY <1>5, <1>7 DEF Starters
  <2>2. t \notin Starters(u)' /\ Starters(u)' \subseteq Threads /\ Starters(u) \subseteq Threads
    BY <1>6 DEF Starters
  <2>3. QED
    BY <2>1, <2>2
<1>9. Touchers(u)' = Touchers(u)
  <2>1. \A r \in Threads \ {t} : r \in Touchers(u)' <=> r \in Touchers(u)
    BY <1>5, <1>7 DEF Touchers
  <2>2. t \notin Touchers(u)' /\ Touchers(u)' \subseteq Threads /\ Touchers(u) \subseteq Threads
    BY <1>6 DEF Touchers
  <2>3. QED
    BY <1>4, <2>1, <2>2
<1>10. AllTargets(u)' = AllTargets(u)
  <2>1. \A r \in Touchers(u) : Targets(r)' = Targets(r)
    BY <1>4, <1>7 DEF Touchers
  <2>2. QED
    BY <1>9, <2>1 DEF AllTargets
<1>11. \A x \in DOMAIN sessions' : x # id => x \in DOMAIN sessions /\ sessions'[x] = sessions[x]
  BY <1>2 DEF Save
<1>12. \A x \in ActiveOf(u)' : x # id => x \in ActiveOf(u) /\ sessions'[x] = sessions[x]
  BY <1>11 DEF ActiveOf
<1>13. ASSUME NEW r \in Starters(u)'
       PROVE  Fresh(u, r)' \subseteq Fresh(u, r) \cup {id}
  <2>1. task'[r] = task[r]
    BY <1>5, <1>8, <1>13 DEF Starters
  <2>2. \A a \in ActiveOf(u)' : a # id /\ a \in Doomed(u, r) => a \in Doomed(u, r)'
    BY <1>12, <2>1 DEF Doomed
  <2>3. QED
    BY <1>10, <1>12, <2>2 DEF Fresh
<1>14. t \notin Late(u, Threads)'
  BY <1>6 DEF Late
<1>15. ActiveOf(u)' \subseteq ActiveOf(u) \cup {id}
  BY <1>12
<1>16. QED
  BY <1>4, <1>5, <1>8, <1>10, <1>13, <1>14, <1>15

LEMMA StartCrowd ==
  ASSUME IInv, NEW u \in Subjects, Crowd(u), NEW t \in Threads, Start(t), task[t].by = u
  PROVE  Crowd(u)'
<1>1. /\ t \in Starters(u) /\ Doomed(u, t) = {}
      /\ Starters(u)' = Starters(u) \ {t} /\ AllTargets(u)' = AllTargets(u)
      /\ \A r \in Threads \ {t} : task'[r] = task[r]
      /\ t \notin Late(u, Threads)'
  BY StartFacts
<1>2. PICK id : /\ ActiveOf(u)' \subseteq ActiveOf(u) \cup {id}
                /\ \A r \in Starters(u)' : Fresh(u, r)' \subseteq Fresh(u, r) \cup {id}
  BY StartFacts
<1>3. PICK before \in [Threads -> SUBSET Threads] :
        /\ Nested(u, before)
        /\ \A r \in Starters(u) : Cardinality(Fresh(u, r)) <= Cardinality(Slots(u, before[r]))
  BY DEF Crowd
<1>4. Fresh(u, t) = ActiveOf(u) \cup AllTargets(u)
  BY <1>1 DEF Fresh
<1>5. ASSUME NEW R \in SUBSET Threads, NEW Q \in SUBSET Threads, t \in R,
             Q \cap Starters(u) \subseteq R
      PROVE  Slots(u, R) \cup {t} \subseteq Slots(u, Q)' /\ t \notin Slots(u, R)
  <2>1. ASSUME NEW x \in Late(u, Q)'
        PROVE  x \in Late(u, R) /\ x # t
    <3>1. x \in Threads /\ Serving(x, u)' /\ task'[x].pc = "scan"
      BY <2>1 DEF Late
    <3>2. PICK r \in Q : r \in Starters(u)' /\ task'[x].at < task'[r].at
      BY <2>1 DEF Late
    <3>3. x \in Late(u, Threads)'
      BY <3>1, <3>2 DEF Late
    <3>4. x # t
      BY <1>1, <3>3
    <3>5. r \in Threads \ {t} /\ r \in R \cap Starters(u)
      BY <1>1, <1>5, <3>2 DEF Starters
    <3>6. task'[r] = task[r] /\ task'[x] = task[x]
      BY <1>1, <3>1, <3>4, <3>5
    <3>7. Serving(x, u)
      BY <3>1, <3>6 DEF Serving, Busy
    <3>8. QED
      BY <3>1, <3>2, <3>4, <3>5, <3>6, <3>7 DEF Late
  <2>2. QED
    BY <1>1, <1>5, <2>1 DEF Slots
<1>6. \A r \in Starters(u) : r \in Threads /\ r \in before[r] /\ before[r] \in SUBSET Threads
  BY <1>3 DEF Nested, Starters
<1>7. ASSUME NEW Q \in SUBSET Threads
      PROVE  IsFiniteSet(Slots(u, Q)')
  <2>1. Slots(u, Q)' \in SUBSET Threads
    BY DEF Slots
  <2>2. QED
    BY <2>1, ThreadsAssumption, FS_Subset
<1>8. \A r : IsFiniteSet(Fresh(u, r))
  BY CrowdIsFinite
<1>9. ASSUME NEW r \in Starters(u)'
      PROVE  Cardinality(Fresh(u, r)') <= Cardinality(Slots(u, before[r])')
  <2>1. r \in Starters(u) /\ r # t
    BY <1>1, <1>9
  <2>2. Fresh(u, r)' \subseteq Fresh(u, r) \cup {id}
    BY <1>2
  <2>3. CASE t \in before[r]
    <3>1. /\ Slots(u, before[r]) \cup {t} \subseteq Slots(u, before[r])'
          /\ t \notin Slots(u, before[r])
      BY <1>5, <1>6, <2>1, <2>3
    <3>2. Cardinality(Fresh(u, r)) <= Cardinality(Slots(u, before[r]))
      BY <1>3, <2>1
    <3>3. IsFiniteSet(Slots(u, before[r])') /\ IsFiniteSet(Fresh(u, r))
      BY <1>6, <1>7, <1>8, <2>1
    <3>4. QED
      BY <2>2, <3>1, <3>2, <3>3, RoomAdded
  <2>4. CASE t \notin before[r]
    <3>1. before[r] \cap Starters(u) \subseteq before[t]
      BY <1>1, <1>3, <2>1, <2>4 DEF Nested
    <3>2. /\ Slots(u, before[t]) \cup {t} \subseteq Slots(u, before[r])'
          /\ t \notin Slots(u, before[t])
      BY <1>1, <1>5, <1>6, <2>1, <3>1
    <3>3. Cardinality(Fresh(u, t)) <= Cardinality(Slots(u, before[t]))
      BY <1>1, <1>3
    <3>4. Fresh(u, r)' \subseteq Fresh(u, t) \cup {id}
      BY <1>4, <2>2 DEF Fresh
    <3>5. IsFiniteSet(Slots(u, before[r])') /\ IsFiniteSet(Fresh(u, t))
      BY <1>6, <1>7, <1>8, <2>1
    <3>6. QED
      BY <3>2, <3>3, <3>4, <3>5, RoomAdded
  <2>5. QED
    BY <2>3, <2>4
<1>10. Cardinality((ActiveOf(u) \cup AllTargets(u))') <= Cardinality(Threads)
  <2>1. (ActiveOf(u) \cup AllTargets(u))' \subseteq Fresh(u, t) \cup {id}
    BY <1>1, <1>2, <1>4
  <2>2. Slots(u, before[t]) \cup {t} \subseteq Threads /\ t \notin Slots(u, before[t])
    BY <1>1, <1>6 DEF Slots
  <2>3. Cardinality(Fresh(u, t)) <= Cardinality(Slots(u, before[t]))
    BY <1>1, <1>3
  <2>4. IsFiniteSet(Fresh(u, t)) /\ IsFiniteSet(Threads)
    BY <1>8, ThreadsAssumption
  <2>5. ASSUME NEW V, NEW F, NEW W, IsFiniteSet(V), W \subseteq V \cup {id},
               F \cup {t} \subseteq Threads, t \notin F, Cardinality(V) <= Cardinality(F)
        PROVE  Cardinality(W) <= Cardinality(Threads)
    BY <2>4, <2>5, RoomAdded
  <2>6. QED
    BY <2>1, <2>2, <2>3, <2>4, <2>5
<1>11. Nested(u, before)'
  BY <1>1, <1>3 DEF Nested
<1>12. QED
  BY <1>3, <1>9, <1>10, <1>11 DEF Crowd

LEMMA StartOfOtherCrowd ==
  ASSUME IInv, NEW u \in Subjects, Crowd(u), NEW t \in Threads, Start(t), task[t].by # u
  PROVE  Crowd(u)'
<1>1. task' = [task EXCEPT ![t] = Idle]
  BY DEF Start
<1>2. PICK id \in FreshIds : sessions' = Save(id, NewSession(task[t].by, task[t].at))
  BY DEF Start
<1>3. id \notin DOMAIN sessions
  BY <1>2, MaxSessionsAssumption DEF FreshIds, SessionIds
<1>4. NewSession(task[t].by, task[t].at).subject # u
  BY DEF NewSession
<1>5. SameFor(u, sessions, sessions')
  BY <1>2, <1>3, <1>4, SaveForOther
<1>6. QED
  BY <1>1, <1>5, EndedIsCalm, SameForIsCalm, CalmKeepsCrowd

------------------------------------------------------------------------------
LEMMA InitCrowd ==
  ASSUME Init, NEW u \in Subjects
  PROVE  Crowd(u)
<1>1. Starters(u) = {} /\ Touchers(u) = {}
  BY DEF Init, Starters, Touchers, Serving, Busy
<1>2. ActiveOf(u) \cup AllTargets(u) = {}
  BY <1>1 DEF Init, ActiveOf, AllTargets
<1>3. Cardinality(ActiveOf(u) \cup AllTargets(u)) <= Cardinality(Threads)
  <2>1. Cardinality(Threads) \in Nat
    BY ThreadsAssumption, FS_CardinalityType
  <2>2. Cardinality({}) = 0
    BY FS_EmptySet
  <2>3. QED
    BY <1>2, <2>1, <2>2
<1> DEFINE before == [r \in Threads |-> Threads]
<1>4. before \in [Threads -> SUBSET Threads]
  OBVIOUS
<1>5. Nested(u, before)
  BY <1>1 DEF Nested
<1>6. QED
  BY <1>1, <1>3, <1>4, <1>5 DEF Crowd

LEMMA NextCrowd ==
  ASSUME IInv, IInv', \A u \in Subjects : Crowd(u), [Next]_vars
  PROVE  \A u \in Subjects : Crowd(u)'
<1> SUFFICES ASSUME NEW u \in Subjects PROVE Crowd(u)'
  OBVIOUS
<1>1. Crowd(u)
  OBVIOUS
<1>2. CASE UNCHANGED vars \/ Tick
  BY <1>1, <1>2, TickCrowd DEF vars, Tick
<1>3. ASSUME NEW t \in Threads, NEW subject \in Subjects, Arrive(t, subject)
      PROVE  Crowd(u)'
  BY <1>1, <1>3, ArriveCrowd
<1>4. ASSUME NEW t \in Threads, Scan(t)
      PROVE  Crowd(u)'
  BY <1>1, <1>4, ScanCrowd
<1>5. ASSUME NEW t \in Threads, ExpireIdle(t)
      PROVE  Crowd(u)'
  BY <1>1, <1>5, ExpireIdleCrowd
<1>6. ASSUME NEW t \in Threads, Choose(t)
      PROVE  Crowd(u)'
  BY <1>1, <1>6, ChooseCrowd
<1>7. ASSUME NEW t \in Threads, Start(t)
      PROVE  Crowd(u)'
  BY <1>1, <1>7, StartCrowd, StartOfOtherCrowd
<1>8. ASSUME NEW t \in Threads, Touch(t) \/ TouchRejected(t) \/ TouchSave(t)
      PROVE  Crowd(u)'
  BY <1>1, <1>8, TouchCrowd, TouchRejectedCrowd, TouchSaveCrowd
<1>9. ASSUME NEW id \in SessionIds, End(id) \/ ForceExpire(id)
      PROVE  Crowd(u)'
  BY <1>1, <1>9, CloseCrowd
<1>10. QED
  BY <1>2, <1>3, <1>4, <1>5, <1>6, <1>7, <1>8, <1>9 DEF Next

LEMMA CrowdBounds ==
  ASSUME IInv, \A u \in Subjects : Crowd(u)
  PROVE  AsManyAsThreads
<1> SUFFICES ASSUME NEW u \in Subjects
             PROVE  Cardinality(ActiveOf(u)) <= Cardinality(Threads)
  BY DEF AsManyAsThreads
<1>1. /\ IsFiniteSet(ActiveOf(u) \cup AllTargets(u))
      /\ Cardinality(ActiveOf(u) \cup AllTargets(u)) <= Cardinality(Threads)
  BY CrowdIsFinite DEF Crowd
<1>2. ActiveOf(u) \subseteq ActiveOf(u) \cup AllTargets(u)
  OBVIOUS
<1>3. QED
  BY <1>1, <1>2, ThreadsAssumption, RoomKept

\* However many requests race, no user has more active sessions than the server
\* has threads (get_active_session, then start_session or touch_session).
THEOREM SessionsAreBounded == Spec => []AsManyAsThreads
<1> DEFINE Crowds == \A u \in Subjects : Crowd(u)
<1>1. Init => Crowds
  BY InitCrowd
<1>2. IInv /\ IInv' /\ Crowds /\ [Next]_vars => Crowds'
  BY NextCrowd
<1>3. IInv /\ Crowds => AsManyAsThreads
  BY CrowdBounds
<1> HIDE DEF Crowds
<1>4. QED
  BY <1>1, <1>2, <1>3, InvariantHolds, PTL DEF Spec
==============================================================================
