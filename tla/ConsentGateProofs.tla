--------------------------- MODULE ConsentGateProofs ---------------------------
(***************************************************************************)
(* Theorems about ConsentGate, for every number of users and threads.      *)
(***************************************************************************)
EXTENDS ConsentGate, FiniteSetTheorems, TLAPS

------------------------------------------------------------------------------
(* The inductive invariant.  What a request of a user read is still true when *)
(* it acts on it, if no other request of the user runs at once.               *)

Busy(t) == task[t] # Idle

\* Two requests of a user at once are on record.
OverlapIsKnown ==
  \A s, t \in Threads :
    s # t /\ Busy(s) /\ Busy(t) /\ task[s].by = task[t].by => task[s].by \in overlapped

\* A control request that is about to put made its choice from the state that
\* is still the user's.
PutIsCurrent ==
  \A t \in Threads :
    task[t].pc = "put" =>
      /\ task[t].next # "unknown"
      /\ task[t].by \notin overlapped =>
           <<consent[task[t].by], task[t].action, task[t].next>> \in Transitions

\* A gated request that is about to use memories is still allowed to.
UseIsAllowed ==
  \A t \in Threads :
    task[t].pc = "use" /\ task[t].op # "event" /\ task[t].by \notin overlapped =>
      Allowed(consent[task[t].by])

IInv ==
  /\ TypeOK
  /\ OverlapIsKnown
  /\ PutIsCurrent
  /\ UseIsAllowed
  /\ NobodyUsedUnasked
  /\ OptOutStands

------------------------------------------------------------------------------
\* No transition leads back to "unknown".
LEMMA TransitionTypes ==
  ASSUME NEW x, NEW action, NEW y, <<x, action, y>> \in Transitions
  PROVE  y \in ConsentState \ {"unknown"} /\ action \in ControlAction
  BY DEF Transitions, ConsentState, ControlAction

\* From an opt-out only an opt-in leads on, and only an opt-out leads there.
LEMMA OptOutTransitions ==
  ASSUME NEW x, NEW action, NEW y, <<x, action, y>> \in Transitions
  PROVE  /\ x = "opted_out" => action = "opt_in"
         /\ action = "opt_out" => y = "opted_out"
  BY DEF Transitions

\* Beginning a request records the overlap with the requests of its user.
LEMMA BeginsFacts ==
  ASSUME NEW u \in Subjects, Begins(u), TypeOK
  PROVE  /\ overlapped \subseteq overlapped' /\ overlapped' \subseteq Subjects
         /\ \A v \in Subjects : v # u /\ v \in overlapped' => v \in overlapped
         /\ \A t \in Threads : Busy(t) /\ task[t].by = u => u \in overlapped'
  BY DEF Begins, TypeOK, Busy

\* The initial state satisfies the invariant: no request is under way.
LEMMA InitIInv == Init => IInv
  BY DEF Init, IInv, TypeOK, OverlapIsKnown, PutIsCurrent, UseIsAllowed,
         NobodyUsedUnasked, OptOutStands, Busy, Idle, ConsentState

\* A request that begins: it chose from the present state.
LEMMA BeginIInv ==
  ASSUME IInv, NEW t \in Threads, NEW u \in Subjects, NEW w \in Task,
         task[t] = Idle, w.by = u, task' = [task EXCEPT ![t] = w], Begins(u),
         w.pc = "put" => <<consent[u], w.action, w.next>> \in Transitions,
         w.pc = "use" /\ w.op # "event" => Allowed(consent[u]),
         UNCHANGED <<consent, optedOut, late>>
  PROVE  IInv'
<1>1. TypeOK'
  BY BeginsFacts DEF IInv, TypeOK
<1>2. OverlapIsKnown'
  BY BeginsFacts DEF IInv, TypeOK, OverlapIsKnown, Busy
<1>3. PutIsCurrent'
  BY BeginsFacts, TransitionTypes DEF IInv, TypeOK, PutIsCurrent, Idle
<1>4. UseIsAllowed'
  BY BeginsFacts DEF IInv, TypeOK, UseIsAllowed, Idle
<1>5. NobodyUsedUnasked'
  BY DEF IInv, TypeOK, NobodyUsedUnasked, Idle, Allowed
<1>6. OptOutStands'
  BY BeginsFacts DEF IInv, TypeOK, OptOutStands
<1>7. QED
  BY <1>1, <1>2, <1>3, <1>4, <1>5, <1>6 DEF IInv

\* A control request that puts the state it chose keeps the invariant.
LEMMA PutIInv ==
  ASSUME IInv, NEW t \in Threads, PutConsent(t)
  PROVE  IInv'
<1> DEFINE u == task[t].by
<1>1. /\ task[t] \in [pc : {"put"}, by : Subjects, action : ControlAction, next : ConsentState]
      /\ Busy(t)
  BY DEF IInv, TypeOK, PutConsent, Task, Idle, Busy
<1>2. /\ u \in Subjects /\ consent' = [consent EXCEPT ![u] = task[t].next]
      /\ task' = [task EXCEPT ![t] = Idle] /\ overlapped' = overlapped
      /\ task[t].next \in ConsentState \ {"unknown"}
      /\ u \notin overlapped => <<consent[u], task[t].action, task[t].next>> \in Transitions
  BY <1>1 DEF PutConsent, IInv, PutIsCurrent
<1>3. optedOut' \in {optedOut, optedOut \cup {u}, optedOut \ {u}}
  BY DEF PutConsent
<1>4. late' \in [Subjects -> Nat]
  BY <1>2 DEF PutConsent, IInv, TypeOK
<1>5. TypeOK'
  BY <1>2, <1>3, <1>4 DEF IInv, TypeOK
<1>6. OverlapIsKnown'
  BY <1>2 DEF IInv, TypeOK, OverlapIsKnown, Busy
<1>7. PutIsCurrent'
  <2> SUFFICES ASSUME NEW s \in Threads, task'[s].pc = "put"
               PROVE  /\ task'[s].next # "unknown"
                      /\ task'[s].by \notin overlapped' =>
                           <<consent'[task'[s].by], task'[s].action, task'[s].next>> \in Transitions
    BY DEF PutIsCurrent
  <2>1. s # t /\ task'[s] = task[s] /\ task[s].pc = "put"
    BY <1>2 DEF IInv, TypeOK, Idle
  <2>2. task[s] \in Task /\ Busy(s)
    BY <2>1 DEF IInv, TypeOK, Idle, Busy
  <2>3. task[s].by \notin overlapped => task[s].by # u
    BY <2>1, <2>2, <1>1 DEF IInv, OverlapIsKnown
  <2>4. task[s].by \in Subjects
    BY <2>2 DEF Task
  <2>5. \A v \in Subjects : v # u => consent'[v] = consent[v]
    <3>1. consent \in [Subjects -> ConsentState]
      BY DEF IInv, TypeOK
    <3>2. consent' = [consent EXCEPT ![u] = task[t].next]
      BY <1>2
    <3>3. QED
      BY <3>1, <3>2
  <2>6. /\ task[s].next # "unknown"
        /\ task[s].by \notin overlapped =>
             <<consent[task[s].by], task[s].action, task[s].next>> \in Transitions
    BY <2>1 DEF IInv, PutIsCurrent
  <2>7. task[s].by \notin overlapped => consent'[task[s].by] = consent[task[s].by]
    BY <2>3, <2>4, <2>5
  <2>8. overlapped' = overlapped
    BY <1>2
  <2>9. QED
    BY <2>1, <2>6, <2>7, <2>8
<1>8. UseIsAllowed'
  BY <1>1, <1>2 DEF IInv, TypeOK, UseIsAllowed, OverlapIsKnown, Busy, Idle, Task
<1>9. NobodyUsedUnasked'
  BY <1>1, <1>2 DEF IInv, TypeOK, NobodyUsedUnasked, Idle
<1>10. OptOutStands'
  <2>1. CASE u \in overlapped
    BY <2>1, <1>2, <1>3 DEF IInv, TypeOK, OptOutStands
  <2>2. CASE u \notin overlapped /\ task[t].action = "opt_out"
    BY <2>2, <1>2, <1>3, OptOutTransitions DEF IInv, TypeOK, OptOutStands
  <2>3. CASE u \notin overlapped /\ task[t].action = "opt_in"
    <3>1. optedOut' = optedOut \ {u}
      BY <2>3 DEF PutConsent
    <3>2. QED
      BY <3>1, <1>2 DEF IInv, TypeOK, OptOutStands
  <2>4. CASE u \notin overlapped /\ task[t].action \notin {"opt_in", "opt_out"}
    <3>1. optedOut' = optedOut
      BY <2>4 DEF PutConsent
    <3>2. u \notin optedOut
      BY <2>4, <1>2, OptOutTransitions DEF IInv, OptOutStands
    <3>3. QED
      BY <3>1, <3>2, <1>2 DEF IInv, TypeOK, OptOutStands
  <2>5. QED
    BY <2>1, <2>2, <2>3, <2>4
<1>11. QED
  BY <1>5, <1>6, <1>7, <1>8, <1>9, <1>10 DEF IInv

\* A request that uses a memory and ends keeps the invariant.
LEMMA UseIInv ==
  ASSUME IInv, NEW t \in Threads, Use(t)
  PROVE  IInv'
<1>1. /\ task' = [task EXCEPT ![t] = Idle]
      /\ UNCHANGED <<consent, optedOut, overlapped>>
  BY DEF Use
<1>2. TypeOK'
  <2>1. task[t] \in Task
    BY DEF IInv, TypeOK, Use, Idle
  <2>2. late' \in [Subjects -> Nat]
    BY <2>1 DEF IInv, TypeOK, Use, Task
  <2>3. QED
    BY <1>1, <2>2 DEF IInv, TypeOK
<1>3. /\ OverlapIsKnown' /\ PutIsCurrent' /\ UseIsAllowed'
      /\ NobodyUsedUnasked' /\ OptOutStands'
  BY <1>1 DEF IInv, TypeOK, OverlapIsKnown, PutIsCurrent, UseIsAllowed,
              NobodyUsedUnasked, OptOutStands, Busy, Idle
<1>4. QED
  BY <1>2, <1>3 DEF IInv

\* Every step keeps the invariant.
LEMMA NextIInv == IInv /\ [Next]_vars => IInv'
<1> SUFFICES ASSUME IInv, [Next]_vars PROVE IInv'
  OBVIOUS
<1>1. CASE UNCHANGED vars
  BY <1>1 DEF vars, IInv, TypeOK, OverlapIsKnown, PutIsCurrent, UseIsAllowed,
              NobodyUsedUnasked, OptOutStands, Busy
<1>2. ASSUME NEW t \in Threads, NEW u \in Subjects, NEW action \in ControlAction,
             Control(t, u, action)
      PROVE  IInv'
  <2>1. PICK next \in ConsentState :
          /\ <<consent[u], action, next>> \in Transitions
          /\ task' = [task EXCEPT ![t] =
               [pc |-> "put", by |-> u, action |-> action, next |-> next]]
    BY <1>2 DEF Control
  <2> DEFINE w == [pc |-> "put", by |-> u, action |-> action, next |-> next]
  <2>2. w \in Task
    BY DEF Task
  <2>3. QED
    BY <1>2, <2>1, <2>2, BeginIInv DEF Control
<1>3. ASSUME NEW t \in Threads, NEW u \in Subjects, NEW op \in GatedOperations,
             Ask(t, u, op)
      PROVE  IInv'
  <2> DEFINE w == [pc |-> "use", by |-> u, op |-> op]
  <2>1. w \in Task
    BY <1>3 DEF Task, Ask
  <2>2. QED
    BY <1>3, <2>1, BeginIInv DEF Ask
<1>4. ASSUME NEW t \in Threads, NEW u \in Subjects, SubmitEvent(t, u)
      PROVE  IInv'
  <2> DEFINE w == [pc |-> "use", by |-> u, op |-> "event"]
  <2>1. w \in Task
    BY <1>4 DEF Task, SubmitEvent
  <2>2. QED
    BY <1>4, <2>1, BeginIInv DEF SubmitEvent
<1>5. QED
  BY <1>1, <1>2, <1>3, <1>4, PutIInv, UseIInv DEF Next

\* The invariant holds in every reachable state.
LEMMA InvariantHolds == Spec => []IInv
  BY InitIInv, NextIInv, PTL DEF Spec

------------------------------------------------------------------------------
\* Every state the gate can be in is a state of its types.
THEOREM TypeCorrect == Spec => []TypeOK
<1>1. IInv => TypeOK
  BY DEF IInv
<1>2. QED
  BY <1>1, InvariantHolds, PTL

\* A gated request that is under way belongs to a user who gave consent once,
\* even when requests of the user overlap.
THEOREM NobodyIsUsedUnasked == Spec => []NobodyUsedUnasked
<1>1. IInv => NobodyUsedUnasked
  BY DEF IInv
<1>2. QED
  BY <1>1, InvariantHolds, PTL

\* An accepted opt-out stands until the next opt-in.
THEOREM OptOutIsKept == Spec => []OptOutStands
<1>1. IInv => OptOutStands
  BY DEF IInv
<1>2. QED
  BY <1>1, InvariantHolds, PTL

\* Consent moves along the table of _transition.
THEOREM ConsentIsTransitioned == Spec => ConsentFollowsTable
<1>1. IInv /\ [Next]_vars => [ConsentStep]_vars
  <2> SUFFICES ASSUME IInv, Next PROVE ConsentStep
    BY DEF vars
  <2>1. CASE consent' = consent
    BY <2>1 DEF ConsentStep
  <2>2. ASSUME NEW t \in Threads, PutConsent(t) PROVE ConsentStep
    <3>1. task[t].by \notin overlapped =>
            /\ <<consent[task[t].by], task[t].action, task[t].next>> \in Transitions
            /\ task[t].action \in ControlAction
      BY <2>2, TransitionTypes DEF PutConsent, IInv, PutIsCurrent
    <3>2. QED
      BY <2>2, <3>1 DEF PutConsent, ConsentStep, IInv, TypeOK
  <2>3. QED
    BY <2>1, <2>2 DEF Next, Control, Ask, SubmitEvent, Use
<1>2. QED
  BY <1>1, InvariantHolds, PTL DEF Spec, ConsentFollowsTable

\* A gated request whose user sends no other one uses memories only while the
\* consent is there.
THEOREM UseNeedsConsent == Spec => OnlyWithConsent
<1>1. IInv /\ [Next]_vars => [UseStep]_vars
  BY DEF IInv, UseIsAllowed, UseStep, Uses
<1>2. QED
  BY <1>1, InvariantHolds, PTL DEF Spec, OnlyWithConsent

------------------------------------------------------------------------------
(* The bound on late uses.  While consent is not given, the uses already      *)
(* completed and those still under way are together fewer than the threads:   *)
(* the thread that withdrew consent was not using memories.                   *)

\* The gated requests of u that are about to use memories.
Underway(u) ==
  {t \in Threads : task[t].pc = "use" /\ task[t].op \in GatedOperations /\ task[t].by = u}

LateInv ==
  \A u \in Subjects :
    /\ Allowed(consent[u]) => late[u] = 0
    /\ ~Allowed(consent[u]) =>
         late[u] + Cardinality(Underway(u)) <= Cardinality(Threads) - 1

\* Sets of threads are finite, and a thread left out makes them smaller.
LEMMA ThreadCount ==
  ASSUME NEW S \in SUBSET Threads
  PROVE  /\ IsFiniteSet(S) /\ Cardinality(S) \in Nat
         /\ Cardinality(Threads) \in Nat \ {0}
         /\ S # Threads => Cardinality(S) <= Cardinality(Threads) - 1
         /\ \A t \in S : Cardinality(S \ {t}) = Cardinality(S) - 1
<1>1. IsFiniteSet(Threads) /\ Threads # {}
  BY GateThreadsAssumption
<1>2. IsFiniteSet(S) /\ Cardinality(S) \in Nat /\ Cardinality(Threads) \in Nat
  BY <1>1, FS_Subset, FS_CardinalityType
<1>3. Cardinality(Threads) # 0
  BY <1>1, FS_EmptySet
<1>4. \A t \in S : Cardinality(S \ {t}) = Cardinality(S) - 1
  BY <1>2, FS_RemoveElement
<1>5. ASSUME S # Threads PROVE Cardinality(S) <= Cardinality(Threads) - 1
  <2>1. Cardinality(S) < Cardinality(Threads)
    BY <1>1, <1>5, FS_Subset, FS_CardinalityType
  <2>2. QED
    BY <2>1, <1>2
<1>6. QED
  BY <1>2, <1>3, <1>4, <1>5

\* At first nothing is late and no request is under way.
LEMMA InitLateInv == Init => LateInv
<1> SUFFICES ASSUME Init, NEW u \in Subjects
             PROVE  /\ Allowed(consent[u]) => late[u] = 0
                    /\ ~Allowed(consent[u]) =>
                         late[u] + Cardinality(Underway(u)) <= Cardinality(Threads) - 1
  BY DEF LateInv
<1>1. late[u] = 0 /\ Underway(u) = {}
  BY DEF Init, Underway, Idle
<1>2. Cardinality(Underway(u)) = 0 /\ Cardinality(Threads) \in Nat \ {0}
  BY <1>1, FS_EmptySet, ThreadCount
<1>3. QED
  BY <1>1, <1>2

\* A request that begins adds no gated use of a user without consent.
LEMMA BeginLateInv ==
  ASSUME TypeOK, LateInv, NEW t \in Threads, NEW u \in Subjects, NEW w,
         task[t] = Idle, w.by = u, task' = [task EXCEPT ![t] = w],
         w.pc = "use" /\ w.op \in GatedOperations => Allowed(consent[u]),
         UNCHANGED <<consent, late>>
  PROVE  LateInv'
<1> SUFFICES ASSUME NEW v \in Subjects, ~Allowed(consent[v])
             PROVE  Underway(v)' = Underway(v)
  BY DEF LateInv
<1>1. QED
  BY DEF Underway, TypeOK, Idle

\* Withdrawing consent starts the count at the uses under way, giving it resets it.
LEMMA PutLateInv ==
  ASSUME TypeOK, LateInv, NEW t \in Threads, PutConsent(t)
  PROVE  LateInv'
<1> DEFINE u == task[t].by
<1>1. /\ task[t].pc = "put" /\ u \in Subjects
      /\ consent' = [consent EXCEPT ![u] = task[t].next]
      /\ late' = IF task[t].next = "opted_in" THEN [late EXCEPT ![u] = 0] ELSE late
      /\ task' = [task EXCEPT ![t] = Idle]
  BY DEF PutConsent, TypeOK, Task, Idle
<1>2. ASSUME NEW v \in Subjects
      PROVE  /\ Underway(v)' = Underway(v)
             /\ Underway(v) \in SUBSET Threads /\ Underway(v) # Threads
  BY <1>1 DEF Underway, TypeOK, Idle
<1>3. ASSUME NEW v \in Subjects, v # u
      PROVE  consent'[v] = consent[v] /\ late'[v] = late[v]
  BY <1>1, <1>3 DEF TypeOK
<1>4. consent'[u] = task[t].next /\ late'[u] = IF task[t].next = "opted_in" THEN 0 ELSE late[u]
  BY <1>1 DEF TypeOK
<1>5. late[u] \in Nat
  BY <1>1 DEF TypeOK
<1>6. Allowed(consent'[u]) => late'[u] = 0
  BY <1>4 DEF Allowed
<1>7. ~Allowed(consent'[u]) =>
        late'[u] + Cardinality(Underway(u)) <= Cardinality(Threads) - 1
  <2> SUFFICES ASSUME ~Allowed(consent'[u])
               PROVE  late[u] + Cardinality(Underway(u)) <= Cardinality(Threads) - 1
    BY <1>4 DEF Allowed
  <2>1. CASE Allowed(consent[u])
    BY <2>1, <1>1, <1>2, ThreadCount DEF LateInv
  <2>2. CASE ~Allowed(consent[u])
    BY <2>2, <1>1 DEF LateInv
  <2>3. QED
    BY <2>1, <2>2
<1>8. QED
  BY <1>1, <1>2, <1>3, <1>6, <1>7 DEF LateInv

\* A late use adds one to the count and frees the thread it stood for.
LEMMA UseLateInv ==
  ASSUME TypeOK, LateInv, NEW t \in Threads, Use(t)
  PROVE  LateInv'
<1> DEFINE u == task[t].by
<1>1. /\ task[t].pc = "use" /\ u \in Subjects
      /\ task' = [task EXCEPT ![t] = Idle] /\ consent' = consent
      /\ late' = IF task[t].op \in GatedOperations /\ ~Allowed(consent[u])
                 THEN [late EXCEPT ![u] = @ + 1] ELSE late
  BY DEF Use, TypeOK, Task, Idle
<1>2. ASSUME NEW v \in Subjects
      PROVE  /\ Underway(v)' = Underway(v) \ {t}
             /\ t \in Underway(v) <=> task[t].op \in GatedOperations /\ v = u
             /\ Underway(v) \in SUBSET Threads
  BY <1>1 DEF Underway, TypeOK, Idle
<1>3. ASSUME NEW v \in Subjects
      PROVE  /\ Allowed(consent'[v]) => late'[v] = 0
             /\ ~Allowed(consent'[v]) =>
                  late'[v] + Cardinality(Underway(v)') <= Cardinality(Threads) - 1
  <2>1. late[v] \in Nat
    BY DEF TypeOK
  <2>2. CASE t \in Underway(v) /\ ~Allowed(consent[v])
    <3>1. late'[v] = late[v] + 1
      BY <2>2, <1>1, <1>2 DEF TypeOK
    <3>2. Cardinality(Underway(v)') = Cardinality(Underway(v)) - 1
      BY <2>2, <1>2, ThreadCount
    <3>3. Cardinality(Underway(v)) \in Nat /\ Cardinality(Threads) \in Nat
      BY <1>2, ThreadCount
    <3>4. QED
      BY <2>1, <2>2, <3>1, <3>2, <3>3, <1>1 DEF LateInv
  <2>3. CASE t \notin Underway(v) \/ Allowed(consent[v])
    <3>1. late'[v] = late[v]
      BY <2>3, <1>1, <1>2 DEF TypeOK
    <3>2. t \notin Underway(v) => Underway(v)' = Underway(v)
      BY <1>2
    <3>3. QED
      BY <2>3, <3>1, <3>2, <1>1 DEF LateInv
  <2>4. QED
    BY <2>2, <2>3
<1>4. QED
  BY <1>3 DEF LateInv

\* Every step keeps the count of late uses bounded.
LEMMA NextLateInv == TypeOK /\ LateInv /\ [Next]_vars => LateInv'
<1> SUFFICES ASSUME TypeOK, LateInv, [Next]_vars PROVE LateInv'
  OBVIOUS
<1>1. CASE UNCHANGED vars
  BY <1>1 DEF vars, LateInv, Underway
<1>2. ASSUME NEW t \in Threads, NEW u \in Subjects, NEW action \in ControlAction,
             Control(t, u, action)
      PROVE  LateInv'
  BY <1>2, BeginLateInv DEF Control
<1>3. ASSUME NEW t \in Threads, NEW u \in Subjects, NEW op \in GatedOperations,
             Ask(t, u, op)
      PROVE  LateInv'
  BY <1>3, BeginLateInv DEF Ask
<1>4. ASSUME NEW t \in Threads, NEW u \in Subjects, SubmitEvent(t, u)
      PROVE  LateInv'
  <2>1. "event" \notin GatedOperations
    BY DEF GatedOperations
  <2>2. QED
    BY <1>4, <2>1, BeginLateInv DEF SubmitEvent
<1>5. QED
  BY <1>1, <1>2, <1>3, <1>4, PutLateInv, UseLateInv DEF Next

\* After consent is withdrawn, at most one use per other thread is completed.
THEOREM LateUsesAreBounded == Spec => []LateUseIsBounded
<1>1. TypeOK /\ LateInv => LateUseIsBounded
  <2> SUFFICES ASSUME TypeOK, LateInv, NEW u \in Subjects
               PROVE  late[u] <= Cardinality(Threads) - 1
    BY DEF LateUseIsBounded
  <2>1. /\ late[u] \in Nat /\ Cardinality(Threads) \in Nat \ {0}
        /\ Cardinality(Underway(u)) \in Nat
    BY ThreadCount DEF TypeOK, Underway
  <2>2. QED
    BY <2>1 DEF LateInv
<1>2. QED
  BY <1>1, TypeCorrect, InitLateInv, NextLateInv, PTL DEF Spec
==============================================================================
