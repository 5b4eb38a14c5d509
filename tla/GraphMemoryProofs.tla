-------------------------- MODULE GraphMemoryProofs --------------------------
(* Proofs about GraphMemory, for any number of threads, memories and revisions: *)
(* a copy whose write ended undisturbed is whole, and copies go forward only.   *)
EXTENDS GraphMemory, TLAPS

------------------------------------------------------------------------------
\* The invariant.

\* What is stored was put at least once, and no copy is ahead of the store.
CopiesFollow ==
  \A m \in Memories :
    /\ life[m].status = "unborn" => life[m].revision = 0
    /\ Stored(m) => life[m].revision >= 1
    /\ node[m] <= life[m].revision
    /\ \A x \in Neighbours(m) : related[m][x] <= life[m].revision

\* Two writes of one memory are known to overlap.
OverlapIsKnown ==
  \A t, u \in Threads, m \in Memories :
    t # u /\ Writes(t, m) /\ Writes(u, m) => m \in disturbed

\* What is written was stored, and no newer than what is stored.
WriteIsOfStored ==
  \A t \in Threads :
    task[t] # Idle =>
      /\ Stored(task[t].memory)
      /\ task[t].revision >= 1
      /\ task[t].revision <= life[task[t].memory].revision

\* The nodes still to be put are not memories.
PlacesRemain ==
  \A t \in Threads : task[t].pc = "places" => task[t].todo \subseteq Places

\* How far a write has come: the parts of the copy that show its revision.
Reached(w, n, pl, rel) ==
  /\ n[w.memory] <= w.revision
  /\ \A x \in Neighbours(w.memory) : rel[w.memory][x] <= w.revision
  /\ w.pc \in {"places", "relations", "version"} => n[w.memory] = w.revision
  /\ w.pc = "places" => Around(w.memory) \ w.todo \subseteq pl
  /\ w.pc \in {"relations", "version"} => Around(w.memory) \subseteq pl
  /\ w.pc = "relations" =>
       \A x \in Neighbours(w.memory) \ w.todo :
         rel[w.memory][x] = w.revision /\ (x \in Memories => n[x] # 0)
  /\ w.pc = "version" =>
       \A x \in Neighbours(w.memory) :
         rel[w.memory][x] = w.revision /\ (x \in Memories => n[x] # 0)

WritesProceed ==
  \A t \in Threads :
    task[t] # Idle /\ task[t].memory \notin disturbed =>
      Reached(task[t], node, places, related)

IInv ==
  /\ TypeOK /\ CopiesFollow /\ OverlapIsKnown /\ WriteIsOfStored /\ PlacesRemain
  /\ WritesProceed /\ WholeWhenWritten

------------------------------------------------------------------------------
\* Facts about the constants and about one write.

LEMMA NeighboursAreKnown ==
  ASSUME NEW m \in Memories
  PROVE  /\ Around(m) \subseteq Places
         /\ Neighbours(m) \subseteq Places \cup Memories
         /\ Around(m) \subseteq Neighbours(m)
         /\ PredecessorOf[m] \subseteq Neighbours(m) \cap Memories
BY LineageAssumption, PlacesAssumption DEF Around, Neighbours, Places

\* A thread at some access of a write.
LEMMA AtWork ==
  ASSUME TypeOK, NEW t \in Threads, task[t] # Idle
  PROVE  /\ task[t] \in Write
         /\ task[t].memory \in Memories
         /\ task[t].revision \in Revisions
         /\ task[t].todo \subseteq Places \cup Memories
BY DEF TypeOK, Write

LEMMA NotIdle ==
  ASSUME NEW t \in Threads, task[t].pc # "idle"
  PROVE  task[t] # Idle
BY DEF Idle

------------------------------------------------------------------------------
\* The shapes of the steps.

\* The lifecycle store changes, and forgets or rewinds nothing.
StoreStep ==
  /\ life' \in [Memories -> [status : LifeStatus, revision : Revisions]]
  /\ \A m \in Memories :
       /\ life'[m].revision >= life[m].revision
       /\ life'[m].status = "unborn" => life'[m].revision = 0
       /\ Stored(m) => Stored(m)'
       /\ Stored(m)' => life'[m].revision >= 1
  /\ UNCHANGED <<node, places, related, task, settled, disturbed>>

\* A write goes on by one transaction.
WriteStep(t, pc, todo) ==
  /\ task[t] # Idle
  /\ task[t].pc \in {"require", "look", "create", "set", "node", "places", "relations"}
  /\ Goes(t, pc, todo)
  /\ pc \in {"look", "create", "set", "node", "places", "relations", "version"}
  /\ todo \subseteq Places \cup Memories
  /\ pc = "places" => todo \subseteq Places
  /\ node' \in {node, [node EXCEPT ![task[t].memory] = task[t].revision]}
  /\ places \subseteq places' /\ places' \subseteq Places
  /\ \/ related' = related
     \/ \E x \in Places \cup Memories :
          related' = [related EXCEPT ![task[t].memory][x] = task[t].revision]
  /\ UNCHANGED <<life, settled, disturbed>>

LEMMA CreateShape ==
  ASSUME IInv, NEW m \in Memories, Create(m)
  PROVE  StoreStep
<1>1. life' = [life EXCEPT ![m] = [status |-> "active", revision |-> 1]]
      /\ life[m].status = "unborn"
  BY DEF Create
<1>2. life \in [Memories -> [status : LifeStatus, revision : Revisions]]
  BY DEF IInv, TypeOK
<1>3. life[m].revision = 0 /\ ~Stored(m)
  BY <1>1 DEF IInv, CopiesFollow, Stored
<1>4. 1 \in Revisions /\ "active" \in LifeStatus
  BY BoundAssumption DEF Revisions, LifeStatus
<1>5. ASSUME NEW n \in Memories
      PROVE  /\ life'[n].revision >= life[n].revision
             /\ life'[n].status = "unborn" => life'[n].revision = 0
             /\ Stored(n) => Stored(n)'
             /\ Stored(n)' => life'[n].revision >= 1
  <2>1. CASE n = m
    BY <1>1, <1>2, <1>3, <1>4, <2>1
  <2>2. CASE n # m
    <3>1. life'[n] = life[n]
      BY <1>1, <1>2, <2>2
    <3>2. life[n].revision \in Int
      BY <1>2 DEF Revisions
    <3>. QED  BY <1>2, <3>1, <3>2 DEF IInv, CopiesFollow, Stored
  <2>. QED  BY <2>1, <2>2
<1>6. life' \in [Memories -> [status : LifeStatus, revision : Revisions]]
  BY <1>1, <1>2, <1>4
<1>. QED  BY <1>5, <1>6 DEF Create, StoreStep

LEMMA ReviseShape ==
  ASSUME IInv, NEW m \in Memories, NEW status \in {"active", "closed", "pending_deletion"},
         Revise(m, status)
  PROVE  StoreStep
<1>1. life' = [life EXCEPT ![m] = [status |-> status, revision |-> @.revision + 1]]
      /\ life[m].status \in {"active", "closed"} /\ life[m].revision < MaxRevision
  BY DEF Revise
<1>2. life \in [Memories -> [status : LifeStatus, revision : Revisions]]
  BY DEF IInv, TypeOK
<1>3. life[m].revision \in Nat /\ life[m].revision + 1 \in Revisions /\ status \in LifeStatus
  BY <1>1, <1>2, BoundAssumption DEF Revisions, LifeStatus
<1>4. ASSUME NEW n \in Memories
      PROVE  /\ life'[n].revision >= life[n].revision
             /\ life'[n].status = "unborn" => life'[n].revision = 0
             /\ Stored(n) => Stored(n)'
             /\ Stored(n)' => life'[n].revision >= 1
  <2>1. CASE n = m
    <3>1. life'[n] = [status |-> status, revision |-> life[m].revision + 1]
      BY <1>1, <1>2, <2>1
    <3>. QED  BY <1>3, <2>1, <3>1 DEF Stored
  <2>2. CASE n # m
    <3>1. life'[n] = life[n]
      BY <1>1, <1>2, <2>2
    <3>2. life[n].revision \in Int
      BY <1>2 DEF Revisions
    <3>. QED  BY <1>2, <3>1, <3>2 DEF IInv, CopiesFollow, Stored
  <2>. QED  BY <2>1, <2>2
<1>5. life' \in [Memories -> [status : LifeStatus, revision : Revisions]]
  <2>1. life' = [life EXCEPT ![m] = [status |-> status, revision |-> life[m].revision + 1]]
    BY <1>1
  <2>. QED  BY <1>2, <1>3, <2>1
<1>. QED  BY <1>4, <1>5 DEF Revise, StoreStep

\* Every access of a write that does not fail and is not the last is a WriteStep.
LEMMA StepShape ==
  ASSUME IInv, NEW t \in Threads,
         Require(t) \/ Look(t) \/ CreateNode(t) \/ SetNode(t) \/ PutNode(t)
           \/ PutPlace(t) \/ PutRelation(t)
  PROVE  \E pc, todo : WriteStep(t, pc, todo)
<1>0. task[t] # Idle
  BY NotIdle DEF Require, Look, CreateNode, SetNode, PutNode, PutPlace, PutRelation
<1>1. /\ task[t].memory \in Memories /\ task[t].todo \subseteq Places \cup Memories
      /\ places \subseteq Places
  BY <1>0, AtWork DEF IInv, TypeOK
<1>2. /\ Around(task[t].memory) \subseteq Places
      /\ Neighbours(task[t].memory) \subseteq Places \cup Memories
  BY <1>1, NeighboursAreKnown
<1>3. CASE Require(t)
  <2>1. WriteStep(t, "look", {})
    BY <1>0, <1>1, <1>3 DEF Require, WriteStep
  <2>. QED  BY <2>1
<1>4. CASE Look(t)
  <2>1. \/ WriteStep(t, "create", {}) \/ WriteStep(t, "node", {}) \/ WriteStep(t, "set", {})
    BY <1>0, <1>1, <1>4 DEF Look, WriteStep
  <2>. QED  BY <2>1
<1>5. CASE CreateNode(t)
  <2>1. WriteStep(t, "node", {})
    BY <1>0, <1>1, <1>5 DEF CreateNode, Shows, WriteStep
  <2>. QED  BY <2>1
<1>6. CASE SetNode(t)
  <2>1. WriteStep(t, "node", {})
    BY <1>0, <1>1, <1>6 DEF SetNode, Shows, WriteStep
  <2>. QED  BY <2>1
<1>7. CASE PutNode(t)
  <2>1. WriteStep(t, "places", Around(task[t].memory))
    BY <1>0, <1>1, <1>2, <1>7 DEF PutNode, Shows, WriteStep
  <2>. QED  BY <2>1
<1>8. CASE PutPlace(t)
  <2>1. PICK x \in task[t].todo :
          /\ places' = places \cup {x}
          /\ \/ Goes(t, "relations", Neighbours(task[t].memory))
             \/ Goes(t, "places", task[t].todo \ {x})
    BY <1>8 DEF PutPlace
  <2>2. task[t].todo \subseteq Places
    BY <1>8 DEF PutPlace, IInv, PlacesRemain
  <2>3. /\ places \subseteq places' /\ places' \subseteq Places
        /\ task[t].pc = "places"
        /\ UNCHANGED <<life, node, related, settled, disturbed>>
    BY <1>1, <1>8, <2>1, <2>2 DEF PutPlace
  <2>4. CASE Goes(t, "relations", Neighbours(task[t].memory))
    <3>1. WriteStep(t, "relations", Neighbours(task[t].memory))
      BY <1>0, <1>2, <2>3, <2>4 DEF WriteStep
    <3>. QED  BY <3>1
  <2>5. CASE Goes(t, "places", task[t].todo \ {x})
    <3>1. WriteStep(t, "places", task[t].todo \ {x})
      BY <1>0, <1>1, <2>2, <2>3, <2>5 DEF WriteStep
    <3>. QED  BY <3>1
  <2>. QED  BY <2>1, <2>4, <2>5
<1>9. CASE PutRelation(t)
  <2>1. PICK x \in NextRelations(t) :
          /\ related' = [related EXCEPT ![task[t].memory][x] = task[t].revision]
          /\ Goes(t, "version", {}) \/ Goes(t, "relations", task[t].todo \ {x})
    BY <1>9 DEF PutRelation
  <2>2. x \in Places \cup Memories
    BY <1>1, <2>1 DEF NextRelations
  <2>3. /\ task[t].pc = "relations"
        /\ UNCHANGED <<life, node, places, settled, disturbed>>
    BY <1>9 DEF PutRelation
  <2>4. CASE Goes(t, "version", {})
    <3>1. WriteStep(t, "version", {})
      BY <1>0, <1>1, <2>1, <2>2, <2>3, <2>4 DEF WriteStep
    <3>. QED  BY <3>1
  <2>5. CASE Goes(t, "relations", task[t].todo \ {x})
    <3>1. WriteStep(t, "relations", task[t].todo \ {x})
      BY <1>0, <1>1, <2>1, <2>2, <2>3, <2>5 DEF WriteStep
    <3>. QED  BY <3>1
  <2>. QED  BY <2>1, <2>4, <2>5
<1>. QED  BY <1>3, <1>4, <1>5, <1>6, <1>7, <1>8, <1>9

------------------------------------------------------------------------------
\* Each shape preserves the invariant.

LEMMA StoreStepKeeps ==
  ASSUME IInv, StoreStep
  PROVE  IInv'
<1>1. TypeOK'
  BY DEF StoreStep, IInv, TypeOK
<1>2. CopiesFollow'
  <2>1. \A m \in Memories :
          /\ life[m].revision \in Int /\ life'[m].revision \in Int /\ node[m] \in Int
          /\ \A x \in Neighbours(m) : related[m][x] \in Int
    BY DEF StoreStep, IInv, TypeOK, Revisions
  <2>. QED  BY <2>1 DEF StoreStep, IInv, CopiesFollow
<1>3. OverlapIsKnown'
  BY DEF StoreStep, IInv, OverlapIsKnown, Writes
<1>4. WriteIsOfStored'
  <2>1. ASSUME NEW t \in Threads, task'[t] # Idle
        PROVE  (/\ Stored(task[t].memory)
                /\ task[t].revision >= 1
                /\ task[t].revision <= life[task[t].memory].revision)'
    <3>1. task'[t] = task[t] /\ task[t] # Idle
      BY <2>1 DEF StoreStep
    <3>2. task[t].memory \in Memories /\ task[t].revision \in Int
      BY <3>1, AtWork DEF IInv, Revisions
    <3>3. life[task[t].memory].revision \in Int /\ life'[task[t].memory].revision \in Int
      BY <3>2 DEF StoreStep, IInv, TypeOK, Revisions
    <3>. QED  BY <3>1, <3>2, <3>3 DEF StoreStep, IInv, WriteIsOfStored, Stored
  <2>. QED  BY <2>1 DEF WriteIsOfStored
<1>5. PlacesRemain' /\ WritesProceed' /\ WholeWhenWritten'
  BY DEF StoreStep, IInv, PlacesRemain, WritesProceed, WholeWhenWritten, Whole, Written, Writes
<1>. QED  BY <1>1, <1>2, <1>3, <1>4, <1>5 DEF IInv

LEMMA LoadKeeps ==
  ASSUME IInv, NEW t \in Threads, NEW m \in Memories, NEW pc \in {"look", "require"},
         Load(t, m, pc)
  PROVE  IInv'
<1>1. /\ task[t] = Idle /\ Stored(m)
      /\ task' = [task EXCEPT ![t] = [pc |-> pc, memory |-> m,
                                      revision |-> life[m].revision, todo |-> {}]]
      /\ disturbed' = IF m \in Written THEN disturbed \cup {m} ELSE disturbed \ {m}
      /\ UNCHANGED <<life, node, places, related, settled>>
  BY DEF Load, Starts
<1>2. life[m].revision \in Revisions /\ life[m].revision >= 1
  BY <1>1 DEF IInv, TypeOK, CopiesFollow
<1> DEFINE w == [pc |-> pc, memory |-> m, revision |-> life[m].revision, todo |-> {}]
<1>3. /\ w \in Write /\ w # Idle /\ w.pc = pc /\ w.memory = m
      /\ w.revision = life[m].revision /\ w.todo = {}
  BY <1>2 DEF Write, Idle
<1>4. DOMAIN task' = Threads /\ \A u \in Threads : task'[u] = IF u = t THEN w ELSE task[u]
  BY <1>1 DEF IInv, TypeOK
<1>. HIDE DEF w
<1>5. TypeOK'
  BY <1>1, <1>3, <1>4 DEF IInv, TypeOK
<1>6. CopiesFollow'
  BY <1>1 DEF IInv, CopiesFollow, Stored
<1>7. OverlapIsKnown'
  <2>1. ASSUME NEW u \in Threads, NEW v \in Threads, NEW n \in Memories,
               u # v, Writes(u, n)', Writes(v, n)'
        PROVE  n \in disturbed'
    <3>1. CASE u # t /\ v # t
      <4>1. n \in disturbed
        BY <2>1, <3>1, <1>4 DEF IInv, OverlapIsKnown, Writes
      <4>2. n \in Written
        BY <2>1, <3>1, <1>4 DEF Written, Writes
      <4>. QED  BY <1>1, <4>1, <4>2
    <3>2. CASE u = t \/ v = t
      <4>1. n = m /\ m \in Written
        BY <1>3, <1>4, <2>1, <3>2 DEF Written, Writes
      <4>. QED  BY <1>1, <4>1
    <3>. QED  BY <3>1, <3>2
  <2>. QED  BY <2>1 DEF OverlapIsKnown
<1>8. WriteIsOfStored'
  <2>1. ASSUME NEW u \in Threads, task'[u] # Idle
        PROVE  (/\ Stored(task[u].memory)
                /\ task[u].revision >= 1
                /\ task[u].revision <= life[task[u].memory].revision)'
    <3>1. CASE u = t
      <4>1. life[m].revision \in Int
        BY <1>2 DEF Revisions
      <4>. QED  BY <1>1, <1>2, <1>3, <1>4, <3>1, <4>1 DEF Stored
    <3>2. CASE u # t
      BY <1>1, <1>4, <2>1, <3>2 DEF IInv, WriteIsOfStored, Stored
    <3>. QED  BY <3>1, <3>2
  <2>. QED  BY <2>1 DEF WriteIsOfStored
<1>9. PlacesRemain'
  BY <1>3, <1>4 DEF IInv, PlacesRemain
<1>10. WritesProceed'
  <2>1. ASSUME NEW u \in Threads, task'[u] # Idle, task'[u].memory \notin disturbed'
        PROVE  Reached(task'[u], node', places', related')
    <3>1. CASE u = t
      BY <1>1, <1>3, <1>4, <3>1 DEF Reached, IInv, CopiesFollow
    <3>2. CASE u # t
      <4>1. task'[u] = task[u] /\ task[u] # Idle /\ task[u].memory \in Memories
        BY <1>4, <2>1, <3>2, AtWork DEF IInv
      <4>2. task[u].memory \in Written
        BY <4>1 DEF Written, Writes
      <4>3. task[u].memory \notin disturbed
        BY <1>1, <2>1, <4>1, <4>2
      <4>. QED  BY <1>1, <4>1, <4>3 DEF IInv, WritesProceed
    <3>. QED  BY <3>1, <3>2
  <2>. QED  BY <2>1 DEF WritesProceed
<1>11. WholeWhenWritten'
  <2>1. Written' = Written \cup {m}
    BY <1>1, <1>3, <1>4 DEF Written, Writes
  <2>2. \A n \in Memories : n \notin disturbed' \cup Written' => n \notin disturbed \cup Written
    BY <1>1, <2>1
  <2>. QED  BY <1>1, <2>2 DEF IInv, WholeWhenWritten, Whole
<1>. QED  BY <1>5, <1>6, <1>7, <1>8, <1>9, <1>10, <1>11 DEF IInv

\* The threads that write after a thread has become idle.
LEMMA IdleWrites ==
  ASSUME TypeOK, NEW t \in Threads, task' = [task EXCEPT ![t] = Idle]
  PROVE  /\ DOMAIN task' = Threads
         /\ task'[t] = Idle /\ \A u \in Threads \ {t} : task'[u] = task[u]
         /\ \A u \in Threads, m \in Memories : Writes(u, m)' => Writes(u, m) /\ u # t
BY DEF TypeOK, Writes

LEMMA FailsKeeps ==
  ASSUME IInv, NEW t \in Threads, task[t] # Idle, Fails(t)
  PROVE  IInv'
<1>1. /\ task' = [task EXCEPT ![t] = Idle]
      /\ disturbed' = disturbed \cup {task[t].memory}
      /\ UNCHANGED <<life, node, places, related, settled>>
  BY DEF Fails
<1>2. /\ DOMAIN task' = Threads
      /\ task'[t] = Idle /\ \A u \in Threads \ {t} : task'[u] = task[u]
      /\ \A u \in Threads, m \in Memories : Writes(u, m)' => Writes(u, m) /\ u # t
  BY <1>1, IdleWrites DEF IInv
<1>3. task[t].memory \in Memories
  BY AtWork DEF IInv
<1>4. TypeOK'
  BY <1>1, <1>2, <1>3 DEF IInv, TypeOK
<1>5. CopiesFollow'
  BY <1>1 DEF IInv, CopiesFollow, Stored
<1>6. OverlapIsKnown'
  BY <1>1, <1>2 DEF IInv, OverlapIsKnown
<1>7. WriteIsOfStored'
  BY <1>1, <1>2 DEF IInv, WriteIsOfStored, Stored
<1>8. PlacesRemain'
  BY <1>1, <1>2 DEF IInv, PlacesRemain, Idle
<1>9. WritesProceed'
  BY <1>1, <1>2 DEF IInv, WritesProceed
<1>10. WholeWhenWritten'
  <2>1. \A m \in Memories : m \in Written => m \in Written' \cup disturbed'
    BY <1>1, <1>2 DEF Written, Writes
  <2>. QED  BY <1>1, <2>1 DEF IInv, WholeWhenWritten, Whole
<1>. QED  BY <1>4, <1>5, <1>6, <1>7, <1>8, <1>9, <1>10 DEF IInv

LEMMA RestartKeeps ==
  ASSUME IInv, Restart
  PROVE  IInv'
<1>1. /\ life' = [m \in Memories |-> IF Stored(m) THEN [life[m] EXCEPT !.status = "lost"]
                                              ELSE life[m]]
      /\ task' = [t \in Threads |-> Idle]
      /\ disturbed' = disturbed \cup Written
      /\ UNCHANGED <<node, places, related, settled>>
  BY DEF Restart
<1>2. \A m \in Memories : life[m] \in [status : LifeStatus, revision : Revisions]
  BY DEF IInv, TypeOK
<1>3. ASSUME NEW m \in Memories
      PROVE  /\ life'[m] \in [status : LifeStatus, revision : Revisions]
             /\ life'[m].revision = life[m].revision
             /\ ~Stored(m)'
             /\ life'[m].status = "unborn" => life[m].status = "unborn"
  <2>1. CASE Stored(m)
    <3>1. life'[m] = [life[m] EXCEPT !.status = "lost"]
      BY <1>1, <2>1
    <3>. QED  BY <1>2, <3>1 DEF Stored, LifeStatus
  <2>2. CASE ~Stored(m)
    <3>1. life'[m] = life[m]
      BY <1>1, <2>2
    <3>. QED  BY <1>2, <2>2, <3>1 DEF Stored
  <2>. QED  BY <2>1, <2>2
<1>4. TypeOK'
  BY <1>1, <1>3 DEF IInv, TypeOK, Written
<1>5. CopiesFollow'
  BY <1>1, <1>3 DEF IInv, CopiesFollow
<1>6. OverlapIsKnown' /\ WriteIsOfStored' /\ PlacesRemain' /\ WritesProceed'
  BY <1>1 DEF OverlapIsKnown, Writes, WriteIsOfStored, PlacesRemain, WritesProceed, Idle
<1>7. WholeWhenWritten'
  BY <1>1 DEF IInv, WholeWhenWritten, Whole
<1>. QED  BY <1>4, <1>5, <1>6, <1>7 DEF IInv

\* What a WriteStep does to the task and to the copies.
LEMMA WriteStepFacts ==
  ASSUME IInv, NEW t \in Threads, NEW pc, NEW todo, WriteStep(t, pc, todo)
  PROVE  /\ DOMAIN task' = Threads
         /\ task'[t] \in Write
         /\ task'[t].pc = pc /\ task'[t].todo = todo
         /\ task'[t].memory = task[t].memory /\ task'[t].revision = task[t].revision
         /\ \A u \in Threads \ {t} : task'[u] = task[u]
         /\ \A u \in Threads, m \in Memories : Writes(u, m)' <=> Writes(u, m)
         /\ \A m \in Memories \ {task[t].memory} : node'[m] = node[m] /\ related'[m] = related[m]
         /\ node'[task[t].memory] \in {node[task[t].memory], task[t].revision}
         /\ \A x \in Neighbours(task[t].memory) :
              related'[task[t].memory][x] \in {related[task[t].memory][x], task[t].revision}
         /\ node' \in [Memories -> Revisions]
         /\ DOMAIN related' = Memories
         /\ \A m \in Memories : related'[m] \in [Neighbours(m) -> Revisions]
<1>1. /\ task[t] # Idle /\ task[t] \in Write /\ task[t].memory \in Memories
      /\ task[t].revision \in Revisions
  BY AtWork DEF WriteStep, IInv
<1>2. /\ node \in [Memories -> Revisions] /\ DOMAIN related = Memories
      /\ \A m \in Memories : related[m] \in [Neighbours(m) -> Revisions]
      /\ DOMAIN task = Threads
  BY DEF IInv, TypeOK
<1> DEFINE w == [task[t] EXCEPT !.pc = pc, !.todo = todo]
<1>3. task' = [task EXCEPT ![t].pc = pc, ![t].todo = todo]
  BY DEF WriteStep, Goes
<1>4. /\ w \in Write /\ w.pc = pc /\ w.todo = todo
      /\ w.memory = task[t].memory /\ w.revision = task[t].revision
  BY <1>1 DEF Write, WriteStep
<1>5. DOMAIN task' = Threads /\ task'[t] = w /\ \A u \in Threads \ {t} : task'[u] = task[u]
  BY <1>2, <1>3
<1>. HIDE DEF w
<1>6. w # Idle
  <2>1. w.pc # "idle"
    BY <1>4 DEF WriteStep
  <2>. QED  BY <2>1 DEF Idle
<1>7. \A u \in Threads, m \in Memories : Writes(u, m)' <=> Writes(u, m)
  BY <1>1, <1>4, <1>5, <1>6 DEF Writes
<1>8. /\ node' \in [Memories -> Revisions]
      /\ node'[task[t].memory] \in {node[task[t].memory], task[t].revision}
      /\ \A m \in Memories \ {task[t].memory} : node'[m] = node[m]
  BY <1>1, <1>2 DEF WriteStep
<1>9. /\ DOMAIN related' = Memories
      /\ \A m \in Memories : related'[m] \in [Neighbours(m) -> Revisions]
      /\ \A m \in Memories \ {task[t].memory} : related'[m] = related[m]
      /\ \A x \in Neighbours(task[t].memory) :
           related'[task[t].memory][x] \in {related[task[t].memory][x], task[t].revision}
  <2>1. CASE related' = related
    BY <1>2, <2>1
  <2>2. CASE \E x \in Places \cup Memories :
               related' = [related EXCEPT ![task[t].memory][x] = task[t].revision]
    <3>1. PICK x : related' = [related EXCEPT ![task[t].memory][x] = task[t].revision]
      BY <2>2
    <3>2. /\ DOMAIN related' = Memories
          /\ \A m \in Memories \ {task[t].memory} : related'[m] = related[m]
          /\ related'[task[t].memory] = [related[task[t].memory] EXCEPT ![x] = task[t].revision]
      BY <1>1, <1>2, <3>1
    <3>3. /\ related[task[t].memory] \in [Neighbours(task[t].memory) -> Revisions]
      BY <1>1, <1>2
    <3>4. /\ related'[task[t].memory] \in [Neighbours(task[t].memory) -> Revisions]
          /\ \A y \in Neighbours(task[t].memory) :
               related'[task[t].memory][y] \in {related[task[t].memory][y], task[t].revision}
      BY <1>1, <3>2, <3>3
    <3>. QED  BY <1>2, <3>2, <3>4
  <2>. QED  BY <2>1, <2>2 DEF WriteStep
<1>. QED  BY <1>4, <1>5, <1>7, <1>8, <1>9

\* A copy that another write is at is left as it is, and no node goes away.
LEMMA OthersAreLeft ==
  ASSUME IInv, NEW t \in Threads, NEW pc, NEW todo, WriteStep(t, pc, todo)
  PROVE  /\ \A m \in Memories : node[m] # 0 => node'[m] # 0
         /\ places \subseteq places'
         /\ \A u \in Threads \ {t}, m \in Memories \ disturbed :
              Writes(u, m) => m # task[t].memory
         /\ task[t].memory \in Written
<1>1. /\ task[t] # Idle /\ task[t].memory \in Memories /\ task[t].revision >= 1
      /\ task[t].revision \in Int
  BY AtWork DEF WriteStep, IInv, WriteIsOfStored, Revisions
<1>2. \A m \in Memories : node[m] # 0 => node'[m] # 0
  <2>1. \A m \in Memories : node'[m] = node[m] \/ node'[m] = task[t].revision
    BY <1>1, WriteStepFacts
  <2>. QED  BY <1>1, <2>1
<1>3. Writes(t, task[t].memory)
  BY <1>1 DEF Writes
<1>. QED  BY <1>1, <1>2, <1>3 DEF WriteStep, IInv, OverlapIsKnown, Written

LEMMA WriteStepKeeps ==
  ASSUME IInv, NEW t \in Threads, NEW pc, NEW todo, WriteStep(t, pc, todo),
         task[t].memory \notin disturbed => Reached(task'[t], node', places', related')
  PROVE  IInv'
<1>1. /\ task[t] # Idle /\ task[t].memory \in Memories
      /\ task[t].revision >= 1 /\ task[t].revision \in Revisions
      /\ task[t].revision <= life[task[t].memory].revision
  BY AtWork DEF WriteStep, IInv, WriteIsOfStored
<1>2. /\ UNCHANGED <<life, settled, disturbed>>
      /\ places \subseteq places' /\ places' \subseteq Places
      /\ pc = "places" => todo \subseteq Places
  BY DEF WriteStep
<1>3. TypeOK'
  <2>1. \A u \in Threads : task'[u] = Idle \/ task'[u] \in Write
    BY WriteStepFacts DEF IInv, TypeOK
  <2>. QED  BY <1>2, <2>1, WriteStepFacts DEF IInv, TypeOK
<1>4. CopiesFollow'
  <2>1. \A m \in Memories :
          /\ node'[m] <= life[m].revision
          /\ \A x \in Neighbours(m) : related'[m][x] <= life[m].revision
    BY <1>1, WriteStepFacts DEF IInv, CopiesFollow
  <2>. QED  BY <1>2, <2>1 DEF IInv, CopiesFollow, Stored
<1>5. OverlapIsKnown'
  BY <1>2, WriteStepFacts DEF IInv, OverlapIsKnown
<1>6. WriteIsOfStored'
  <2>1. ASSUME NEW u \in Threads, task'[u] # Idle
        PROVE  (/\ Stored(task[u].memory)
                /\ task[u].revision >= 1
                /\ task[u].revision <= life[task[u].memory].revision)'
    <3>1. task[u] # Idle /\ task'[u].memory = task[u].memory /\ task'[u].revision = task[u].revision
      BY <1>1, <2>1, WriteStepFacts
    <3>. QED  BY <1>2, <3>1 DEF IInv, WriteIsOfStored, Stored
  <2>. QED  BY <2>1 DEF WriteIsOfStored
<1>7. PlacesRemain'
  <2>1. ASSUME NEW u \in Threads, task'[u].pc = "places"
        PROVE  task'[u].todo \subseteq Places
    BY <1>2, <2>1, WriteStepFacts DEF IInv, PlacesRemain
  <2>. QED  BY <2>1 DEF PlacesRemain
<1>8. WritesProceed'
  <2>1. ASSUME NEW u \in Threads, task'[u] # Idle, task'[u].memory \notin disturbed'
        PROVE  Reached(task'[u], node', places', related')
    <3>1. CASE u = t
      BY <1>2, <2>1, <3>1, WriteStepFacts
    <3>2. CASE u # t
      <4>1. task'[u] = task[u] /\ task[u] # Idle /\ task[u].memory \in Memories \ disturbed
        BY <1>2, <2>1, <3>2, WriteStepFacts, AtWork DEF IInv
      <4>2. Writes(u, task[u].memory)
        BY <4>1 DEF Writes
      <4>3. task[u].memory # task[t].memory
        BY <3>2, <4>1, <4>2, OthersAreLeft
      <4>4. /\ node'[task[u].memory] = node[task[u].memory]
            /\ related'[task[u].memory] = related[task[u].memory]
        BY <4>1, <4>3, WriteStepFacts
      <4>5. Reached(task[u], node, places, related)
        BY <4>1 DEF IInv, WritesProceed
      <4>6. \A x \in Memories : node[x] # 0 => node'[x] # 0
        BY OthersAreLeft
      <4>. QED  BY <1>2, <4>1, <4>4, <4>5, <4>6 DEF Reached
    <3>. QED  BY <3>1, <3>2
  <2>. QED  BY <2>1 DEF WritesProceed
<1>9. WholeWhenWritten'
  <2>1. ASSUME NEW m \in Memories \ (disturbed' \cup Written'), settled'[m] # 0
        PROVE  Whole(m, settled[m])'
    <3>1. m \notin disturbed \cup Written /\ settled'[m] = settled[m]
      BY <1>2, WriteStepFacts DEF Written
    <3>2. node'[m] = node[m] /\ related'[m] = related[m]
      BY <3>1, OthersAreLeft, WriteStepFacts
    <3>3. Whole(m, settled[m])
      BY <2>1, <3>1 DEF IInv, WholeWhenWritten
    <3>4. \A p \in PredecessorOf[m] : p \in Memories
      BY LineageAssumption
    <3>5. \A x \in Memories : node[x] # 0 => node'[x] # 0
      BY OthersAreLeft
    <3>. QED  BY <1>2, <3>1, <3>2, <3>3, <3>4, <3>5 DEF Whole
  <2>. QED  BY <2>1 DEF WholeWhenWritten
<1>. QED  BY <1>3, <1>4, <1>5, <1>6, <1>7, <1>8, <1>9 DEF IInv

\* Where a task is after Goes.
LEMMA GoesTo ==
  ASSUME IInv, NEW t \in Threads, task[t] # Idle, NEW pc, NEW todo, Goes(t, pc, todo)
  PROVE  /\ task'[t].pc = pc /\ task'[t].todo = todo
         /\ task'[t].memory = task[t].memory /\ task'[t].revision = task[t].revision
<1>1. task[t] \in Write
  BY AtWork DEF IInv
<1>2. task'[t] = [task[t] EXCEPT !.pc = pc, !.todo = todo]
  BY DEF Goes, IInv, TypeOK
<1>. QED  BY <1>1, <1>2 DEF Write

LEMMA StepReaches ==
  ASSUME IInv, NEW t \in Threads, task[t].memory \notin disturbed,
         Require(t) \/ Look(t) \/ CreateNode(t) \/ SetNode(t) \/ PutNode(t)
           \/ PutPlace(t) \/ PutRelation(t)
  PROVE  Reached(task'[t], node', places', related')
<1> DEFINE m == task[t].memory
           r == task[t].revision
<1>1. task[t] # Idle /\ m \in Memories /\ r \in Int
  <2>1. task[t] # Idle
    BY NotIdle DEF Require, Look, CreateNode, SetNode, PutNode, PutPlace, PutRelation
  <2>. QED  BY <2>1, AtWork DEF IInv, Revisions
<1>2. Reached(task[t], node, places, related)
  BY <1>1 DEF IInv, WritesProceed
<1>3. node'[m] <= r /\ \A x \in Neighbours(m) : related'[m][x] <= r
  <2>1. PICK pc, todo : WriteStep(t, pc, todo)
    BY StepShape
  <2>2. /\ node'[m] \in {node[m], r}
        /\ \A x \in Neighbours(m) : related'[m][x] \in {related[m][x], r}
    BY <2>1, WriteStepFacts
  <2>3. node[m] <= r /\ \A x \in Neighbours(m) : related[m][x] <= r
    BY <1>2 DEF Reached
  <2>. QED  BY <1>1, <2>2, <2>3
<1>4. node \in [Memories -> Revisions] /\ DOMAIN related = Memories
      /\ related[m] \in [Neighbours(m) -> Revisions]
  BY <1>1 DEF IInv, TypeOK
<1>5. /\ task[t].pc \in {"places", "relations"} => node[m] = r
      /\ task[t].pc = "places" => Around(m) \ task[t].todo \subseteq places
      /\ task[t].pc = "relations" =>
           /\ Around(m) \subseteq places
           /\ \A x \in Neighbours(m) \ task[t].todo :
                related[m][x] = r /\ (x \in Memories => node[x] # 0)
  BY <1>2 DEF Reached
<1>6. CASE Require(t) \/ Look(t) \/ CreateNode(t) \/ SetNode(t)
  <2>1. \E pc \in {"look", "create", "node", "set"} : Goes(t, pc, {})
    BY <1>6 DEF Require, Look, CreateNode, SetNode
  <2>2. task'[t].pc \in {"look", "create", "node", "set"}
        /\ task'[t].memory = m /\ task'[t].revision = r
    BY <1>1, <2>1, GoesTo
  <2>. QED  BY <1>3, <2>2 DEF Reached
<1>7. CASE PutNode(t)
  <2>1. /\ node' = [node EXCEPT ![m] = r]
        /\ Goes(t, "places", Around(m))
    BY <1>7 DEF PutNode, Shows
  <2>2. /\ task'[t].pc = "places" /\ task'[t].todo = Around(m)
        /\ task'[t].memory = m /\ task'[t].revision = r
    BY <1>1, <2>1, GoesTo
  <2>3. node'[m] = r
    BY <1>1, <1>4, <2>1
  <2>. QED  BY <1>3, <2>2, <2>3 DEF Reached
<1>8. CASE PutPlace(t)
  <2>1. PICK x \in task[t].todo :
          /\ places' = places \cup {x}
          /\ \/ task[t].todo = {x} /\ Goes(t, "relations", Neighbours(m))
             \/ Goes(t, "places", task[t].todo \ {x})
    BY <1>8 DEF PutPlace
  <2>2. node' = node /\ related' = related /\ task[t].pc = "places"
    BY <1>8 DEF PutPlace
  <2>3. CASE task[t].todo = {x} /\ Goes(t, "relations", Neighbours(m))
    <3>1. /\ task'[t].pc = "relations" /\ task'[t].todo = Neighbours(m)
          /\ task'[t].memory = m /\ task'[t].revision = r
      BY <1>1, <2>3, GoesTo
    <3>2. Around(m) \subseteq places'
      BY <1>5, <2>1, <2>2, <2>3
    <3>. QED  BY <1>3, <1>5, <2>2, <3>1, <3>2 DEF Reached
  <2>4. CASE Goes(t, "places", task[t].todo \ {x})
    <3>1. /\ task'[t].pc = "places" /\ task'[t].todo = task[t].todo \ {x}
          /\ task'[t].memory = m /\ task'[t].revision = r
      BY <1>1, <2>4, GoesTo
    <3>2. Around(m) \ task'[t].todo \subseteq places'
      BY <1>5, <2>1, <2>2, <3>1
    <3>. QED  BY <1>3, <1>5, <2>2, <3>1, <3>2 DEF Reached
  <2>. QED  BY <2>1, <2>3, <2>4
<1>9. CASE PutRelation(t)
  <2>1. PICK x \in NextRelations(t) :
          /\ HasNode(x)
          /\ related' = [related EXCEPT ![m][x] = r]
          /\ \/ task[t].todo = {x} /\ Goes(t, "version", {})
             \/ Goes(t, "relations", task[t].todo \ {x})
    BY <1>9 DEF PutRelation
  <2>2. node' = node /\ places' = places /\ task[t].pc = "relations"
    BY <1>9 DEF PutRelation
  <2>3. related'[m] = [related[m] EXCEPT ![x] = r]
    BY <1>1, <1>4, <2>1
  <2>4. ASSUME NEW y \in Neighbours(m), y = x \/ y \notin task[t].todo
        PROVE  related'[m][y] = r /\ (y \in Memories => node'[y] # 0)
    BY <1>4, <1>5, <2>1, <2>2, <2>3, <2>4 DEF HasNode
  <2>5. CASE task[t].todo = {x} /\ Goes(t, "version", {})
    <3>1. task'[t].pc = "version" /\ task'[t].memory = m /\ task'[t].revision = r
      BY <1>1, <2>5, GoesTo
    <3>2. \A y \in Neighbours(m) : related'[m][y] = r /\ (y \in Memories => node'[y] # 0)
      BY <2>4, <2>5
    <3>. QED  BY <1>3, <1>5, <2>2, <3>1, <3>2 DEF Reached
  <2>6. CASE Goes(t, "relations", task[t].todo \ {x})
    <3>1. /\ task'[t].pc = "relations" /\ task'[t].todo = task[t].todo \ {x}
          /\ task'[t].memory = m /\ task'[t].revision = r
      BY <1>1, <2>6, GoesTo
    <3>2. \A y \in Neighbours(m) \ task'[t].todo :
            related'[m][y] = r /\ (y \in Memories => node'[y] # 0)
      BY <2>4, <3>1
    <3>. QED  BY <1>3, <1>5, <2>2, <3>1, <3>2 DEF Reached
  <2>. QED  BY <2>1, <2>5, <2>6
<1>. QED  BY <1>6, <1>7, <1>8, <1>9

LEMMA ReturnKeeps ==
  ASSUME IInv, NEW t \in Threads, Return(t)
  PROVE  IInv'
<1> DEFINE m == task[t].memory
           r == task[t].revision
<1>1. /\ task[t].pc = "version"
      /\ task' = [task EXCEPT ![t] = Idle]
      /\ settled' = [settled EXCEPT ![m] = r]
      /\ UNCHANGED <<life, node, places, related, disturbed>>
  BY DEF Return
<1>2. task[t] # Idle /\ m \in Memories /\ r \in Revisions
  <2>1. task[t] # Idle
    BY <1>1, NotIdle
  <2>. QED  BY <2>1, AtWork DEF IInv
<1>3. /\ DOMAIN task' = Threads
      /\ task'[t] = Idle /\ \A u \in Threads \ {t} : task'[u] = task[u]
      /\ \A u \in Threads, n \in Memories : Writes(u, n)' => Writes(u, n) /\ u # t
  BY <1>1, IdleWrites DEF IInv
<1>4. TypeOK'
  BY <1>1, <1>2, <1>3 DEF IInv, TypeOK
<1>5. CopiesFollow' /\ OverlapIsKnown' /\ WriteIsOfStored'
  BY <1>1, <1>3 DEF IInv, CopiesFollow, OverlapIsKnown, WriteIsOfStored, Stored
<1>6. PlacesRemain'
  BY <1>1, <1>3 DEF IInv, PlacesRemain, Idle
<1>7. WritesProceed'
  BY <1>1, <1>3 DEF IInv, WritesProceed
<1>8. WholeWhenWritten'
  <2>1. ASSUME NEW n \in Memories \ (disturbed' \cup Written'), settled'[n] # 0
        PROVE  Whole(n, settled[n])'
    <3>1. CASE n = m
      <4>1. Reached(task[t], node, places, related)
        BY <1>1, <1>2, <2>1, <3>1 DEF IInv, WritesProceed
      <4>2. settled'[n] = r
        BY <1>1, <1>2, <3>1 DEF IInv, TypeOK
      <4>3. PredecessorOf[m] \subseteq Neighbours(m) \cap Memories
        BY <1>2, NeighboursAreKnown
      <4>. QED  BY <1>1, <3>1, <4>1, <4>2, <4>3 DEF Reached, Whole
    <3>2. CASE n # m
      <4>1. settled'[n] = settled[n]
        BY <1>1, <1>2, <3>2 DEF IInv, TypeOK
      <4>2. n \notin disturbed \cup Written
        BY <1>1, <1>2, <1>3, <2>1, <3>2 DEF Written, Writes
      <4>. QED  BY <1>1, <2>1, <4>1, <4>2 DEF IInv, WholeWhenWritten, Whole
    <3>. QED  BY <3>1, <3>2
  <2>. QED  BY <2>1 DEF WholeWhenWritten
<1>. QED  BY <1>4, <1>5, <1>6, <1>7, <1>8 DEF IInv

------------------------------------------------------------------------------
\* The invariant holds.

LEMMA InitIInv == Init => IInv
<1>. SUFFICES ASSUME Init PROVE IInv
  OBVIOUS
<1>1. 0 \in Revisions /\ "unborn" \in LifeStatus
  BY BoundAssumption DEF Revisions, LifeStatus
<1>2. \A m \in Memories : node[m] = 0 /\ \A x \in Neighbours(m) : related[m][x] = 0
  BY DEF Init
<1>3. TypeOK
  BY <1>1 DEF Init, TypeOK
<1>4. CopiesFollow
  BY <1>2 DEF Init, CopiesFollow, Stored
<1>5. OverlapIsKnown /\ WriteIsOfStored /\ PlacesRemain /\ WritesProceed
  BY DEF Init, OverlapIsKnown, Writes, WriteIsOfStored, PlacesRemain, WritesProceed, Idle
<1>6. WholeWhenWritten
  BY DEF Init, WholeWhenWritten
<1>. QED  BY <1>3, <1>4, <1>5, <1>6 DEF IInv

\* The disjuncts of Next by their shape.
LEMMA NextShapes ==
  ASSUME IInv, Next
  PROVE  \/ StoreStep
         \/ \E t \in Threads, m \in Memories, pc \in {"look", "require"} : Load(t, m, pc)
         \/ \E t \in Threads : task[t] # Idle /\ Fails(t)
         \/ \E t \in Threads : \E pc, todo :
              /\ WriteStep(t, pc, todo)
              /\ task[t].memory \notin disturbed =>
                   Reached(task'[t], node', places', related')
         \/ \E t \in Threads : Return(t)
         \/ Restart
<1>1. ASSUME NEW t \in Threads, Step(t)
      PROVE  \/ task[t] # Idle /\ Fails(t)
             \/ \E pc, todo :
                  /\ WriteStep(t, pc, todo)
                  /\ task[t].memory \notin disturbed =>
                       Reached(task'[t], node', places', related')
             \/ Return(t)
  <2>1. CASE NothingToDelete(t) \/ AlreadyCreated(t) \/ EndMissing(t)
    BY <2>1, NotIdle DEF NothingToDelete, AlreadyCreated, EndMissing
  <2>2. CASE Require(t) \/ Look(t) \/ CreateNode(t) \/ SetNode(t) \/ PutNode(t)
               \/ PutPlace(t) \/ PutRelation(t)
    <3>1. PICK pc, todo : WriteStep(t, pc, todo)
      BY <2>2, StepShape
    <3>2. task[t].memory \notin disturbed => Reached(task'[t], node', places', related')
      BY <2>2, StepReaches
    <3>. QED  BY <3>1, <3>2
  <2>. QED  BY <1>1, <2>1, <2>2 DEF Step
<1>2. \A m \in Memories : Create(m) => StoreStep
  BY CreateShape
<1>3. \A m \in Memories, status \in {"active", "closed", "pending_deletion"} :
        Revise(m, status) => StoreStep
  BY ReviseShape
<1>. QED  BY <1>1, <1>2, <1>3 DEF Next, DatabaseFails

LEMMA NextKeeps == IInv /\ [Next]_vars => IInv'
<1>. SUFFICES ASSUME IInv, [Next]_vars PROVE IInv'
  OBVIOUS
<1>1. CASE Next
  BY <1>1, NextShapes, StoreStepKeeps, LoadKeeps, FailsKeeps, WriteStepKeeps, ReturnKeeps,
     RestartKeeps
<1>2. CASE UNCHANGED vars
  BY <1>2 DEF vars, IInv, TypeOK, CopiesFollow, OverlapIsKnown, WriteIsOfStored, PlacesRemain,
     WritesProceed, WholeWhenWritten, Whole, Stored, Written, Writes
<1>. QED  BY <1>1, <1>2

LEMMA Invariance == Spec => []IInv
BY InitIInv, NextKeeps, PTL DEF Spec

------------------------------------------------------------------------------
\* What is promised.

\* Every variable keeps its type: a write is of a known memory and revision,
\* only the subject and the entities of memories get place nodes, and a memory
\* has relationships to its own neighbours alone.
THEOREM TypeCorrect == Spec => []TypeOK
BY Invariance, PTL DEF IInv

\* A write that came to its end with no other write of its memory beside it
\* leaves the whole copy at its revision, after any failures, races and
\* restarts before it (GraphMemoryService.upsert_memory).
THEOREM WholeIsKept == Spec => []WholeWhenWritten
BY Invariance, PTL DEF IInv

LEMMA StepGoesForward == IInv /\ IInv' /\ [Next]_vars => [ForwardStep]_vars
<1>. SUFFICES ASSUME IInv, IInv', Next PROVE ForwardStep
  BY DEF vars, ForwardStep
<1>1. \A m \in Memories :
        node[m] \in Int /\ \A x \in Neighbours(m) : related[m][x] \in Int
  BY DEF IInv, TypeOK, Revisions
<1>2. CASE UNCHANGED <<node, related>>
  BY <1>1, <1>2 DEF ForwardStep
<1>3. CASE \E t \in Threads : \E pc, todo :
             /\ WriteStep(t, pc, todo)
             /\ task[t].memory \notin disturbed =>
                  Reached(task'[t], node', places', related')
  <2>0. PICK t \in Threads : \E pc, todo : WriteStep(t, pc, todo)
    BY <1>3
  <2>1. PICK pc, todo : WriteStep(t, pc, todo)
    BY <2>0
  <2>2. /\ task[t] # Idle /\ task[t].memory \in Memories /\ task[t].revision \in Int
        /\ Stored(task[t].memory)
    BY <2>1, AtWork DEF WriteStep, IInv, WriteIsOfStored, Revisions
  <2>3. disturbed' = disturbed
    BY <2>1 DEF WriteStep
  <2>4. ASSUME NEW m \in Memories, m \notin disturbed'
        PROVE  /\ node'[m] >= node[m]
               /\ \A x \in Neighbours(m) : related'[m][x] >= related[m][x]
    <3>1. CASE m = task[t].memory
      <4>1. Reached(task[t], node, places, related)
        BY <2>2, <2>3, <2>4, <3>1 DEF IInv, WritesProceed
      <4>. QED  BY <1>1, <2>1, <2>2, <3>1, <4>1, WriteStepFacts DEF Reached
    <3>2. CASE m # task[t].memory
      <4>1. node'[m] = node[m] /\ related'[m] = related[m]
        BY <2>1, <3>2, WriteStepFacts
      <4>. QED  BY <1>1, <4>1
    <3>. QED  BY <3>1, <3>2
  <2>5. ASSUME NEW m \in Memories, life[m].status = "lost"
        PROVE  node'[m] = node[m] /\ related'[m] = related[m]
    <3>1. m # task[t].memory
      BY <2>2, <2>5 DEF Stored
    <3>. QED  BY <2>1, <3>1, WriteStepFacts
  <2>. QED  BY <2>4, <2>5 DEF ForwardStep
<1>. QED  BY <1>2, <1>3, NextShapes DEF StoreStep, Load, Starts, Fails, Return, Restart

\* No part of a copy goes back to an older revision unless writes of it
\* overlapped or one failed, and nothing touches the copy of a memory that a
\* restart lost (upsert_memory writes what the request read from the store).
THEOREM CopyGoesForward == Spec => CopyMovesForward
BY Invariance, StepGoesForward, PTL DEF Spec, CopyMovesForward
==============================================================================
