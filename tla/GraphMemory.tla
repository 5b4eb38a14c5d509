------------------------------ MODULE GraphMemory ------------------------------
(* graph_memory/graph.py over persistence/neo4j/graph_store.py: how the copy of *)
(* a memory gets into the graph.  A write is a sequence of transactions: the    *)
(* node of the memory, the nodes it refers to, the relationships.  Threads      *)
(* interleave between them, the database may fail at each, and the process may  *)
(* restart, which loses the lifecycle store and keeps the graph.                *)
(* The content of a memory is abstracted to its revision: how often it was put. *)
EXTENDS Integers, FiniteSets

CONSTANTS
  Threads,       \* threads of the server
  Memories,      \* ids of memories, none of which is ever given out twice
  OwnerOf,       \* the user of each memory
  EntitiesOf,    \* the resolved entities of each memory
  PredecessorOf, \* the memory it corrects or supersedes: a set of at most one
  MaxRevision    \* bound on the revisions of a memory

Around(m) == {OwnerOf[m]} \cup EntitiesOf[m]
Neighbours(m) == Around(m) \cup PredecessorOf[m]
Places == UNION {Around(m) : m \in Memories}

ASSUME BoundAssumption == MaxRevision \in Nat \ {0}
ASSUME LineageAssumption ==
  PredecessorOf \in [Memories -> SUBSET Memories]
ASSUME PlacesAssumption ==
  /\ Places \cap Memories = {}
  /\ \A m \in Memories : IsFiniteSet(EntitiesOf[m])

VARIABLES
  life,      \* the lifecycle store: status and revision of each memory
  node,      \* Memory nodes: the revision each shows, 0 without one
  places,    \* the Subject and Entity nodes
  related,   \* relationships: the revision each shows, 0 without one
  task,      \* the write each thread is at
  settled,   \* history: the revision of the last write that came to its end
  disturbed  \* history: memories whose last write failed or was not alone

vars == <<life, node, places, related, task, settled, disturbed>>

Revisions == 0 .. MaxRevision
LifeStatus == {"unborn", "active", "closed", "pending_deletion", "lost"}
Idle == [pc |-> "idle"]
Write ==
  [pc : {"require", "look", "create", "set", "node", "places", "relations", "version"},
   memory : Memories, revision : Revisions, todo : SUBSET (Places \cup Memories)]

TypeOK ==
  /\ life \in [Memories -> [status : LifeStatus, revision : Revisions]]
  /\ node \in [Memories -> Revisions]
  /\ places \subseteq Places
  /\ DOMAIN related = Memories
  /\ \A m \in Memories : related[m] \in [Neighbours(m) -> Revisions]
  /\ DOMAIN task = Threads
  /\ \A t \in Threads : task[t] = Idle \/ task[t] \in Write
  /\ settled \in [Memories -> Revisions]
  /\ disturbed \subseteq Memories

Init ==
  /\ life = [m \in Memories |-> [status |-> "unborn", revision |-> 0]]
  /\ node = [m \in Memories |-> 0]
  /\ places = {}
  /\ related = [m \in Memories |-> [x \in Neighbours(m) |-> 0]]
  /\ task = [t \in Threads |-> Idle]
  /\ settled = [m \in Memories |-> 0]
  /\ disturbed = {}

Writes(t, m) == task[t] # Idle /\ task[t].memory = m
Written == {m \in Memories : \E t \in Threads : Writes(t, m)}
Stored(m) == life[m].status \in {"active", "closed", "pending_deletion"}

------------------------------------------------------------------------------
\* The lifecycle store changes while copies are being written.

\* create_from_approved_candidate, or the second put of correct and supersede.
Create(m) ==
  /\ life[m].status = "unborn"
  /\ \A p \in PredecessorOf[m] : life[p].status = "closed"
  /\ life' = [life EXCEPT ![m] = [status |-> "active", revision |-> 1]]
  /\ UNCHANGED <<node, places, related, task, settled, disturbed>>

\* Every other put: a memory in use is strengthened, closed or deleted, and one
\* that was closed may be closed once more or deleted.
Revise(m, status) ==
  /\ \/ life[m].status = "active"
     \/ life[m].status = "closed" /\ status = "closed"
  /\ life[m].revision < MaxRevision
  /\ life' = [life EXCEPT ![m] = [status |-> status, revision |-> @.revision + 1]]
  /\ UNCHANGED <<node, places, related, task, settled, disturbed>>

\* The process ends and starts again: get_memory_store() is empty, the graph is
\* as it was.
Restart ==
  /\ life' = [m \in Memories |-> IF Stored(m) THEN [life[m] EXCEPT !.status = "lost"]
                                             ELSE life[m]]
  /\ task' = [t \in Threads |-> Idle]
  /\ disturbed' = disturbed \cup Written
  /\ UNCHANGED <<node, places, related, settled>>

------------------------------------------------------------------------------
\* Writing one copy.

Starts(t, m, pc, revision) ==
  /\ task[t] = Idle
  /\ Stored(m)
  /\ pc = "require" => life[m].status = "pending_deletion"
  /\ task' = [task EXCEPT ![t] = [pc |-> pc, memory |-> m, revision |-> revision, todo |-> {}]]
  /\ disturbed' = IF m \in Written THEN disturbed \cup {m} ELSE disturbed \ {m}
  /\ UNCHANGED <<life, node, places, related, settled>>

\* Mutation of Load: the request goes on with a record it read earlier.
LoadEarlier(t, m, pc) ==
  \E revision \in 1 .. life[m].revision : Starts(t, m, pc, revision)

\* A request reads the memory it has put and hands it to upsert_memory ("look")
\* or delete_memory ("require").
Load(t, m, pc) == Starts(t, m, pc, life[m].revision)

Goes(t, pc, todo) == task' = [task EXCEPT ![t].pc = pc, ![t].todo = todo]

\* An exception ends the request.
Fails(t) ==
  /\ task' = [task EXCEPT ![t] = Idle]
  /\ disturbed' = disturbed \cup {task[t].memory}
  /\ UNCHANGED <<life, node, places, related, settled>>

\* delete_memory wants the memory to be in the graph.  Then it upserts too,
\* because no memory is ever in state deleted.
Require(t) ==
  /\ task[t].pc = "require" /\ node[task[t].memory] # 0
  /\ Goes(t, "look", {})
  /\ UNCHANGED <<life, node, places, related, settled, disturbed>>

NothingToDelete(t) ==
  /\ task[t].pc = "require" /\ node[task[t].memory] = 0
  /\ Fails(t)

\* Mutation of Look: a copy whose node is up to date is left alone.
LookForChange(t) ==
  /\ task[t].pc = "look"
  /\ \/ node[task[t].memory] = 0 /\ Goes(t, "create", {})
     \/ node[task[t].memory] = task[t].revision /\ Goes(t, "version", {})
     \/ node[task[t].memory] \notin {0, task[t].revision} /\ Goes(t, "set", {})
  /\ UNCHANGED <<life, node, places, related, settled, disturbed>>

\* upsert_memory of the store: is there a node, and does it differ?
Look(t) ==
  /\ task[t].pc = "look"
  /\ \/ node[task[t].memory] = 0 /\ Goes(t, "create", {})
     \/ node[task[t].memory] = task[t].revision /\ Goes(t, "node", {})
     \/ node[task[t].memory] \notin {0, task[t].revision} /\ Goes(t, "set", {})
  /\ UNCHANGED <<life, node, places, related, settled, disturbed>>

\* Shows the revision of the request in the node of its memory.
Shows(t) ==
  /\ node' = [node EXCEPT ![task[t].memory] = task[t].revision]
  /\ UNCHANGED <<life, places, related, settled, disturbed>>

\* CREATE, which the unique constraint refuses when another thread was faster.
CreateNode(t) ==
  /\ task[t].pc = "create" /\ node[task[t].memory] = 0
  /\ Shows(t)
  /\ Goes(t, "node", {})

AlreadyCreated(t) ==
  /\ task[t].pc = "create" /\ node[task[t].memory] # 0
  /\ Fails(t)

\* MATCH ... SET of every field.
SetNode(t) ==
  /\ task[t].pc = "set"
  /\ Shows(t)
  /\ Goes(t, "node", {})

\* put_node of the memory: MERGE, and the fields once more.
PutNode(t) ==
  /\ task[t].pc = "node"
  /\ Shows(t)
  /\ Goes(t, "places", Around(task[t].memory))

\* put_node of the subject and of each entity.
PutPlace(t) ==
  /\ task[t].pc = "places"
  /\ \E x \in task[t].todo :
       /\ places' = places \cup {x}
       /\ IF task[t].todo = {x} THEN Goes(t, "relations", Neighbours(task[t].memory))
          ELSE Goes(t, "places", task[t].todo \ {x})
  /\ UNCHANGED <<life, node, related, settled, disturbed>>

\* The one to the predecessor is put last.
NextRelations(t) ==
  LET others == task[t].todo \ PredecessorOf[task[t].memory] IN
  IF others = {} THEN task[t].todo ELSE others

HasNode(x) == IF x \in Memories THEN node[x] # 0 ELSE x \in places

\* put_relationship: MATCH both ends, MERGE, SET.
PutRelation(t) ==
  /\ task[t].pc = "relations"
  /\ \E x \in NextRelations(t) :
       /\ node[task[t].memory] # 0 /\ HasNode(x)
       /\ related' = [related EXCEPT ![task[t].memory][x] = task[t].revision]
       /\ IF task[t].todo = {x} THEN Goes(t, "version", {})
          ELSE Goes(t, "relations", task[t].todo \ {x})
  /\ UNCHANGED <<life, node, places, settled, disturbed>>

\* "relationship endpoints were not found": the predecessor never got a node.
EndMissing(t) ==
  /\ task[t].pc = "relations"
  /\ \E x \in NextRelations(t) : ~HasNode(x)
  /\ Fails(t)

\* get_graph_version, and the write returns.
Return(t) ==
  /\ task[t].pc = "version"
  /\ task' = [task EXCEPT ![t] = Idle]
  /\ settled' = [settled EXCEPT ![task[t].memory] = task[t].revision]
  /\ UNCHANGED <<life, node, places, related, disturbed>>

\* Neo4jError.  A transaction that was committed although its answer got lost is
\* a step and the failure of the next one.
DatabaseFails(t) == task[t] # Idle /\ Fails(t)

Step(t) ==
  \/ Require(t) \/ NothingToDelete(t)
  \/ Look(t) \/ CreateNode(t) \/ AlreadyCreated(t) \/ SetNode(t) \/ PutNode(t)
  \/ PutPlace(t) \/ PutRelation(t) \/ EndMissing(t)
  \/ Return(t)

Next ==
  \/ \E m \in Memories :
       \/ Create(m)
       \/ \E status \in {"active", "closed", "pending_deletion"} : Revise(m, status)
       \/ \E t \in Threads, pc \in {"look", "require"} : Load(t, m, pc)
  \/ \E t \in Threads : Step(t) \/ DatabaseFails(t)
  \/ Restart

Spec == Init /\ [][Next]_vars

------------------------------------------------------------------------------
Whole(m, r) ==
  /\ node[m] = r
  /\ Around(m) \subseteq places
  /\ \A x \in Neighbours(m) : related[m][x] = r
  /\ \A p \in PredecessorOf[m] : node[p] # 0

\* A write that came to its end without another of the same memory beside it
\* leaves the whole copy at one revision, whatever a failure, a race or a
\* restart had left behind, and it stays so until the next write
\* (GraphMemoryService.upsert_memory puts every part again each time).
WholeWhenWritten ==
  \A m \in Memories \ (disturbed \cup Written) :
    settled[m] # 0 => Whole(m, settled[m])

\* No part of a copy goes back to an older revision, unless two writes of the
\* memory overlapped or one failed; and nobody touches the copy of a memory
\* that a restart made the service forget.
ForwardStep ==
  \A m \in Memories :
    /\ m \notin disturbed' =>
         /\ node'[m] >= node[m]
         /\ \A x \in Neighbours(m) : related'[m][x] >= related[m][x]
    /\ life[m].status = "lost" => /\ node'[m] = node[m]
                                  /\ related'[m] = related[m]

CopyMovesForward == [][ForwardStep]_vars
================================================================================
