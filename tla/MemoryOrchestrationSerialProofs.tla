-------------------- MODULE MemoryOrchestrationSerialProofs --------------------
(***************************************************************************)
(* What MemoryOrchestration guarantees a user whose requests do not        *)
(* overlap, whatever the requests of other users do meanwhile, for every   *)
(* number of threads, users, facts, events, memories and graph stores, and *)
(* whichever stores fail: a deletion is final whatever is requested        *)
(* afterwards; no evidence is dropped; and if nothing else is requested    *)
(* than the operations that propagate, the copies are in step and no fact  *)
(* is remembered twice.  When two requests of the user overlap none of     *)
(* this holds; MCDeletionRace shows it of deletions.                       *)
(***************************************************************************)
EXTENDS MemoryOrchestrationProofs, WellFoundedInduction

------------------------------------------------------------------------------
(* One user among others.                                                      *)

\* The memories of user u in the store s.
Of(u, s) == {id \in DOMAIN s : s[id].subject = u}

\* No other thread than t serves u.
Alone(t, u) == \A s \in Threads \ {t} : ~Serves(s, u)

\* A step that concerns no memory and no request of u.
Untouched(u) ==
  /\ Of(u, store') = Of(u, store)
  /\ \A id \in Of(u, store) :
       /\ store'[id] = store[id]
       /\ \A g \in GraphStores :
            /\ id \in DOMAIN graph'[g] <=> id \in DOMAIN graph[g]
            /\ id \in DOMAIN graph[g] => graph'[g][id] = graph[g][id]
       /\ id \in DOMAIN embeddings' <=> id \in DOMAIN embeddings
       /\ id \in DOMAIN embeddings => embeddings'[id] = embeddings[id]
       /\ id \in acknowledged' <=> id \in acknowledged
       /\ id \in unsynced' <=> id \in unsynced
  /\ \A t \in Threads : Serves(t, u)' <=> Serves(t, u)
  /\ \A t \in Threads : Serves(t, u) => task'[t] = task[t]

\* A request that serves u is the only one, when the requests of u do not overlap.
LEMMA OnlyOne ==
  ASSUME NEW u, OneRequestOf(u), NEW t \in Threads, Serves(t, u)
  PROVE  Alone(t, u)
  BY DEF OneRequestOf, Alone

\* The request t is given its next state w; the others keep theirs.
LEMMA OthersKeep ==
  ASSUME IInv, NEW t \in Threads, NEW w, task' = [task EXCEPT ![t] = w]
  PROVE  /\ task'[t] = w
         /\ \A s \in Threads \ {t} : task'[s] = task[s]
         /\ \A s \in Threads \ {t} : \A u : Serves(s, u)' <=> Serves(s, u)
         /\ \A u : Serves(t, u)' <=> (w # Idle /\ w.by = u)
<1>1. task'[t] = w /\ \A s \in Threads \ {t} : task'[s] = task[s]
  BY DEF IInv
<1>2. QED
  BY <1>1 DEF Serves, InFlight

\* A request serves one user from its beginning to its end.
LEMMA SameUser ==
  ASSUME IInv, NEW t \in Threads, Step(t)
  PROVE  /\ InFlight(t) /\ task[t] \in Task
         /\ \E w : /\ task' = [task EXCEPT ![t] = w]
                   /\ w = Idle \/ w.by = task[t].by
<1> DEFINE w == task[t]
<1>1. w # Idle
  BY DEF Step, StorePut, LoadMemory, SyncGraph, GraphFails, SyncEmbedding,
         ForgetEmbedding, EmbeddingFails, Idle
<1>2. w \in Task
  BY <1>1, RequestFacts
<1>3. \/ task' = [task EXCEPT ![t] = Idle]
      \/ task' = [task EXCEPT ![t] = [w EXCEPT !.pc = "graph", !.loaded = {store[w.id]}]]
      \/ task' = [task EXCEPT ![t] = [w EXCEPT !.pc = "embed"]]
      \/ \E id : task' = [task EXCEPT ![t] = AfterPut(w, id)]
  BY DEF Step, StorePut, LoadMemory, SyncGraph, GraphFails, SyncEmbedding, ForgetEmbedding,
         EmbeddingFails, Finish, Abort, IInv
<1>4. \A id : AfterPut(w, id) = Idle \/ AfterPut(w, id).by = w.by
  BY <1>2 DEF AfterPut, Task
<1>5. /\ [w EXCEPT !.pc = "graph", !.loaded = {store[w.id]}].by = w.by
      /\ [w EXCEPT !.pc = "embed"].by = w.by
  BY <1>2 DEF Task
<1> HIDE DEF w
<1>6. \E v : /\ task' = [task EXCEPT ![t] = v]
             /\ v = Idle \/ v.by = w.by
  <2>1. ASSUME NEW id, task' = [task EXCEPT ![t] = AfterPut(w, id)]
        PROVE  \E v : task' = [task EXCEPT ![t] = v] /\ (v = Idle \/ v.by = w.by)
    <3> DEFINE v == AfterPut(w, id)
    <3>1. task' = [task EXCEPT ![t] = v] /\ (v = Idle \/ v.by = w.by)
      BY <1>4, <2>1
    <3> HIDE DEF v
    <3>2. QED
      BY <3>1
  <2>2. CASE task' = [task EXCEPT ![t] = Idle]
    BY <2>2
  <2>3. CASE task' = [task EXCEPT ![t] = [w EXCEPT !.pc = "graph", !.loaded = {store[w.id]}]]
    BY <1>5, <2>3
  <2>4. CASE task' = [task EXCEPT ![t] = [w EXCEPT !.pc = "embed"]]
    BY <1>5, <2>4
  <2>5. QED
    BY <1>3, <2>1, <2>2, <2>3, <2>4
<1>7. QED
  BY <1>1, <1>2, <1>6 DEF w, InFlight

\* A put writes a memory of the user it is for.
LEMMA PutIsOwn ==
  ASSUME IInv, NEW t \in Threads, StorePut(t)
  PROVE  \E id \in MemoryIds, m \in MemoryRecord :
           /\ store' = Put(store, id, m) /\ m.subject = task[t].by
           /\ id \in DOMAIN store => store[id].subject = task[t].by
<1> DEFINE w == task[t]
           put == Head(w.puts)
<1>1. w.pc = "put" /\ w # Idle
  BY DEF StorePut, Idle
<1>2. RequestOK(w, store, Known) /\ w \in Task
  BY <1>1, RequestFacts
<1>3. w.puts \in Seq(PendingPut) /\ w.puts # <<>>
  BY <1>1, <1>2 DEF RequestOK, Task
<1>4. put \in PendingPut /\ PutOK(put, w.by, store)
  BY <1>2, <1>3, HeadAndTail DEF RequestOK
<1>5. PICK id \in IF put.id = None THEN FreshIds(store) ELSE {put.id} :
        store' = Put(store, id, put.memory)
  BY DEF StorePut
<1> HIDE DEF put, w
<1>6. put.memory \in MemoryRecord /\ put.memory.subject = w.by
  BY <1>4 DEF PendingPut, PutOK
<1>7. id \in MemoryIds /\ (id \in DOMAIN store => store[id].subject = w.by)
  <2>1. CASE put.id = None
    BY <1>5, <2>1, MaxMemoriesAssumption DEF FreshIds, MemoryIds
  <2>2. CASE put.id # None
    BY <1>4, <1>5, <2>2, WrittenFacts DEF PutOK, MayWrite, Owns
  <2>3. QED
    BY <2>1, <2>2
<1>8. QED
  BY <1>5, <1>6, <1>7 DEF w

\* So the owner of a memory never changes, and no memory goes away.
LEMMA StepGrows ==
  ASSUME IInv, NEW t \in Threads, Step(t)
  PROVE  Grows(store, store')
<1>1. CASE StorePut(t)
  BY <1>1, PutIsOwn DEF Grows, Put
<1>2. CASE UNCHANGED store
  BY <1>2 DEF Grows
<1>3. QED
  BY <1>1, <1>2 DEF Step, LoadMemory, SyncGraph, GraphFails, SyncEmbedding,
     ForgetEmbedding, EmbeddingFails

\* What a step does to memory x, if it does not write its record: nothing.
Spares(x) ==
  /\ \A g \in GraphStores :
       /\ x \in DOMAIN graph'[g] <=> x \in DOMAIN graph[g]
       /\ x \in DOMAIN graph[g] => graph'[g][x] = graph[g][x]
  /\ x \in DOMAIN embeddings' <=> x \in DOMAIN embeddings
  /\ x \in DOMAIN embeddings => embeddings'[x] = embeddings[x]
  /\ x \in acknowledged' <=> x \in acknowledged
  /\ x \in unsynced' <=> x \in unsynced

\* Copies and failures concern the one memory the request works on.
LEMMA CopyStepSpares ==
  ASSUME IInv, NEW t \in Threads, Step(t), ~StorePut(t), NEW x, x # task[t].id
  PROVE  UNCHANGED store /\ Spares(x)
<1> DEFINE y == task[t].id
<1>1. \A m : graph' = WithCopy(y, m) =>
        \A g \in GraphStores : /\ x \in DOMAIN graph'[g] <=> x \in DOMAIN graph[g]
                               /\ x \in DOMAIN graph[g] => graph'[g][x] = graph[g][x]
  <2> SUFFICES ASSUME NEW m, graph' = WithCopy(y, m), NEW g \in GraphStores
               PROVE  /\ x \in DOMAIN graph'[g] <=> x \in DOMAIN graph[g]
                      /\ x \in DOMAIN graph[g] => graph'[g][x] = graph[g][x]
    OBVIOUS
  <2>1. CASE g = WrittenGraph
    <3>1. graph'[g] = Put(graph[g], y, m)
      BY <2>1 DEF WithCopy, IInv
    <3>2. QED
      BY <3>1 DEF Put
  <2>2. CASE g # WrittenGraph
    BY <2>2 DEF WithCopy
  <2>3. QED
    BY <2>1, <2>2
<1>2. \A m : embeddings' = Put(embeddings, y, m) =>
        /\ x \in DOMAIN embeddings' <=> x \in DOMAIN embeddings
        /\ x \in DOMAIN embeddings => embeddings'[x] = embeddings[x]
  BY DEF Put
<1> HIDE DEF y
<1>3. CASE LoadMemory(t)
  BY <1>3 DEF LoadMemory, Spares
<1>4. CASE SyncGraph(t)
  <2>1. /\ \E m : graph' = WithCopy(y, m)
        /\ UNCHANGED <<store, embeddings, acknowledged>>
        /\ unsynced' \in {unsynced, unsynced \ {y}}
    BY <1>4 DEF SyncGraph, Finish, y
  <2>2. QED
    BY <1>1, <2>1 DEF Spares, y
<1>5. CASE GraphFails(t)
  <2>1. /\ graph' = graph \/ \E m : graph' = WithCopy(y, m)
        /\ UNCHANGED <<store, embeddings, acknowledged>>
        /\ unsynced' = unsynced \cup {y}
    BY <1>5 DEF GraphFails, Abort, y
  <2>2. QED
    BY <1>1, <2>1 DEF Spares, y
<1>6. CASE SyncEmbedding(t)
  <2>1. /\ embeddings' = embeddings \/ \E m : embeddings' = Put(embeddings, y, m)
        /\ UNCHANGED <<store, graph, acknowledged>>
        /\ unsynced' = unsynced \ {y}
    BY <1>6 DEF SyncEmbedding, Finish, y
  <2>2. QED
    BY <1>2, <2>1 DEF Spares, y
<1>7. CASE ForgetEmbedding(t)
  BY <1>7 DEF ForgetEmbedding, Finish, Spares
<1>8. CASE EmbeddingFails(t)
  BY <1>8 DEF EmbeddingFails, Abort, Spares
<1>9. QED
  BY <1>3, <1>4, <1>5, <1>6, <1>7, <1>8 DEF Step

\* What a request does for one user does not concern another.
LEMMA OthersUntouched ==
  ASSUME IInv, NEW u, NEW t \in Threads, Step(t), task[t].by # u
  PROVE  Untouched(u)
<1>1. /\ \A s \in Threads : Serves(s, u)' <=> Serves(s, u)
      /\ \A s \in Threads : Serves(s, u) => task'[s] = task[s]
  <2>1. PICK w : /\ task' = [task EXCEPT ![t] = w]
                 /\ w = Idle \/ w.by = task[t].by
    BY SameUser
  <2>2. ~Serves(t, u) /\ ~Serves(t, u)'
    BY <2>1, OthersKeep DEF Serves
  <2>3. QED
    BY <2>1, <2>2, OthersKeep
<1>2. CASE StorePut(t)
  <2>1. PICK id \in MemoryIds, m \in MemoryRecord :
          /\ store' = Put(store, id, m) /\ m.subject = task[t].by
          /\ id \in DOMAIN store => store[id].subject = task[t].by
    BY <1>2, PutIsOwn
  <2>2. Of(u, store') = Of(u, store) /\ \A x \in Of(u, store) : store'[x] = store[x]
    BY <2>1 DEF Of, Put
  <2>3. UNCHANGED <<graph, embeddings, acknowledged, unsynced>>
    BY <1>2 DEF StorePut
  <2>4. QED
    BY <1>1, <2>2, <2>3 DEF Untouched
<1>3. CASE ~StorePut(t)
  <2>1. task[t].pc \in {"load", "graph", "embed"}
    BY <1>3 DEF Step, LoadMemory, SyncGraph, GraphFails, SyncEmbedding, ForgetEmbedding,
       EmbeddingFails
  <2>2. \A x \in Of(u, store) : x # task[t].id
    BY <2>1, WorkedOn DEF Of
  <2>3. \A x \in Of(u, store) : UNCHANGED store /\ Spares(x)
    BY <1>3, <2>2, CopyStepSpares
  <2>4. UNCHANGED store
    BY <1>3 DEF Step, LoadMemory, SyncGraph, GraphFails, SyncEmbedding, ForgetEmbedding,
       EmbeddingFails
  <2>5. Of(u, store') = Of(u, store)
    BY <2>4
  <2>6. QED
    BY <1>1, <2>3, <2>4, <2>5 DEF Untouched, Spares
<1>4. QED
  BY <1>2, <1>3

\* A request begins without touching anything, for u or for another.
LEMMA BeginLeaves ==
  ASSUME NEW t \in Threads, Decide(t)
  PROVE  UNCHANGED <<store, graph, embeddings, acknowledged, unsynced>>
<1>1. \A op, by, id, puts : Begin(t, op, by, id, puts) =>
        UNCHANGED <<store, graph, embeddings, acknowledged, unsynced>>
  BY DEF Begin
<1>2. QED
  BY <1>1 DEF Decide, DecideWrite, DecideCorrect, DecideSupersede, DecideDelete,
     DecideExpire, DecideUpdate

------------------------------------------------------------------------------
(* The inductive invariant, over what the invariant of all requests says.      *)

\* Memory id is on its way out in the store s and wherever gr holds it, and has
\* no embedding in e.
GoneIn(id, s, gr, e) ==
  /\ id \in DOMAIN s /\ Deleting(s[id])
  /\ \A g \in GraphStores : id \in DOMAIN gr[g] => Deleting(gr[g][id])
  /\ id \notin DOMAIN e

\* A request that will not bring back a memory reported as deleted: it puts none
\* of these, and works on one only to delete it again.
KeepsGone(w, s, gr, ack) ==
  /\ \A i \in DOMAIN w.puts : w.puts[i].id \notin ack
  /\ w.op # "delete" /\ w.pc # "put" => w.id \notin ack
  /\ w.op = "delete" /\ w.pc = "put" =>
       Tail(w.puts) = <<>> /\ Deleting(Head(w.puts).memory)
  /\ w.op = "delete" /\ w.pc # "put" => Deleting(s[w.id])
  /\ w.op = "delete" => \A m \in w.loaded : Deleting(m)
  /\ w.op = "delete" /\ w.pc = "embed" => Deleting(gr[WrittenGraph][w.id])

\* Only one graph store is ever written.
OthersAreEmpty(gr) == \A g \in GraphStores \ {WrittenGraph} : DOMAIN gr[g] = {}

Orderly == acknowledged \subseteq DOMAIN store /\ OthersAreEmpty(graph)

\* The memories of u that were reported as deleted.
Deleted(u) == acknowledged \cap Of(u, store)

Final(u) ==
  /\ \A id \in Deleted(u) : GoneIn(id, store, graph, embeddings)
  /\ \A t \in Threads : Serves(t, u) => KeepsGone(task[t], store, graph, Deleted(u))

\* Nothing is reported as deleted at first.
LEMMA InitFinal ==
  ASSUME NEW u
  PROVE  Init => Orderly /\ Final(u)
  BY DEF Init, Orderly, Final, Deleted, Nothing, OthersAreEmpty, Serves, InFlight

\* What is reported as deleted is stored, and only one graph store is written,
\* however requests interleave.
LEMMA NextOrderly == IInv /\ Orderly /\ [Next]_vars => Orderly'
<1> SUFFICES ASSUME IInv, Orderly, [Next]_vars PROVE Orderly'
  OBVIOUS
<1>1. CASE UNCHANGED vars
  BY <1>1 DEF vars, Orderly
<1>2. ASSUME NEW t \in Threads, Decide(t) PROVE Orderly'
  BY <1>2, BeginLeaves DEF Orderly
<1>3. ASSUME NEW t \in Threads, Step(t) PROVE Orderly'
  <2>1. DOMAIN store \subseteq DOMAIN store'
    BY <1>3, StepGrows DEF Grows
  <2>2. \A m : graph' = WithCopy(task[t].id, m) => OthersAreEmpty(graph')
    BY DEF WithCopy, Orderly, OthersAreEmpty, IInv
  <2>3. graph' = graph \/ \E m : graph' = WithCopy(task[t].id, m)
    BY <1>3 DEF Step, StorePut, LoadMemory, SyncGraph, GraphFails, SyncEmbedding,
       ForgetEmbedding, EmbeddingFails
  <2>4. OthersAreEmpty(graph')
    BY <2>2, <2>3 DEF Orderly
  <2>5. acknowledged' \subseteq DOMAIN store'
    <3>1. CASE ForgetEmbedding(t)
      <4>1. task[t].id \in DOMAIN store /\ acknowledged' = acknowledged \cup {task[t].id}
        BY <3>1, WorkedOn DEF ForgetEmbedding
      <4>2. QED
        BY <2>1, <4>1 DEF Orderly
    <3>2. CASE UNCHANGED acknowledged
      BY <2>1, <3>2 DEF Orderly
    <3>3. QED
      BY <1>3, <3>1, <3>2 DEF Step, StorePut, LoadMemory, SyncGraph, GraphFails,
         SyncEmbedding, EmbeddingFails
  <2>6. QED
    BY <2>4, <2>5 DEF Orderly
<1>4. QED
  BY <1>1, <1>2, <1>3 DEF Next

\* The step of a request that serves u alone.
LEMMA StepFinal ==
  ASSUME IInv, NEW u, NEW t \in Threads, Alone(t, u), NEW w,
         task' = [task EXCEPT ![t] = w],
         w = Idle \/ KeepsGone(w, store', graph', Deleted(u)'),
         \A id \in Deleted(u)' : GoneIn(id, store', graph', embeddings')
  PROVE  Final(u)'
<1>1. \A s \in Threads : Serves(s, u)' => s = t /\ task'[s] = w /\ w # Idle
  BY OthersKeep DEF Alone
<1>2. \A s \in Threads : Serves(s, u)' => KeepsGone(task'[s], store', graph', Deleted(u)')
  BY <1>1
<1>3. QED
  BY <1>2 DEF Final

\* The beginning of any request.
LEMMA StartFinal ==
  ASSUME IInv, NEW u, Final(u), NEW t \in Threads, NEW w,
         task' = [task EXCEPT ![t] = w],
         UNCHANGED <<store, graph, embeddings, acknowledged, unsynced>>,
         KeepsGone(w, store, graph, Deleted(u))
  PROVE  Final(u)'
<1>1. UNCHANGED Deleted(u)
  BY DEF Deleted, Of
<1>2. ASSUME NEW s \in Threads, Serves(s, u)'
      PROVE  KeepsGone(task'[s], store, graph, Deleted(u))
  <2>1. CASE s = t
    BY <2>1, OthersKeep
  <2>2. CASE s # t
    BY <1>2, <2>2, OthersKeep DEF Final
  <2>3. QED
    BY <2>1, <2>2
<1>3. QED
  BY <1>1, <1>2 DEF Final

\* A step that does not concern u.
LEMMA UntouchedFinal ==
  ASSUME IInv, NEW u, Final(u), Untouched(u)
  PROVE  Final(u)'
<1>1. Deleted(u)' = Deleted(u)
  BY DEF Untouched, Deleted
<1>2. ASSUME NEW id \in Deleted(u) PROVE GoneIn(id, store', graph', embeddings')
  <2>1. GoneIn(id, store, graph, embeddings) /\ id \in Of(u, store)
    BY DEF Final, Deleted
  <2>2. id \in Of(u, store') /\ store'[id] = store[id]
    BY <2>1 DEF Untouched
  <2>3. id \in DOMAIN store'
    BY <2>2 DEF Of
  <2>4. QED
    BY <2>1, <2>2, <2>3 DEF Untouched, GoneIn
<1>3. ASSUME NEW t \in Threads, Serves(t, u)'
      PROVE  KeepsGone(task'[t], store', graph', Deleted(u))
  <2> DEFINE w == task[t]
  <2>1. Serves(t, u) /\ task'[t] = w
    BY <1>3 DEF Untouched
  <2>2. KeepsGone(w, store, graph, Deleted(u)) /\ RequestOK(w, store, Known) /\ w.by = u
        /\ w.pc \in {"put", "load", "graph", "embed"}
    BY <2>1, RequestFacts, RequestIsBusy DEF Final, Serves, InFlight
  <2> HIDE DEF w
  <2>3. w.pc # "put" => w.id \in Of(u, store)
    BY <2>2 DEF RequestOK, MayWrite, Owns, Of
  <2>4. w.pc # "put" => store'[w.id] = store[w.id]
    BY <2>3 DEF Untouched
  <2>5. w.pc = "embed" => w.id \in DOMAIN graph[WrittenGraph]
    BY <2>2 DEF RequestOK, Known
  <2>6. w.pc = "embed" => graph'[WrittenGraph][w.id] = graph[WrittenGraph][w.id]
    BY <2>3, <2>5, WrittenFacts DEF Untouched
  <2>7. KeepsGone(w, store', graph', Deleted(u))
    BY <2>2, <2>4, <2>6 DEF KeepsGone
  <2>8. QED
    BY <2>1, <2>7
<1>4. QED
  BY <1>1, <1>2, <1>3 DEF Final

------------------------------------------------------------------------------
(* Deciding.                                                                   *)

\* No memory reported as deleted can be an update's, or have no id.
LEMMA OutOfReach ==
  ASSUME IInv, NEW u, Final(u)
  PROVE  /\ None \notin Deleted(u)
         /\ \A id \in Deleted(u) : Deleting(store[id])
  BY NoneIsNoId DEF IInv, Final, GoneIn, Deleted

\* A request other than a deletion begins, with puts of other memories.
LEMMA BeginFinal ==
  ASSUME IInv, NEW u, Final(u), NEW t \in Threads, NEW op, op # "delete", NEW by, NEW id,
         NEW puts, puts # <<>>, \A i \in DOMAIN puts : puts[i].id \notin Deleted(u),
         Begin(t, op, by, id, puts)
  PROVE  Final(u)'
<1> DEFINE w == [op |-> op, pc |-> IF puts = <<>> THEN "load" ELSE "put",
                 by |-> by, id |-> id, puts |-> puts, loaded |-> {}]
<1>1. /\ task' = [task EXCEPT ![t] = w]
      /\ UNCHANGED <<store, graph, embeddings, acknowledged, unsynced>>
  BY DEF Begin
<1>2. w.op # "delete" /\ w.pc = "put" /\ w.puts = puts
  OBVIOUS
<1> HIDE DEF w
<1>3. KeepsGone(w, store, graph, Deleted(u))
  BY <1>2 DEF KeepsGone
<1>4. QED
  BY <1>1, <1>3, StartFinal

\* With one such put, or two.
LEMMA BeginOneFinal ==
  ASSUME IInv, NEW u, Final(u), NEW t \in Threads, NEW op, op # "delete", NEW by, NEW id,
         NEW x, NEW m, x \notin Deleted(u),
         Begin(t, op, by, id, <<Stored(x, m)>>)
  PROVE  Final(u)'
<1> DEFINE puts == <<Stored(x, m)>>
<1>1. puts # <<>> /\ \A i \in DOMAIN puts : puts[i].id \notin Deleted(u)
  BY DEF Stored
<1>2. QED
  BY <1>1, BeginFinal

LEMMA BeginTwoFinal ==
  ASSUME IInv, NEW u, Final(u), NEW t \in Threads, NEW op, op # "delete", NEW by, NEW id,
         NEW x, NEW m, x \notin Deleted(u), NEW y, NEW n, y \notin Deleted(u),
         Begin(t, op, by, id, <<Stored(x, m), Stored(y, n)>>)
  PROVE  Final(u)'
<1> DEFINE puts == <<Stored(x, m), Stored(y, n)>>
<1>1. puts # <<>> /\ \A i \in DOMAIN puts : puts[i].id \notin Deleted(u)
  BY DEF Stored
<1>2. QED
  BY <1>1, BeginFinal

\* No decision plans to bring back what is gone, a deletion least of all.
LEMMA DecideDeleteFinal ==
  ASSUME IInv, NEW u, Final(u), NEW t \in Threads, NEW by, NEW id, NEW at,
         DecideDelete(t, by, id, at)
  PROVE  Final(u)'
<1>1. CASE Deleting(store[id]) /\ Begin(t, "delete", by, id, <<>>)
  <2> DEFINE w == [op |-> "delete", pc |-> "load", by |-> by, id |-> id,
                   puts |-> <<>>, loaded |-> {}]
  <2>1. /\ task' = [task EXCEPT ![t] = w]
        /\ UNCHANGED <<store, graph, embeddings, acknowledged, unsynced>>
    BY <1>1 DEF Begin
  <2>2. /\ w.op = "delete" /\ w.pc = "load" /\ w.id = id /\ w.loaded = {}
        /\ \A i \in DOMAIN w.puts : w.puts[i].id \notin Deleted(u)
    OBVIOUS
  <2> HIDE DEF w
  <2>3. KeepsGone(w, store, graph, Deleted(u))
    BY <1>1, <2>2 DEF KeepsGone
  <2>4. QED
    BY <2>1, <2>3, StartFinal
<1>2. CASE /\ store[id].status = "active"
           /\ Begin(t, "delete", by, id,
                    << Stored(id, [Close(store[id], at, "deleted")
                                     EXCEPT !.status = "pending_deletion"]) >>)
  <2> DEFINE m == [Close(store[id], at, "deleted") EXCEPT !.status = "pending_deletion"]
             w == [op |-> "delete", pc |-> "put", by |-> by, id |-> id,
                   puts |-> <<Stored(id, m)>>, loaded |-> {}]
  <2>1. /\ task' = [task EXCEPT ![t] = w]
        /\ UNCHANGED <<store, graph, embeddings, acknowledged, unsynced>>
    BY <1>2 DEF Begin
  <2>2. id \in DOMAIN store /\ store[id] \in MemoryRecord
    BY DEF DecideDelete, Owns, IInv, StoreOK
  <2>3. Deleting(m)
    BY <2>2 DEF Close, MemoryRecord, Deleting
  <2>4. id \notin Deleted(u)
    BY <1>2, OutOfReach DEF Deleting
  <2> HIDE DEF m
  <2>5. /\ w.op = "delete" /\ w.pc = "put" /\ w.loaded = {}
        /\ Tail(w.puts) = <<>> /\ Head(w.puts).memory = m
        /\ \A i \in DOMAIN w.puts : w.puts[i].id = id
    BY DEF Stored
  <2> HIDE DEF w
  <2>6. KeepsGone(w, store, graph, Deleted(u))
    BY <2>3, <2>4, <2>5 DEF KeepsGone
  <2>7. QED
    BY <2>1, <2>6, StartFinal
<1>3. QED
  BY <1>1, <1>2 DEF DecideDelete

LEMMA DecideFinal ==
  ASSUME IInv, NEW u, Final(u), NEW t \in Threads, Decide(t)
  PROVE  Final(u)'
<1>1. /\ None \notin Deleted(u)
      /\ \A id : store[id].status = "active" \/ Replaceable(store[id]) => id \notin Deleted(u)
  BY OutOfReach DEF Replaceable, Deleting
<1>2. ASSUME NEW c \in Candidate, NEW p \in Policies, NEW at \in Times,
             DecideWrite(t, c, p, at)
      PROVE  Final(u)'
  <2>1. ASSUME NEW id \in FindEquivalent(store, c),
               Begin(t, "write", c.subject, id, <<Stored(id, Reinforce(store[id], c))>>)
        PROVE  Final(u)'
    <3>1. id \notin Deleted(u)
      BY <1>1, <2>1 DEF FindEquivalent, Equivalents
    <3>2. QED
      BY <2>1, <3>1, BeginOneFinal
  <2>2. CASE Begin(t, "write", c.subject, None, <<Stored(None, NewRecord(c, p, at))>>)
    BY <1>1, <2>2, BeginOneFinal
  <2>3. QED
    BY <1>2, <2>1, <2>2 DEF DecideWrite
<1>3. ASSUME NEW target \in MemoryIds, NEW c \in Candidate, NEW p \in Policies, NEW at \in Times,
             NEW op, DecideCorrect(t, op, target, c, p, at)
      PROVE  Final(u)'
  BY <1>1, <1>3, BeginTwoFinal DEF DecideCorrect
<1>4. ASSUME NEW target \in MemoryIds, NEW c \in Candidate, NEW p \in Policies, NEW at \in Times,
             DecideSupersede(t, target, c, p, at)
      PROVE  Final(u)'
  BY <1>1, <1>4, BeginTwoFinal DEF DecideSupersede
<1>5. ASSUME NEW by \in Subjects, NEW id \in MemoryIds, NEW at \in Times,
             DecideExpire(t, by, id, at)
      PROVE  Final(u)'
  BY <1>1, <1>5, BeginOneFinal DEF DecideExpire
<1>6. ASSUME NEW by \in Subjects, NEW id \in MemoryIds, NEW fact \in Facts, NEW p \in Policies,
             DecideUpdate(t, by, id, fact, p)
      PROVE  Final(u)'
  BY <1>1, <1>6, BeginOneFinal DEF DecideUpdate
<1>7. QED
  BY <1>2, <1>3, <1>4, <1>5, <1>6, DecideDeleteFinal DEF Decide

------------------------------------------------------------------------------
(* Storing and propagating.                                                    *)

\* No step changes the owner of a memory that was reported as deleted.
LEMMA DeletedStays ==
  ASSUME IInv, Orderly, NEW u, NEW t \in Threads, Step(t), UNCHANGED acknowledged
  PROVE  Deleted(u)' = Deleted(u)
<1>1. Grows(store, store')
  BY StepGrows
<1>2. QED
  BY <1>1 DEF Orderly, Deleted, Of, Grows

LEMMA StorePutFinal ==
  ASSUME IInv, Orderly, NEW u, Final(u), NEW t \in Threads, Serves(t, u), Alone(t, u),
         StorePut(t)
  PROVE  Final(u)'
<1> DEFINE w == task[t]
           put == Head(w.puts)
<1>1. w.pc = "put" /\ w # Idle
  BY DEF StorePut, Idle
<1>2. RequestOK(w, store, Known) /\ w \in Task
  BY <1>1, RequestFacts
<1>3. w.puts \in Seq(PendingPut) /\ w.puts # <<>>
  BY <1>1, <1>2 DEF RequestOK, Task
<1>4. KeepsGone(w, store, graph, Deleted(u))
  BY <1>1 DEF Final
<1>5. /\ put.id \notin Deleted(u)
      /\ \A i \in DOMAIN Tail(w.puts) : Tail(w.puts)[i].id \notin Deleted(u)
  BY <1>3, <1>4, HeadAndTail DEF KeepsGone
<1>6. PICK id \in IF put.id = None THEN FreshIds(store) ELSE {put.id} :
        /\ store' = Put(store, id, put.memory)
        /\ task' = [task EXCEPT ![t] = AfterPut(w, id)]
        /\ UNCHANGED <<graph, embeddings, acknowledged, unsynced>>
  BY DEF StorePut
<1> HIDE DEF put, w
<1>7. id \notin Deleted(u) /\ Deleted(u)' = Deleted(u)
  <2>1. id \notin Deleted(u)
    BY <1>5, <1>6 DEF FreshIds, Final, GoneIn, MemoryIds
  <2>2. QED
    BY <1>6, <2>1, DeletedStays DEF Step
<1>8. store'[id] = put.memory /\ \A x \in DOMAIN store \ {id} : store'[x] = store[x]
      /\ DOMAIN store' = DOMAIN store \cup {id}
  BY <1>6 DEF Put
<1>9. \A x \in Deleted(u)' : GoneIn(x, store', graph', embeddings')
  BY <1>6, <1>7, <1>8 DEF Final, GoneIn
<1>10. AfterPut(w, id) = Idle \/ KeepsGone(AfterPut(w, id), store', graph', Deleted(u)')
  <2>1. CASE Tail(w.puts) # <<>>
    <3> DEFINE v == [w EXCEPT !.puts = Tail(@)]
    <3>1. v.puts = Tail(w.puts) /\ v.op = w.op /\ v.pc = "put"
      BY <1>1, <1>2 DEF Task
    <3>2. AfterPut(w, id) = v
      BY <2>1 DEF AfterPut
    <3> HIDE DEF v
    <3>3. v.op # "delete"
      BY <1>1, <1>4, <2>1, <3>1 DEF KeepsGone
    <3>4. QED
      BY <1>5, <1>6, <1>7, <3>1, <3>2, <3>3 DEF KeepsGone
  <2>2. CASE Tail(w.puts) = <<>> /\ w.op \in Propagated
    <3> DEFINE v == [w EXCEPT !.puts = <<>>, !.pc = "load", !.id = id]
    <3>1. /\ v.puts = <<>> /\ v.op = w.op /\ v.pc = "load" /\ v.id = id
          /\ v.loaded = w.loaded
      BY <1>2 DEF Task
    <3>2. AfterPut(w, id) = v
      BY <2>2 DEF AfterPut
    <3> HIDE DEF v
    <3>3. w.op = "delete" => Deleting(store'[id])
      BY <1>1, <1>4, <1>8 DEF KeepsGone, put
    <3>4. w.op = "delete" => \A m \in w.loaded : Deleting(m)
      BY <1>4 DEF KeepsGone
    <3>5. QED
      BY <1>6, <1>7, <3>1, <3>2, <3>3, <3>4 DEF KeepsGone
  <2>3. CASE Tail(w.puts) = <<>> /\ w.op \notin Propagated
    BY <2>3 DEF AfterPut
  <2>4. QED
    BY <2>1, <2>2, <2>3
<1>11. QED
  BY <1>6, <1>9, <1>10, StepFinal

\* Nor does a step that loads, copies, embeds, forgets or fails.
LEMMA LoadFinal ==
  ASSUME IInv, Orderly, NEW u, Final(u), NEW t \in Threads, Serves(t, u), Alone(t, u),
         LoadMemory(t)
  PROVE  Final(u)'
<1> DEFINE w == task[t]
           v == [w EXCEPT !.pc = "graph", !.loaded = {store[w.id]}]
<1>1. w.pc = "load" /\ UNCHANGED <<store, graph, embeddings, acknowledged, unsynced>>
  BY DEF LoadMemory
<1>2. task' = [task EXCEPT ![t] = v]
  BY DEF LoadMemory, IInv
<1>3. w \in Task /\ KeepsGone(w, store, graph, Deleted(u))
  BY <1>1, WorkedOn DEF Final
<1> HIDE DEF w
<1>4. /\ v.op = w.op /\ v.id = w.id /\ v.puts = w.puts
      /\ v.loaded = {store[w.id]} /\ v.pc = "graph"
  BY <1>3 DEF Task
<1> HIDE DEF v
<1>5. KeepsGone(v, store, graph, Deleted(u))
  BY <1>1, <1>3, <1>4 DEF KeepsGone
<1>6. QED
  BY <1>1, <1>2, <1>5, StartFinal

\* A copy of the memory the request works on leaves what is gone gone.
LEMMA WithCopyFinal ==
  ASSUME IInv, Orderly, NEW u, Final(u), NEW w, KeepsGone(w, store, graph, Deleted(u)), w.pc = "graph",
         NEW m \in w.loaded, graph' = WithCopy(w.id, m),
         UNCHANGED <<store, embeddings, acknowledged>>
  PROVE  /\ \A id \in Deleted(u) : GoneIn(id, store', graph', embeddings')
         /\ graph'[WrittenGraph][w.id] = m
<1>1. WrittenGraph \in GraphStores /\ DOMAIN graph = GraphStores
  BY WrittenFacts DEF IInv
<1>2. graph'[WrittenGraph] = Put(graph[WrittenGraph], w.id, m)
      /\ \A g \in GraphStores \ {WrittenGraph} : graph'[g] = graph[g]
  BY <1>1 DEF WithCopy
<1>3. graph'[WrittenGraph][w.id] = m
      /\ \A x \in DOMAIN graph'[WrittenGraph] \ {w.id} :
           x \in DOMAIN graph[WrittenGraph]
           /\ graph'[WrittenGraph][x] = graph[WrittenGraph][x]
  BY <1>2 DEF Put
<1>4. w.id \in Deleted(u) => Deleting(m)
  BY DEF KeepsGone
<1>5. ASSUME NEW x \in Deleted(u) PROVE GoneIn(x, store', graph', embeddings')
  <2>1. GoneIn(x, store, graph, embeddings)
    BY DEF Final
  <2>2. ASSUME NEW g \in GraphStores, x \in DOMAIN graph'[g]
        PROVE  Deleting(graph'[g][x])
    <3>1. CASE g # WrittenGraph
      BY <1>2, <2>1, <2>2, <3>1 DEF GoneIn
    <3>2. CASE g = WrittenGraph /\ x = w.id
      BY <1>3, <1>4, <3>2
    <3>3. CASE g = WrittenGraph /\ x # w.id
      BY <1>3, <2>1, <2>2, <3>3 DEF GoneIn
    <3>4. QED
      BY <3>1, <3>2, <3>3
  <2>3. QED
    BY <2>1, <2>2 DEF GoneIn
<1>6. QED
  BY <1>3, <1>5

LEMMA SyncGraphFinal ==
  ASSUME IInv, Orderly, NEW u, Final(u), NEW t \in Threads, Serves(t, u), Alone(t, u),
         SyncGraph(t)
  PROVE  Final(u)'
<1> DEFINE w == task[t]
<1>1. w.pc = "graph" /\ UNCHANGED <<store, embeddings, acknowledged>>
  BY DEF SyncGraph
<1>2. PICK m \in w.loaded :
        /\ graph' = WithCopy(w.id, m)
        /\ \/ task' = [task EXCEPT ![t].pc = "embed"]
           \/ Finish(t)
  BY DEF SyncGraph
<1>3. w \in Task /\ KeepsGone(w, store, graph, Deleted(u))
  BY <1>1, WorkedOn DEF Final
<1>4. /\ \A id \in Deleted(u)' : GoneIn(id, store', graph', embeddings')
      /\ graph'[WrittenGraph][w.id] = m
      /\ Deleted(u)' = Deleted(u)
  BY <1>1, <1>2, <1>3, WithCopyFinal, DeletedStays DEF Step
<1>5. CASE task' = [task EXCEPT ![t].pc = "embed"]
  <2> DEFINE v == [w EXCEPT !.pc = "embed"]
  <2>1. task' = [task EXCEPT ![t] = v]
    BY <1>5 DEF IInv
  <2> HIDE DEF w
  <2>2. /\ v.op = w.op /\ v.id = w.id /\ v.puts = w.puts
        /\ v.loaded = w.loaded /\ v.pc = "embed"
    BY <1>3 DEF Task
  <2> HIDE DEF v
  <2>3. KeepsGone(v, store', graph', Deleted(u)')
    BY <1>1, <1>2, <1>3, <1>4, <2>2 DEF KeepsGone
  <2>4. QED
    BY <1>4, <2>1, <2>3, StepFinal
<1>6. CASE Finish(t)
  <2>1. task' = [task EXCEPT ![t] = Idle]
    BY <1>6 DEF Finish
  <2>2. QED
    BY <1>4, <2>1, StepFinal
<1>7. QED
  BY <1>2, <1>5, <1>6

\* A request that ends and leaves the stores alone.
LEMMA IdleFinal ==
  ASSUME IInv, NEW u, Final(u), NEW t \in Threads, Alone(t, u),
         task' = [task EXCEPT ![t] = Idle],
         UNCHANGED <<store, graph, embeddings, acknowledged>>
  PROVE  Final(u)'
<1>1. UNCHANGED Deleted(u)
  BY DEF Deleted, Of
<1>2. \A id \in Deleted(u)' : GoneIn(id, store', graph', embeddings')
  BY <1>1 DEF Final
<1>3. QED
  BY <1>2, StepFinal

LEMMA GraphFailsFinal ==
  ASSUME IInv, Orderly, NEW u, Final(u), NEW t \in Threads, Serves(t, u), Alone(t, u),
         GraphFails(t)
  PROVE  Final(u)'
<1> DEFINE w == task[t]
<1>1. /\ w.pc = "graph" /\ UNCHANGED <<store, embeddings, acknowledged>>
      /\ task' = [task EXCEPT ![t] = Idle]
  BY DEF GraphFails, Abort
<1>2. PICK m \in w.loaded : graph' = graph \/ graph' = WithCopy(w.id, m)
  BY DEF GraphFails
<1>3. KeepsGone(w, store, graph, Deleted(u))
  BY <1>1, WorkedOn DEF Final
<1>4. CASE graph' = graph
  BY <1>1, <1>4, IdleFinal
<1>5. CASE graph' = WithCopy(w.id, m)
  <2>1. \A id \in Deleted(u) : GoneIn(id, store', graph', embeddings')
    BY <1>1, <1>2, <1>3, <1>5, WithCopyFinal
  <2>2. Deleted(u)' = Deleted(u)
    BY <1>1, DeletedStays DEF Step
  <2>3. QED
    BY <1>1, <2>1, <2>2, StepFinal
<1>6. QED
  BY <1>2, <1>4, <1>5

LEMMA SyncEmbeddingFinal ==
  ASSUME IInv, Orderly, NEW u, Final(u), NEW t \in Threads, Serves(t, u), Alone(t, u),
         SyncEmbedding(t)
  PROVE  Final(u)'
<1> DEFINE w == task[t]
<1>1. /\ w.pc = "embed" /\ w.op # "delete" /\ UNCHANGED <<store, graph, acknowledged>>
      /\ task' = [task EXCEPT ![t] = Idle]
  BY DEF SyncEmbedding, Finish
<1>2. PICK m : embeddings' \in {embeddings, Put(embeddings, w.id, m)}
  BY DEF SyncEmbedding
<1>3. w.id \notin Deleted(u)
  BY <1>1, WorkedOn DEF Final, KeepsGone
<1>4. \A id \in Deleted(u) : id \notin DOMAIN embeddings'
  BY <1>2, <1>3 DEF Put, Final, GoneIn
<1>5. Deleted(u)' = Deleted(u)
  BY <1>1, DeletedStays DEF Step
<1>6. \A id \in Deleted(u)' : GoneIn(id, store', graph', embeddings')
  BY <1>1, <1>4, <1>5 DEF Final, GoneIn
<1>7. QED
  BY <1>1, <1>6, StepFinal

LEMMA ForgetEmbeddingFinal ==
  ASSUME IInv, Orderly, NEW u, Final(u), NEW t \in Threads, Serves(t, u), Alone(t, u),
         ForgetEmbedding(t)
  PROVE  Final(u)'
<1> DEFINE w == task[t]
<1>1. /\ w.pc = "embed" /\ w.op = "delete" /\ UNCHANGED <<store, graph>>
      /\ task' = [task EXCEPT ![t] = Idle]
      /\ acknowledged' = acknowledged \cup {w.id}
      /\ embeddings' = [id \in DOMAIN embeddings \ {w.id} |-> embeddings[id]]
  BY DEF ForgetEmbedding, Finish
<1>2. w.id \in DOMAIN store /\ KeepsGone(w, store, graph, Deleted(u))
  BY <1>1, WorkedOn DEF Final
<1>3. Deleting(store[w.id]) /\ Deleting(graph[WrittenGraph][w.id])
  BY <1>1, <1>2 DEF KeepsGone
<1>4. \A g \in GraphStores : w.id \in DOMAIN graph[g] => Deleting(graph[g][w.id])
  BY <1>3 DEF Orderly, OthersAreEmpty
<1>5. Deleted(u)' \subseteq Deleted(u) \cup {w.id}
  BY <1>1 DEF Deleted, Of
<1>6. \A id \in Deleted(u)' : GoneIn(id, store', graph', embeddings')
  BY <1>1, <1>2, <1>3, <1>4, <1>5 DEF Final, GoneIn
<1>7. QED
  BY <1>1, <1>6, StepFinal

LEMMA EmbeddingFailsFinal ==
  ASSUME IInv, Orderly, NEW u, Final(u), NEW t \in Threads, Serves(t, u), Alone(t, u),
         EmbeddingFails(t)
  PROVE  Final(u)'
<1>1. UNCHANGED <<store, graph, embeddings, acknowledged>>
      /\ task' = [task EXCEPT ![t] = Idle]
  BY DEF EmbeddingFails, Abort
<1>2. QED
  BY <1>1, IdleFinal

\* No step of any request brings back what u deleted, when the requests of u do
\* not overlap.
LEMMA NextFinal ==
  ASSUME NEW u
  PROVE  IInv /\ Orderly /\ Final(u) /\ OneRequestOf(u) /\ [Next]_vars => Final(u)'
<1> SUFFICES ASSUME IInv, Orderly, Final(u), OneRequestOf(u), [Next]_vars PROVE Final(u)'
  OBVIOUS
<1>1. CASE UNCHANGED vars
  BY <1>1 DEF vars, Final, Deleted, Of, Serves, InFlight
<1>2. ASSUME NEW t \in Threads, Decide(t)
      PROVE  Final(u)'
  BY <1>2, DecideFinal
<1>3. ASSUME NEW t \in Threads, Step(t), task[t].by # u
      PROVE  Final(u)'
  BY <1>3, OthersUntouched, UntouchedFinal
<1>4. ASSUME NEW t \in Threads, Step(t), task[t].by = u
      PROVE  Final(u)'
  <2>1. Serves(t, u) /\ Alone(t, u)
    BY <1>4, SameUser, OnlyOne DEF Serves
  <2>2. QED
    BY <1>4, <2>1, StorePutFinal, LoadFinal, SyncGraphFinal, GraphFailsFinal,
       SyncEmbeddingFinal, ForgetEmbeddingFinal, EmbeddingFailsFinal DEF Step
<1>5. QED
  BY <1>1, <1>2, <1>3, <1>4 DEF Next

\* Memory id is deleted, cannot be retrieved and has no embedding.
IsGone(id) ==
  /\ Deleting(store[id])
  /\ \A g \in GraphStores : id \notin Searchable(g)
  /\ id \notin DOMAIN embeddings

\* What is gone can neither be used nor retrieved.
LEMMA GoneIsFinal ==
  ASSUME NEW u, Final(u), NEW id \in Deleted(u)
  PROVE  IsGone(id)
<1>1. GoneIn(id, store, graph, embeddings)
  BY DEF Final
<1>2. \A g \in GraphStores : id \notin Searchable(g)
  BY <1>1 DEF GoneIn, Searchable, Deleting
<1>3. QED
  BY <1>1, <1>2 DEF GoneIn, IsGone

\* A memory of u whose deletion was reported stays gone.
DeletionsAreFinalFor(u) == \A id \in Deleted(u) : IsGone(id)

\* A memory whose deletion was reported to a user whose requests never overlap is
\* never in use again, cannot be retrieved and has no embedding, whatever is
\* requested afterwards, whatever other users do meanwhile, overlapping or not,
\* and whichever store fails.
THEOREM UsersDeletionsAreFinal ==
  ASSUME NEW u
  PROVE  Spec /\ []OneRequestOf(u) => []DeletionsAreFinalFor(u)
<1>1. Init => Orderly /\ Final(u)
  BY InitFinal
<1>2. IInv /\ Orderly /\ [Next]_vars => Orderly'
  BY NextOrderly
<1>3. IInv /\ Orderly /\ Final(u) /\ OneRequestOf(u) /\ [Next]_vars => Final(u)'
  BY NextFinal
<1>4. Final(u) => DeletionsAreFinalFor(u)
  BY GoneIsFinal DEF DeletionsAreFinalFor
<1>5. QED
  BY <1>1, <1>2, <1>3, <1>4, InvariantHolds, PTL DEF Spec

\* Under SerialSpec no user's requests overlap.
LEMMA SerialHolds == SerialSpec => Spec /\ []Serial
<1>1. Init => Serial
  BY DEF Init, Serial, OneRequestOf, Serves, InFlight
<1>2. Serial /\ UNCHANGED vars => Serial'
  BY DEF vars, Serial, OneRequestOf, Serves, InFlight
<1>3. [Next /\ Serial']_vars => [Next]_vars
  OBVIOUS
<1>4. QED
  BY <1>1, <1>2, <1>3, PTL DEF SerialSpec, Spec

\* When no user's requests overlap, every deletion that was reported is final.
THEOREM DeletionIsFinalSerially == SerialSpec => []DeletionIsFinal
<1> DEFINE AllFinal == \A u \in Subjects : Final(u)
<1>1. Init => Orderly /\ AllFinal
  BY InitFinal
<1>2. IInv /\ Orderly /\ [Next]_vars => Orderly'
  BY NextOrderly
<1>3. IInv /\ Orderly /\ AllFinal /\ Serial /\ [Next]_vars => AllFinal'
  BY NextFinal DEF Serial
<1>4. IInv /\ Orderly /\ AllFinal => DeletionIsFinal
  <2> SUFFICES ASSUME IInv, Orderly, AllFinal, NEW id \in acknowledged
               PROVE  IsGone(id)
    BY DEF DeletionIsFinal, IsGone
  <2>1. store[id].subject \in Subjects /\ id \in Deleted(store[id].subject)
    BY DEF Orderly, IInv, StoreOK, MemoryRecord, Deleted, Of
  <2>2. QED
    BY <2>1, GoneIsFinal
<1> HIDE DEF AllFinal
<1>5. QED
  BY <1>1, <1>2, <1>3, <1>4, SerialHolds, InvariantHolds, PTL DEF Spec

------------------------------------------------------------------------------
(* Copies in step, and one memory per fact: the inductive invariant, when      *)
(* only operations that propagate are requested.                               *)

AllPropagated == Operations \subseteq Propagated

\* What InStep says of memory id, of the store s, the written graph g and the
\* embeddings e.
Synced(id, s, g, e) ==
  /\ s[id].status = "active" \/ Deleting(s[id]) => id \in DOMAIN g /\ g[id] = s[id]
  /\ s[id].status = "active" =>
       /\ s[id].embedding_eligible <=> id \in DOMAIN e
       /\ s[id].embedding_eligible => SameContent(e[id], s[id])
  /\ Deleting(s[id]) => id \notin DOMAIN e

\* A memory in use that is not itself a correction.
Stated(m) == m.status = "active" /\ m.correction_of = None

SameFact(m, n) == m.subject = n.subject /\ m.fact = n.fact

\* m is old with more evidence.
Strengthens(m, old) ==
  /\ m.status = "active" /\ old.status = "active"
  /\ SameFact(m, old)
  /\ m.correction_of = old.correction_of
  /\ m.embedding_eligible = old.embedding_eligible

IsNews(m, s) ==
  /\ m.status = "active"
  /\ Stated(m) => \A id \in DOMAIN s : Stated(s[id]) => ~SameFact(m, s[id])

\* The last put of a request: a new memory, which replaces a corrected one if it
\* replaces any; the memory it works on with more evidence; or its deletion.
LastPut(w, put, s) ==
  \/ /\ w.op # "delete"
     /\ put.id = None /\ IsNews(put.memory, s)
     /\ w.id # None => s[w.id].status = "corrected"
  \/ /\ w.op # "delete"
     /\ put.id = w.id /\ w.id \in DOMAIN s
     /\ Strengthens(put.memory, s[w.id])
  \/ /\ w.op = "delete"
     /\ put.id = w.id /\ w.id \in DOMAIN s
     /\ Deleting(put.memory)

\* The two puts of a correction.
Corrects(w, s) ==
  /\ w.op # "delete" /\ w.id \in DOMAIN s
  /\ Head(w.puts).id = w.id /\ Head(w.puts).memory.status = "corrected"
  /\ LET rest == Tail(w.puts) IN
       /\ Tail(rest) = <<>> /\ Head(rest).id = None
       /\ Head(rest).memory.status = "active" /\ ~Stated(Head(rest).memory)

\* A request that will leave the memory it works on in step.
WillBeInStep(w, s, g) ==
  /\ w.pc = "put" =>
       \/ Tail(w.puts) = <<>> /\ LastPut(w, Head(w.puts), s)
       \/ Tail(w.puts) # <<>> /\ Corrects(w, s)
  /\ w.pc # "put" =>
       IF w.op = "delete" THEN Deleting(s[w.id]) ELSE s[w.id].status = "active"
  /\ w.pc \in {"graph", "embed"} => w.loaded \subseteq {s[w.id]}
  /\ w.pc = "embed" => w.id \in DOMAIN g /\ g[w.id] = s[w.id]

\* No memory in use is embedded that may not be.
EmbedsEligible(u, s, e) ==
  \A id \in Of(u, s) \cap DOMAIN e : s[id].status = "active" => s[id].embedding_eligible

\* The user u has no two memories in use of one fact.
FactsOnce(u, s) ==
  \A one, other \in Of(u, s) :
    Stated(s[one]) /\ Stated(s[other]) /\ SameFact(s[one], s[other]) => one = other

Working(u, id) == \E t \in Threads : Serves(t, u) /\ task[t].id = id

Kept(u) ==
  /\ \A id \in Of(u, store) \ unsynced :
       Working(u, id) \/ Synced(id, store, graph[WrittenGraph], embeddings)
  /\ \A t \in Threads : Serves(t, u) => WillBeInStep(task[t], store, graph[WrittenGraph])
  /\ EmbedsEligible(u, store, embeddings)
  /\ FactsOnce(u, store)

\* Nothing is stored at first.
LEMMA InitKept ==
  ASSUME NEW u
  PROVE  Init => Kept(u)
  BY DEF Init, Kept, Nothing, Of, Serves, InFlight, EmbedsEligible, FactsOnce

\* The step of a request that serves u alone.
LEMMA StepKept ==
  ASSUME IInv, NEW u, NEW t \in Threads, Serves(t, u), Alone(t, u), Step(t), NEW w,
         task' = [task EXCEPT ![t] = w],
         w = Idle \/ WillBeInStep(w, store', graph'[WrittenGraph]),
         \A id \in Of(u, store') \ unsynced' :
           \/ w # Idle /\ w.id = id
           \/ Synced(id, store', graph'[WrittenGraph], embeddings'),
         EmbedsEligible(u, store', embeddings'), FactsOnce(u, store')
  PROVE  Kept(u)'
<1>1. task'[t] = w /\ (Serves(t, u)' <=> w # Idle /\ w.by = u)
      /\ \A s \in Threads : Serves(s, u)' => s = t
  BY OthersKeep DEF Alone
<1>2. w = Idle \/ w.by = u
  <2>1. PICK v : /\ task' = [task EXCEPT ![t] = v]
                 /\ v = Idle \/ v.by = task[t].by
    BY SameUser
  <2>2. v = w
    BY <1>1, <2>1, OthersKeep
  <2>3. QED
    BY <2>1, <2>2 DEF Serves
<1>3. \A s \in Threads : Serves(s, u)' =>
        WillBeInStep(task'[s], store', graph'[WrittenGraph])
  BY <1>1
<1>4. \A id \in Of(u, store') \ unsynced' :
        \/ \E s \in Threads : Serves(s, u)' /\ task'[s].id = id
        \/ Synced(id, store', graph'[WrittenGraph], embeddings')
  BY <1>1, <1>2
<1>5. QED
  BY <1>3, <1>4 DEF Kept, Working

\* What is known of the one request that serves u, and of the memories of u it does
\* not work on.
LEMMA OthersInStep ==
  ASSUME NEW u, Kept(u), NEW t \in Threads, Serves(t, u), Alone(t, u)
  PROVE  /\ WillBeInStep(task[t], store, graph[WrittenGraph])
         /\ \A id \in Of(u, store) \ unsynced :
              task[t].id = id \/ Synced(id, store, graph[WrittenGraph], embeddings)
         /\ EmbedsEligible(u, store, embeddings) /\ FactsOnce(u, store)
  BY DEF Kept, Working, Alone

\* A request works on a memory of the user it serves.
LEMMA OwnMemory ==
  ASSUME IInv, NEW u, NEW t \in Threads, Serves(t, u), task[t].id \in DOMAIN store
  PROVE  task[t].id \in Of(u, store)
  BY RequestFacts, NoneIsNoId, WrittenFacts
  DEF Serves, InFlight, RequestOK, MayWrite, Owns, Of

\* A step that does not concern u.
LEMMA UntouchedKept ==
  ASSUME IInv, NEW u, Kept(u), Untouched(u)
  PROVE  Kept(u)'
<1>1. /\ Of(u, store') = Of(u, store)
      /\ \A id \in Of(u, store) : store'[id] = store[id] /\ id \in DOMAIN store'
  BY DEF Untouched, Of
<1>2. WrittenGraph \in GraphStores
  BY WrittenFacts
<1>3. ASSUME NEW id \in Of(u, store') \ unsynced'
      PROVE  \/ \E t \in Threads : Serves(t, u)' /\ task'[t].id = id
             \/ Synced(id, store', graph'[WrittenGraph], embeddings')
  <2>1. id \in Of(u, store) \ unsynced
    BY <1>1 DEF Untouched
  <2>2. CASE Working(u, id)
    BY <2>2 DEF Working, Untouched
  <2>3. CASE Synced(id, store, graph[WrittenGraph], embeddings)
    BY <1>1, <1>2, <2>1, <2>3 DEF Synced, Untouched
  <2>4. QED
    BY <2>1, <2>2, <2>3 DEF Kept
<1>4. ASSUME NEW t \in Threads, Serves(t, u)'
      PROVE  WillBeInStep(task'[t], store', graph'[WrittenGraph])
  <2> DEFINE w == task[t]
             p == Head(w.puts)
  <2>1. Serves(t, u) /\ task'[t] = w
    BY <1>4 DEF Untouched
  <2>2. WillBeInStep(w, store, graph[WrittenGraph]) /\ RequestOK(w, store, Known) /\ w.by = u
    BY <2>1, RequestFacts DEF Kept, Serves, InFlight
  <2>3. w.pc = "put" => p.memory.subject = u
    <3>1. w.pc = "put" => w.puts \in Seq(PendingPut) /\ w.puts # <<>>
      BY <2>2 DEF RequestOK, Task
    <3>2. w.pc = "put" => PutOK(p, u, store)
      BY <2>2, <3>1, HeadAndTail DEF RequestOK
    <3>3. QED
      BY <3>2 DEF PutOK
  <2> HIDE DEF w, p
  <2>4. w.id # None => w.id \in Of(u, store)
    BY <2>2 DEF RequestOK, MayWrite, Owns, Of
  <2>5. /\ w.id # None => store'[w.id] = store[w.id] /\ w.id \in DOMAIN store'
        /\ w.id \in DOMAIN store => w.id # None
        /\ w.pc # "put" => w.id # None
    BY <1>1, <2>2, <2>4, NoneIsNoId, WrittenFacts DEF RequestOK
  <2>6. w.pc = "put" /\ LastPut(w, p, store) => LastPut(w, p, store')
    <3>1. SUFFICES ASSUME w.pc = "put", IsNews(p.memory, store)
                   PROVE  IsNews(p.memory, store')
      BY <2>5 DEF LastPut
    <3>2. ASSUME NEW id \in DOMAIN store', Stated(store'[id]), Stated(p.memory)
          PROVE  ~SameFact(p.memory, store'[id])
      <4>1. CASE id \in Of(u, store')
        BY <1>1, <3>1, <3>2, <4>1 DEF IsNews, Of
      <4>2. CASE id \notin Of(u, store')
        BY <2>3, <3>1, <4>2 DEF SameFact, Of
      <4>3. QED
        BY <4>1, <4>2
    <3>3. QED
      BY <3>1, <3>2 DEF IsNews
  <2>7. Corrects(w, store) => Corrects(w, store')
    BY <2>5 DEF Corrects
  <2>8. w.pc = "embed" /\ w.id \in DOMAIN graph[WrittenGraph] =>
          w.id \in DOMAIN graph'[WrittenGraph]
          /\ graph'[WrittenGraph][w.id] = graph[WrittenGraph][w.id]
    BY <1>2, <2>4, <2>5 DEF Untouched
  <2>9. WillBeInStep(w, store', graph'[WrittenGraph])
    BY <2>2, <2>5, <2>6, <2>7, <2>8 DEF WillBeInStep, p
  <2>10. QED
    BY <2>1, <2>9
<1>5. EmbedsEligible(u, store', embeddings')
  BY <1>1 DEF Kept, EmbedsEligible, Untouched
<1>6. FactsOnce(u, store')
  BY <1>1 DEF Kept, FactsOnce
<1>7. QED
  BY <1>3, <1>4, <1>5, <1>6 DEF Kept, Working

\* A request begins, for u or for another.
LEMMA BeginKept ==
  ASSUME IInv, NEW u, Kept(u), NEW t \in Threads, NEW w,
         task[t] = Idle, task' = [task EXCEPT ![t] = w],
         WillBeInStep(w, store, graph[WrittenGraph]),
         UNCHANGED <<store, graph, embeddings, acknowledged, unsynced>>
  PROVE  Kept(u)'
<1>1. \A s \in Threads : Serves(s, u) => Serves(s, u)' /\ task'[s] = task[s]
  BY OthersKeep DEF Serves, InFlight
<1>2. \A s \in Threads : Serves(s, u)' => WillBeInStep(task'[s], store, graph[WrittenGraph])
  <2> SUFFICES ASSUME NEW s \in Threads, Serves(s, u)'
               PROVE  WillBeInStep(task'[s], store, graph[WrittenGraph])
    OBVIOUS
  <2>1. CASE s = t
    BY <2>1, OthersKeep
  <2>2. CASE s # t
    BY <2>2, OthersKeep DEF Kept
  <2>3. QED
    BY <2>1, <2>2
<1>3. \A id \in Of(u, store') \ unsynced' :
        \/ \E s \in Threads : Serves(s, u)' /\ task'[s].id = id
        \/ Synced(id, store', graph'[WrittenGraph], embeddings')
  BY <1>1 DEF Kept, Working
<1>4. EmbedsEligible(u, store', embeddings') /\ FactsOnce(u, store')
  BY DEF Kept
<1>5. QED
  BY <1>2, <1>3, <1>4 DEF Kept, Working

\* It begins with one put.
LEMMA BeginOneKept ==
  ASSUME IInv, NEW u, Kept(u), NEW t \in Threads, NEW op, NEW by, NEW id, NEW put,
         Begin(t, op, by, id, <<put>>),
         \A w : w.op = op /\ w.id = id => LastPut(w, put, store)
  PROVE  Kept(u)'
<1> DEFINE w == [op |-> op, pc |-> "put", by |-> by, id |-> id,
                 puts |-> <<put>>, loaded |-> {}]
<1>1. /\ task[t] = Idle /\ task' = [task EXCEPT ![t] = w]
      /\ UNCHANGED <<store, graph, embeddings, acknowledged, unsynced>>
  BY DEF Begin
<1>2. /\ w.op = op /\ w.id = id /\ w.pc = "put"
      /\ Tail(w.puts) = <<>> /\ Head(w.puts) = put
  OBVIOUS
<1> HIDE DEF w
<1>3. LastPut(w, put, store)
  BY <1>2
<1>4. WillBeInStep(w, store, graph[WrittenGraph])
  BY <1>2, <1>3 DEF WillBeInStep
<1>5. QED
  BY <1>1, <1>4, BeginKept

\* A set of numbers that is not empty has a smallest.
LEMMA SmallestOf ==
  ASSUME NEW S, S \subseteq Nat, S # {}
  PROVE  \E x \in S : \A y \in S : x <= y
<1> DEFINE R == {p \in Nat \X Nat : p[1] < p[2]}
<1>1. IsWellFoundedOn(R, Nat)
  BY NatLessThanWellFounded, Zenon DEF OpToRel
<1>2. \A x, y \in Nat : <<y, x>> \notin R => x <= y
  OBVIOUS
<1> HIDE DEF R
<1>3. PICK x \in S : \A y \in S : <<y, x>> \notin R
  BY <1>1, WFMin, Zenon
<1>4. \A y \in S : x <= y
  BY <1>2, <1>3
<1>5. QED
  BY <1>4

\* So a write that finds no equivalent memory is of a fact nobody remembers.
LEMMA NoneFoundIsNone ==
  ASSUME IInv, NEW c, FindEquivalent(store, c) = {}
  PROVE  Equivalents(store, c) = {}
<1>1. Equivalents(store, c) \subseteq Nat
  BY MaxMemoriesAssumption DEF Equivalents, IInv, StoreOK, MemoryIds
<1>2. ASSUME Equivalents(store, c) # {} PROVE FALSE
  <2>1. PICK x \in Equivalents(store, c) : \A y \in Equivalents(store, c) : x <= y
    BY <1>1, <1>2, SmallestOf
  <2>2. QED
    BY <2>1 DEF FindEquivalent
<1>3. QED
  BY <1>2

\* Each decision is a plan that leaves its memory in step.
LEMMA DecideWriteKept ==
  ASSUME IInv, NEW u, Kept(u), NEW t \in Threads,
         NEW c \in Candidate, NEW p \in Policies, NEW at \in Times,
         DecideWrite(t, c, p, at)
  PROVE  Kept(u)'
<1>1. ASSUME NEW id \in FindEquivalent(store, c),
             Begin(t, "write", c.subject, id, <<Stored(id, Reinforce(store[id], c))>>)
      PROVE  Kept(u)'
  <2> DEFINE m == Reinforce(store[id], c)
  <2>1. id \in DOMAIN store /\ store[id] \in MemoryRecord /\ store[id].status = "active"
    BY DEF FindEquivalent, Equivalents, IInv, StoreOK
  <2>2. Strengthens(m, store[id])
    BY <2>1 DEF Strengthens, Reinforce, SameFact, MemoryRecord
  <2> HIDE DEF m
  <2>3. \A w : w.op = "write" /\ w.id = id => LastPut(w, Stored(id, m), store)
    BY <2>1, <2>2 DEF LastPut, Stored
  <2>4. QED
    BY <1>1, <2>3, BeginOneKept DEF m
<1>2. ASSUME FindEquivalent(store, c) = {},
             Begin(t, "write", c.subject, None, <<Stored(None, NewRecord(c, p, at))>>)
      PROVE  Kept(u)'
  <2> DEFINE m == NewRecord(c, p, at)
  <2>1. m.status = "active" /\ m.subject = c.subject /\ m.fact = c.fact
    BY DEF NewRecord
  <2> HIDE DEF m
  <2>2. IsNews(m, store)
    BY <1>2, <2>1, NoneFoundIsNone DEF IsNews, Equivalents, Stated, SameFact
  <2>3. \A w : w.op = "write" /\ w.id = None => LastPut(w, Stored(None, m), store)
    BY <2>2 DEF LastPut, Stored
  <2>4. QED
    BY <1>2, <2>3, BeginOneKept DEF m
<1>3. QED
  BY <1>1, <1>2 DEF DecideWrite

LEMMA DecideCorrectKept ==
  ASSUME IInv, NEW u, Kept(u), NEW t \in Threads, NEW target \in MemoryIds,
         NEW c \in Candidate, NEW p \in Policies, NEW at \in Times,
         NEW op, DecideCorrect(t, op, target, c, p, at)
  PROVE  Kept(u)'
<1> DEFINE m == Close(store[target], at, "corrected")
           n == Correction(c, p, at, target)
           w == [op |-> op, pc |-> "put", by |-> c.subject, id |-> target,
                 puts |-> <<Stored(target, m), Stored(None, n)>>, loaded |-> {}]
<1>0. op # "delete"
  BY DEF DecideCorrect
<1>1. /\ task[t] = Idle /\ task' = [task EXCEPT ![t] = w]
      /\ UNCHANGED <<store, graph, embeddings, acknowledged, unsynced>>
  BY DEF DecideCorrect, Begin
<1>2. target \in DOMAIN store /\ store[target] \in MemoryRecord
  BY DEF DecideCorrect, Owns, IInv, StoreOK
<1>3. m.status = "corrected"
  BY <1>2 DEF Close, MemoryRecord
<1>4. n.status = "active" /\ ~Stated(n)
  BY NoneIsNoId DEF Correction, NewRecord, Stated
<1> HIDE DEF m, n
<1>5. /\ w.op # "delete" /\ w.id = target /\ w.pc = "put"
      /\ Head(w.puts) = Stored(target, m) /\ Tail(w.puts) = <<Stored(None, n)>>
  BY <1>0
<1>6. /\ <<Stored(None, n)>> # <<>> /\ Tail(<<Stored(None, n)>>) = <<>>
      /\ Head(<<Stored(None, n)>>) = Stored(None, n)
  OBVIOUS
<1> HIDE DEF w
<1>7. Corrects(w, store)
  <2>1. Head(w.puts).id = w.id /\ Head(w.puts).memory = m
    BY <1>5 DEF Stored
  <2>2. /\ Tail(Tail(w.puts)) = <<>>
        /\ Head(Tail(w.puts)).id = None /\ Head(Tail(w.puts)).memory = n
    <3>1. Tail(Tail(w.puts)) = <<>> /\ Head(Tail(w.puts)) = Stored(None, n)
      BY <1>5, <1>6
    <3>2. Stored(None, n).id = None /\ Stored(None, n).memory = n
      BY DEF Stored
    <3>3. QED
      BY <3>1, <3>2, Zenon
  <2>3. QED
    BY <1>2, <1>3, <1>4, <1>5, <2>1, <2>2 DEF Corrects
<1>8. WillBeInStep(w, store, graph[WrittenGraph])
  BY <1>5, <1>6, <1>7 DEF WillBeInStep
<1>9. QED
  BY <1>1, <1>8, BeginKept

LEMMA DecideDeleteKept ==
  ASSUME IInv, NEW u, Kept(u), NEW t \in Threads, NEW by, NEW id, NEW at,
         DecideDelete(t, by, id, at)
  PROVE  Kept(u)'
<1>1. CASE Deleting(store[id]) /\ Begin(t, "delete", by, id, <<>>)
  <2> DEFINE w == [op |-> "delete", pc |-> "load", by |-> by, id |-> id,
                   puts |-> <<>>, loaded |-> {}]
  <2>1. /\ task[t] = Idle /\ task' = [task EXCEPT ![t] = w]
        /\ UNCHANGED <<store, graph, embeddings, acknowledged, unsynced>>
    BY <1>1 DEF Begin
  <2>2. w.op = "delete" /\ w.pc = "load" /\ w.id = id /\ w.loaded = {}
    OBVIOUS
  <2> HIDE DEF w
  <2>3. WillBeInStep(w, store, graph[WrittenGraph])
    BY <1>1, <2>2 DEF WillBeInStep
  <2>4. QED
    BY <2>1, <2>3, BeginKept
<1>2. CASE /\ store[id].status = "active"
           /\ Begin(t, "delete", by, id,
                    << Stored(id, [Close(store[id], at, "deleted")
                                     EXCEPT !.status = "pending_deletion"]) >>)
  <2> DEFINE m == [Close(store[id], at, "deleted") EXCEPT !.status = "pending_deletion"]
  <2>1. id \in DOMAIN store /\ store[id] \in MemoryRecord
    BY DEF DecideDelete, Owns, IInv, StoreOK
  <2>2. Deleting(m)
    BY <2>1 DEF Close, MemoryRecord, Deleting
  <2> HIDE DEF m
  <2>3. \A w : w.op = "delete" /\ w.id = id => LastPut(w, Stored(id, m), store)
    BY <2>1, <2>2 DEF LastPut, Stored
  <2>4. QED
    BY <1>2, <2>3, BeginOneKept DEF m
<1>3. QED
  BY <1>1, <1>2 DEF DecideDelete

\* The operations that do not propagate are not requested.
LEMMA DecideKept ==
  ASSUME AllPropagated, IInv, NEW u, Kept(u), NEW t \in Threads, Decide(t)
  PROVE  Kept(u)'
<1>1. {"supersede", "expire", "update", "recorrect"} \cap Operations = {}
  BY DEF AllPropagated, Propagated
<1>2. QED
  BY ZenonT(40), <1>1, DecideWriteKept, DecideCorrectKept, DecideDeleteKept
  DEF Decide, DecideSupersede, DecideExpire, DecideUpdate, Begin

\* A new id is no memory's.
LEMMA FreshIsNew ==
  ASSUME IInv, NEW id \in FreshIds(store)
  PROVE  id \notin DOMAIN store /\ id # None
  BY NoneIsNoId, MaxMemoriesAssumption DEF FreshIds, MemoryIds

\* The first put of a correction.
LEMMA FirstPutKept ==
  ASSUME IInv, NEW u, Kept(u), NEW t \in Threads, Serves(t, u), Alone(t, u),
         StorePut(t), Tail(task[t].puts) # <<>>
  PROVE  Kept(u)'
<1> DEFINE w == task[t]
           p == Head(w.puts)
           q == Head(Tail(w.puts))
           v == [w EXCEPT !.puts = Tail(@)]
<1>1. w.pc = "put" /\ w # Idle /\ UNCHANGED <<graph, embeddings, acknowledged, unsynced>>
  BY DEF StorePut, Idle
<1>2. w \in Task
  BY <1>1, RequestFacts
<1>3. Corrects(w, store)
  BY <1>1, OthersInStep DEF WillBeInStep
<1>4. /\ p.id = w.id /\ w.id \in DOMAIN store /\ p.memory.status = "corrected"
      /\ w.op # "delete" /\ Tail(Tail(w.puts)) = <<>> /\ q.id = None
      /\ q.memory.status = "active" /\ ~Stated(q.memory)
  BY <1>3 DEF Corrects
<1>5. w.id # None
  BY <1>4, NoneIsNoId, WrittenFacts
<1>6. store' = Put(store, w.id, p.memory) /\ task' = [task EXCEPT ![t] = v]
  BY <1>4, <1>5 DEF StorePut, AfterPut
<1>7. /\ v.op = w.op /\ v.pc = "put" /\ v.id = w.id /\ v.puts = Tail(w.puts)
      /\ v # Idle
  BY <1>1, <1>2 DEF Task, Idle
<1> HIDE DEF v, p, q
<1>8. /\ DOMAIN store' = DOMAIN store \cup {w.id} /\ store'[w.id] = p.memory
      /\ \A x \in DOMAIN store \ {w.id} : store'[x] = store[x]
  BY <1>6 DEF Put
<1>9. LastPut(v, q, store')
  BY <1>4, <1>7, <1>8 DEF LastPut, IsNews
<1>10. WillBeInStep(v, store', graph'[WrittenGraph])
  BY <1>4, <1>7, <1>9 DEF WillBeInStep, q
<1>11. \A x \in Of(u, store') : x # w.id => x \in Of(u, store) /\ store'[x] = store[x]
  BY <1>8 DEF Of
<1>12. ASSUME NEW id \in Of(u, store') \ unsynced', id # w.id
       PROVE  Synced(id, store', graph'[WrittenGraph], embeddings')
  <2>1. Synced(id, store, graph[WrittenGraph], embeddings)
    BY <1>1, <1>11, <1>12, OthersInStep
  <2>2. QED
    BY <1>1, <1>11, <1>12, <2>1 DEF Synced
<1>13. EmbedsEligible(u, store', embeddings')
  BY <1>1, <1>4, <1>8, <1>11, OthersInStep DEF EmbedsEligible
<1>14. FactsOnce(u, store')
  BY <1>4, <1>8, <1>11, OthersInStep DEF FactsOnce, Stated
<1>15. QED
  BY <1>6, <1>7, <1>10, <1>12, <1>13, <1>14, StepKept DEF Step

\* The last put of a request.
LEMMA LastPutKept ==
  ASSUME AllPropagated, IInv, NEW u, Kept(u), NEW t \in Threads, Serves(t, u), Alone(t, u),
         StorePut(t),
         Tail(task[t].puts) = <<>>
  PROVE  Kept(u)'
<1> DEFINE w == task[t]
           p == Head(w.puts)
           m == p.memory
<1>1. w.pc = "put" /\ w # Idle /\ UNCHANGED <<graph, embeddings, acknowledged, unsynced>>
  BY DEF StorePut, Idle
<1>2. RequestOK(w, store, Known) /\ w \in Task
  BY <1>1, RequestFacts
<1>3. LastPut(w, p, store)
  BY <1>1, OthersInStep DEF WillBeInStep
<1>4. PICK id \in IF p.id = None THEN FreshIds(store) ELSE {p.id} :
        /\ store' = Put(store, id, m)
        /\ task' = [task EXCEPT ![t] = AfterPut(w, id)]
  BY DEF StorePut
<1> DEFINE v == [w EXCEPT !.puts = <<>>, !.pc = "load", !.id = id]
<1>5. AfterPut(w, id) = v
  BY <1>2 DEF AfterPut, AllPropagated, Task
<1>6. /\ v.op = w.op /\ v.pc = "load" /\ v.id = id /\ v.puts = <<>> /\ v # Idle
  BY <1>2 DEF Task, Idle
<1> HIDE DEF v, p, m, w
<1>7. /\ DOMAIN store' = DOMAIN store \cup {id} /\ store'[id] = m
      /\ \A x \in DOMAIN store \ {id} : store'[x] = store[x]
  BY <1>4 DEF Put
<1>8. p.id = None => id \notin DOMAIN store
  BY <1>4, FreshIsNew
<1>9. \A x \in Of(u, store') : x # id => x \in Of(u, store) /\ store'[x] = store[x]
  BY <1>7 DEF Of
<1>10. \A x \in Of(u, store) : x \in DOMAIN store /\ x # None
  BY NoneIsNoId, WrittenFacts DEF Of
<1>11. w.id # None /\ w.id \in DOMAIN store => w.id \in Of(u, store)
  BY OwnMemory DEF w
<1>12. IF w.op = "delete" THEN Deleting(m) ELSE m.status = "active"
  BY <1>3 DEF LastPut, IsNews, Strengthens, m
<1>13. WillBeInStep(v, store', graph'[WrittenGraph])
  BY <1>6, <1>7, <1>12 DEF WillBeInStep
<1>14. ASSUME NEW x \in Of(u, store') \ unsynced', x # id
       PROVE  Synced(x, store', graph'[WrittenGraph], embeddings')
  <2>1. x \in Of(u, store) \ unsynced /\ store'[x] = store[x]
    BY <1>1, <1>14, <1>9
  <2>2. CASE w.id = x
    <3>1. x # None
      BY <1>10, <2>1
    <3>2. p.id = None
      BY <1>3, <1>4, <1>14, <2>2 DEF LastPut
    <3>3. store[x].status = "corrected"
      BY <1>3, <2>1, <2>2, <3>1, <3>2 DEF LastPut
    <3>4. QED
      BY <2>1, <3>3 DEF Synced, Deleting
  <2>3. CASE w.id # x
    <3>1. Synced(x, store, graph[WrittenGraph], embeddings)
      BY <2>1, <2>3, OthersInStep DEF w
    <3>2. QED
      BY <1>1, <2>1, <3>1 DEF Synced
  <2>4. QED
    BY <2>2, <2>3
<1>15. EmbedsEligible(u, store', embeddings')
  <2>2. EmbedsEligible(u, store, embeddings)
    BY OthersInStep
  <2>3. ASSUME NEW x \in Of(u, store') \cap DOMAIN embeddings', store'[x].status = "active"
        PROVE  store'[x].embedding_eligible
    <3>1. x \in DOMAIN store' \cap DOMAIN embeddings /\ x \in DOMAIN store
      BY <1>1, WrittenFacts DEF IInv, EmbeddingsOK, Of
    <3>2. CASE x # id
      BY <1>9, <2>2, <2>3, <3>1, <3>2 DEF EmbedsEligible
    <3>3. CASE x = id
      <4>1. p.id # None /\ m.status = "active"
        BY <1>7, <1>8, <2>3, <3>1, <3>3
      <4>2. Strengthens(m, store[w.id]) /\ w.id = id
        BY <1>3, <1>4, <4>1 DEF LastPut, Deleting, m
      <4>3. id \in Of(u, store) \cap DOMAIN embeddings
        BY <1>10, <1>11, <3>1, <3>3, <4>2, NoneIsNoId, WrittenFacts
      <4>4. QED
        BY <1>7, <2>2, <3>3, <4>2, <4>3 DEF EmbedsEligible, Strengthens
    <3>4. QED
      BY <3>2, <3>3
  <2>4. QED
    BY <2>3 DEF EmbedsEligible
<1>16. FactsOnce(u, store')
  <2>1. FactsOnce(u, store)
    BY OthersInStep
  <2>2. ASSUME NEW x \in Of(u, store), x # id,
               Stated(m), Stated(store[x]), SameFact(m, store[x])
        PROVE  FALSE
    <3>1. CASE IsNews(m, store)
      BY <1>10, <2>2, <3>1 DEF IsNews
    <3>2. CASE Strengthens(m, store[w.id]) /\ w.id = id /\ w.id \in DOMAIN store
      <4>1. Stated(store[id]) /\ SameFact(store[id], store[x])
        BY <2>2, <3>2 DEF Strengthens, Stated, SameFact
      <4>2. id \in Of(u, store)
        BY <1>11, <3>2, NoneIsNoId, WrittenFacts
      <4>3. QED
        BY <2>1, <2>2, <4>1, <4>2 DEF FactsOnce
    <3>3. CASE Deleting(m)
      BY <2>2, <3>3 DEF Deleting, Stated
    <3>4. p.id = w.id /\ w.id \in DOMAIN store => w.id = id
      BY <1>4, NoneIsNoId, WrittenFacts
    <3>5. QED
      BY <1>3, <3>1, <3>2, <3>3, <3>4 DEF LastPut, m
  <2>3. ASSUME NEW one \in Of(u, store'), NEW other \in Of(u, store'), one # other,
               Stated(store'[one]), Stated(store'[other]),
               SameFact(store'[one], store'[other])
        PROVE  FALSE
    <3>1. SameFact(store'[other], store'[one])
      BY <2>3 DEF SameFact
    <3>2. CASE one = id
      BY <1>7, <1>9, <2>2, <2>3, <3>2
    <3>3. CASE other = id
      BY <1>7, <1>9, <2>2, <2>3, <3>1, <3>3
    <3>4. CASE one # id /\ other # id
      BY <1>9, <2>1, <2>3, <3>4 DEF FactsOnce
    <3>5. QED
      BY <3>2, <3>3, <3>4
  <2>4. QED
    BY <2>3 DEF FactsOnce
<1>17. QED
  BY <1>4, <1>5, <1>6, <1>13, <1>14, <1>15, <1>16, StepKept DEF Step

\* Loading reads what the store holds.
LEMMA LoadKept ==
  ASSUME IInv, NEW u, Kept(u), NEW t \in Threads, Serves(t, u), Alone(t, u),
         LoadMemory(t)
  PROVE  Kept(u)'
<1> DEFINE w == task[t]
           v == [w EXCEPT !.pc = "graph", !.loaded = {store[w.id]}]
<1>1. w.pc = "load" /\ UNCHANGED <<store, graph, embeddings, acknowledged, unsynced>>
  BY DEF LoadMemory
<1>2. task' = [task EXCEPT ![t] = v]
  BY DEF LoadMemory, IInv
<1>3. w # Idle /\ w \in Task
  BY <1>1, WorkedOn
<1>4. WillBeInStep(w, store, graph[WrittenGraph])
  BY <1>3, OthersInStep
<1>5. \A id \in Of(u, store) \ unsynced :
        w.id = id \/ Synced(id, store, graph[WrittenGraph], embeddings)
  BY OthersInStep
<1> HIDE DEF w
<1>6. /\ v.op = w.op /\ v.id = w.id /\ v.loaded = {store[w.id]} /\ v.pc = "graph"
      /\ v # Idle
  BY <1>3 DEF Task, Idle
<1> HIDE DEF v
<1>7. WillBeInStep(v, store, graph[WrittenGraph])
  BY <1>1, <1>4, <1>6 DEF WillBeInStep
<1>8. QED
  BY <1>1, <1>2, <1>5, <1>6, <1>7, OthersInStep, StepKept DEF Step

\* The copy after WithCopy: the written graph shows what the request has loaded.
LEMMA WithCopyShows ==
  ASSUME IInv, NEW id, NEW m, graph' = WithCopy(id, m)
  PROVE  /\ id \in DOMAIN graph'[WrittenGraph] /\ graph'[WrittenGraph][id] = m
         /\ \A x : x # id => /\ x \in DOMAIN graph'[WrittenGraph] <=> x \in DOMAIN graph[WrittenGraph]
                             /\ x \in DOMAIN graph[WrittenGraph] =>
                                  graph'[WrittenGraph][x] = graph[WrittenGraph][x]
<1>1. graph'[WrittenGraph] = Put(graph[WrittenGraph], id, m)
  BY WrittenFacts DEF WithCopy, IInv
<1>2. QED
  BY <1>1 DEF Put

\* Whatever the graph does with memory id, the others are as much in step as before.
LEMMA OthersStay ==
  ASSUME IInv, NEW u, Kept(u), NEW t \in Threads, Serves(t, u), Alone(t, u),
         task[t] # Idle,
         NEW m, graph' = graph \/ graph' = WithCopy(task[t].id, m),
         UNCHANGED <<store, embeddings>>
  PROVE  /\ \A x \in Of(u, store) \ unsynced :
              x # task[t].id => Synced(x, store', graph'[WrittenGraph], embeddings')
         /\ EmbedsEligible(u, store', embeddings') /\ FactsOnce(u, store')
<1>1. ASSUME NEW x \in Of(u, store) \ unsynced, x # task[t].id
      PROVE  Synced(x, store', graph'[WrittenGraph], embeddings')
  <2>1. Synced(x, store, graph[WrittenGraph], embeddings)
    BY <1>1, OthersInStep
  <2>2. x \in DOMAIN graph[WrittenGraph] =>
          x \in DOMAIN graph'[WrittenGraph]
          /\ graph'[WrittenGraph][x] = graph[WrittenGraph][x]
    BY <1>1, WithCopyShows
  <2>3. QED
    BY <2>1, <2>2 DEF Synced
<1>2. QED
  BY <1>1, OthersInStep

\* A step that fails leaves its memory out of step, and known to be.
LEMMA AbortKept ==
  ASSUME IInv, NEW u, Kept(u), NEW t \in Threads, Serves(t, u), Alone(t, u),
         Step(t), task[t] # Idle, Abort(t),
         NEW m, graph' = graph \/ graph' = WithCopy(task[t].id, m),
         UNCHANGED <<store, embeddings>>
  PROVE  Kept(u)'
<1>1. task' = [task EXCEPT ![t] = Idle] /\ unsynced' = unsynced \cup {task[t].id}
  BY DEF Abort
<1>2. \A x \in Of(u, store') \ unsynced' :
        Synced(x, store', graph'[WrittenGraph], embeddings')
  BY <1>1, OthersStay
<1>3. EmbedsEligible(u, store', embeddings') /\ FactsOnce(u, store')
  BY OthersStay
<1>4. QED
  BY <1>1, <1>2, <1>3, StepKept

\* The two failures are such steps.
LEMMA FailsKept ==
  ASSUME IInv, NEW u, Kept(u), NEW t \in Threads, Serves(t, u), Alone(t, u),
         GraphFails(t) \/ EmbeddingFails(t)
  PROVE  Kept(u)'
<1>1. Step(t) /\ task[t] # Idle /\ Abort(t) /\ UNCHANGED <<store, embeddings>>
  BY DEF GraphFails, EmbeddingFails, Idle, Step
<1>2. \E m : graph' = graph \/ graph' = WithCopy(task[t].id, m)
  BY DEF GraphFails, EmbeddingFails
<1>3. QED
  BY <1>1, <1>2, AbortKept

\* Writing the graph copy: a memory that may not be embedded is then in step.
LEMMA SyncGraphKept ==
  ASSUME IInv, NEW u, Kept(u), NEW t \in Threads, Serves(t, u), Alone(t, u),
         SyncGraph(t)
  PROVE  Kept(u)'
<1> DEFINE w == task[t]
<1>1. w.pc = "graph" /\ w # Idle /\ UNCHANGED <<store, embeddings, acknowledged>>
  BY DEF SyncGraph, Idle
<1>2. PICK m \in w.loaded :
        /\ graph' = WithCopy(w.id, m)
        /\ \/ task' = [task EXCEPT ![t].pc = "embed"] /\ UNCHANGED unsynced
           \/ w.op # "delete" /\ ~m.embedding_eligible /\ Finish(t)
  BY DEF SyncGraph
<1>3. w \in Task /\ w.id \in DOMAIN store /\ WillBeInStep(w, store, graph[WrittenGraph])
  BY <1>1, WorkedOn, OthersInStep
<1>4. m = store[w.id]
  BY <1>1, <1>2, <1>3 DEF WillBeInStep
<1>5. w.id \in DOMAIN graph'[WrittenGraph] /\ graph'[WrittenGraph][w.id] = store[w.id]
  BY <1>2, <1>4, WithCopyShows
<1>6. /\ \A x \in Of(u, store) \ unsynced :
           x # w.id => Synced(x, store', graph'[WrittenGraph], embeddings')
      /\ EmbedsEligible(u, store', embeddings') /\ FactsOnce(u, store')
  BY <1>1, <1>2, OthersStay
<1>7. CASE task' = [task EXCEPT ![t].pc = "embed"] /\ UNCHANGED unsynced
  <2> DEFINE v == [w EXCEPT !.pc = "embed"]
  <2>1. task' = [task EXCEPT ![t] = v]
    BY <1>7 DEF IInv
  <2> HIDE DEF w
  <2>2. /\ v.op = w.op /\ v.id = w.id /\ v.loaded = w.loaded /\ v.pc = "embed"
        /\ v # Idle
    BY <1>3 DEF Task, Idle
  <2> HIDE DEF v
  <2>3. WillBeInStep(v, store', graph'[WrittenGraph])
    BY <1>1, <1>3, <1>5, <2>2 DEF WillBeInStep
  <2>4. QED
    BY ZenonT(40), <1>1, <1>6, <1>7, <2>1, <2>2, <2>3, StepKept DEF Step
<1>8. CASE w.op # "delete" /\ ~m.embedding_eligible /\ Finish(t)
  <2>1. task' = [task EXCEPT ![t] = Idle] /\ unsynced' = unsynced \ {w.id}
    BY <1>8 DEF Finish
  <2>2. store[w.id].status = "active" /\ ~store[w.id].embedding_eligible
    BY <1>1, <1>3, <1>4, <1>8 DEF WillBeInStep
  <2>3. w.id \notin DOMAIN embeddings
    <3>1. w.id \in Of(u, store)
      BY <1>1, <1>3, OwnMemory
    <3>2. QED
      BY <1>1, <1>6, <2>2, <3>1 DEF EmbedsEligible
  <2>4. Synced(w.id, store', graph'[WrittenGraph], embeddings')
    BY <1>1, <1>5, <2>2, <2>3 DEF Synced, Deleting
  <2>5. \A x \in Of(u, store') \ unsynced' :
          Synced(x, store', graph'[WrittenGraph], embeddings')
    BY <1>1, <1>6, <2>1, <2>4
  <2>6. QED
    BY <1>6, <2>1, <2>5, StepKept DEF Step
<1>9. QED
  BY <1>2, <1>7, <1>8

\* The memory is in step once its embedding is written.
LEMMA SyncEmbeddingKept ==
  ASSUME IInv, NEW u, Kept(u), NEW t \in Threads, Serves(t, u), Alone(t, u),
         SyncEmbedding(t)
  PROVE  Kept(u)'
<1> DEFINE w == task[t]
<1>1. /\ w.pc = "embed" /\ w.op # "delete" /\ w # Idle
      /\ UNCHANGED <<store, graph, acknowledged>>
      /\ task' = [task EXCEPT ![t] = Idle] /\ unsynced' = unsynced \ {w.id}
  BY DEF SyncEmbedding, Finish, Idle
<1>2. PICK m \in w.loaded :
        embeddings' = IF IsCurrent(w.id, m) THEN embeddings
                      ELSE Put(embeddings, w.id, EmbeddingOf(m))
  BY DEF SyncEmbedding
<1>3. /\ RequestOK(w, store, Known) /\ w.id \in DOMAIN store
      /\ WillBeInStep(w, store, graph[WrittenGraph])
  BY <1>1, WorkedOn, OthersInStep
<1>4. /\ m = store[w.id] /\ m.status = "active" /\ m.embedding_eligible
      /\ w.id \in DOMAIN graph[WrittenGraph] /\ graph[WrittenGraph][w.id] = m
  BY <1>1, <1>2, <1>3 DEF WillBeInStep, RequestOK
<1> HIDE DEF w
<1>5. /\ DOMAIN embeddings' = DOMAIN embeddings \cup {w.id}
      /\ SameContent(embeddings'[w.id], m)
      /\ \A x \in DOMAIN embeddings \ {w.id} : embeddings'[x] = embeddings[x]
  <2>1. CASE IsCurrent(w.id, m)
    BY <1>2, <2>1 DEF IsCurrent
  <2>2. CASE ~IsCurrent(w.id, m)
    <3>1. embeddings' = Put(embeddings, w.id, EmbeddingOf(m))
      BY <1>2, <2>2
    <3>2. SameContent(EmbeddingOf(m), m)
      BY DEF SameContent, EmbeddingOf
    <3>3. QED
      BY <3>1, <3>2 DEF Put
  <2>3. QED
    BY <2>1, <2>2
<1>6. Synced(w.id, store, graph[WrittenGraph], embeddings')
  BY <1>4, <1>5 DEF Synced, Deleting
<1>7. ASSUME NEW x \in Of(u, store) \ unsynced', x # w.id
      PROVE  Synced(x, store, graph[WrittenGraph], embeddings')
  <2>1. Synced(x, store, graph[WrittenGraph], embeddings)
    BY <1>1, <1>7, OthersInStep DEF w
  <2>2. QED
    BY <1>5, <1>7, <2>1 DEF Synced
<1>8. EmbedsEligible(u, store, embeddings')
  BY <1>4, <1>5, OthersInStep DEF EmbedsEligible
<1>9. QED
  BY <1>1, <1>6, <1>7, <1>8, OthersInStep, StepKept DEF Step

\* It is in step once the embedding of a deleted memory is gone.
LEMMA ForgetEmbeddingKept ==
  ASSUME IInv, NEW u, Kept(u), NEW t \in Threads, Serves(t, u), Alone(t, u),
         ForgetEmbedding(t)
  PROVE  Kept(u)'
<1> DEFINE w == task[t]
<1>1. /\ w.pc = "embed" /\ w.op = "delete" /\ w # Idle /\ UNCHANGED <<store, graph>>
      /\ task' = [task EXCEPT ![t] = Idle] /\ unsynced' = unsynced \ {w.id}
      /\ embeddings' = [id \in DOMAIN embeddings \ {w.id} |-> embeddings[id]]
  BY DEF ForgetEmbedding, Finish, Idle
<1>2. w.id \in DOMAIN store /\ WillBeInStep(w, store, graph[WrittenGraph])
  BY <1>1, WorkedOn, OthersInStep
<1>3. /\ Deleting(store[w.id]) /\ w.id \in DOMAIN graph[WrittenGraph]
      /\ graph[WrittenGraph][w.id] = store[w.id]
  BY <1>1, <1>2 DEF WillBeInStep
<1> HIDE DEF w
<1>4. Synced(w.id, store, graph[WrittenGraph], embeddings')
  BY <1>1, <1>3 DEF Synced, Deleting
<1>5. ASSUME NEW x \in Of(u, store) \ unsynced', x # w.id
      PROVE  Synced(x, store, graph[WrittenGraph], embeddings')
  <2>1. Synced(x, store, graph[WrittenGraph], embeddings)
    BY <1>1, <1>5, OthersInStep DEF w
  <2>2. QED
    BY <1>1, <1>5, <2>1 DEF Synced
<1>6. EmbedsEligible(u, store, embeddings')
  BY <1>1, OthersInStep DEF EmbedsEligible
<1>7. QED
  BY <1>1, <1>4, <1>5, <1>6, OthersInStep, StepKept DEF Step

\* Every step of any request keeps the copies of the memories of u that nobody
\* works on in step, when the requests of u do not overlap.
LEMMA NextKept ==
  ASSUME AllPropagated, NEW u
  PROVE  IInv /\ Kept(u) /\ OneRequestOf(u) /\ [Next]_vars => Kept(u)'
<1> SUFFICES ASSUME IInv, Kept(u), OneRequestOf(u), [Next]_vars PROVE Kept(u)'
  OBVIOUS
<1>1. CASE UNCHANGED vars
  BY <1>1 DEF vars, Kept, Working, Serves, InFlight
<1>2. ASSUME NEW t \in Threads, Decide(t)
      PROVE  Kept(u)'
  BY <1>2, DecideKept
<1>3. ASSUME NEW t \in Threads, Step(t), task[t].by # u
      PROVE  Kept(u)'
  BY <1>3, OthersUntouched, UntouchedKept
<1>4. ASSUME NEW t \in Threads, Step(t), task[t].by = u
      PROVE  Kept(u)'
  <2>1. Serves(t, u) /\ Alone(t, u)
    BY <1>4, SameUser, OnlyOne DEF Serves
  <2>2. QED
    BY <1>4, <2>1, FirstPutKept, LastPutKept, LoadKept, SyncGraphKept, FailsKept,
       SyncEmbeddingKept, ForgetEmbeddingKept DEF Step
<1>5. QED
  BY <1>1, <1>2, <1>3, <1>4 DEF Next

\* Between the requests of u the copies of the memories of u are in step.
CopiesAreInStepFor(u) ==
  (\A t \in Threads : ~Serves(t, u)) => \A id \in Of(u, store) \ unsynced : InStep(id)

LEMMA KeptMeans ==
  ASSUME NEW u, Kept(u)
  PROVE  CopiesAreInStepFor(u) /\ FactsOnce(u, store)
  BY DEF Kept, CopiesAreInStepFor, Working, Synced, InStep

\* If nothing is requested but what propagates, then between the requests of a user
\* whose requests never overlap the copies of each of the user's memories whose
\* last request did not fail show what the store holds, whatever other users do
\* and whatever failed before: the next request that succeeds repairs them.
THEOREM UsersCopiesStayInStep ==
  ASSUME AllPropagated, NEW u
  PROVE  Spec /\ []OneRequestOf(u) => []CopiesAreInStepFor(u)
<1>1. Init => Kept(u)
  BY InitKept
<1>2. IInv /\ Kept(u) /\ OneRequestOf(u) /\ [Next]_vars => Kept(u)'
  BY NextKept
<1>3. Kept(u) => CopiesAreInStepFor(u)
  BY KeptMeans
<1>4. QED
  BY <1>1, <1>2, <1>3, InvariantHolds, PTL DEF Spec

\* Under the same conditions a fact that user states again never becomes a second
\* memory in use, however many writes, corrections and deletions lie between.
THEOREM UsersFactsAreKeptOnce ==
  ASSUME AllPropagated, NEW u
  PROVE  Spec /\ []OneRequestOf(u) => []FactsOnce(u, store)
<1>1. Init => Kept(u)
  BY InitKept
<1>2. IInv /\ Kept(u) /\ OneRequestOf(u) /\ [Next]_vars => Kept(u)'
  BY NextKept
<1>3. Kept(u) => FactsOnce(u, store)
  BY KeptMeans
<1>4. QED
  BY <1>1, <1>2, <1>3, InvariantHolds, PTL DEF Spec

AllKept == \A u \in Subjects : Kept(u)

LEMMA SerialKept ==
  ASSUME AllPropagated
  PROVE  SerialSpec => []AllKept
<1>1. Init => AllKept
  BY InitKept DEF AllKept
<1>2. IInv /\ AllKept /\ Serial /\ [Next]_vars => AllKept'
  BY NextKept DEF Serial, AllKept
<1>3. QED
  BY <1>1, <1>2, SerialHolds, InvariantHolds, PTL DEF Spec

\* When no user's requests overlap and nothing is requested but what propagates, the
\* copies of every memory nobody works for are in step unless its last request
\* failed.
THEOREM CopiesStayInStep ==
  ASSUME AllPropagated
  PROVE  SerialSpec => []CopiesAreInStep
<1>1. IInv /\ AllKept => CopiesAreInStep
  <2> SUFFICES ASSUME IInv, AllKept, NEW id \in DOMAIN store \ unsynced,
                      \A t \in Threads : ~Serves(t, store[id].subject)
               PROVE  InStep(id)
    BY DEF CopiesAreInStep
  <2>1. store[id].subject \in Subjects /\ id \in Of(store[id].subject, store)
    BY DEF IInv, StoreOK, MemoryRecord, Of
  <2>2. CopiesAreInStepFor(store[id].subject)
    BY <2>1, KeptMeans DEF AllKept
  <2>3. QED
    BY <2>1, <2>2 DEF CopiesAreInStepFor
<1>2. QED
  BY <1>1, SerialKept, SerialHolds, InvariantHolds, PTL

\* Under the same conditions no fact a user states again becomes a second memory in
\* use.
THEOREM FactsAreKeptOnce ==
  ASSUME AllPropagated
  PROVE  SerialSpec => []OneMemoryPerFact
<1>1. IInv /\ AllKept => OneMemoryPerFact
  <2> SUFFICES ASSUME IInv, AllKept, NEW one \in DOMAIN store, NEW other \in DOMAIN store,
                      Stated(store[one]), Stated(store[other]),
                      SameFact(store[one], store[other])
               PROVE  one = other
    BY DEF OneMemoryPerFact, Stated, SameFact
  <2> DEFINE u == store[one].subject
  <2>1. u \in Subjects /\ {one, other} \subseteq Of(u, store)
    BY DEF IInv, StoreOK, MemoryRecord, Of, SameFact
  <2>2. FactsOnce(u, store)
    BY <2>1, KeptMeans DEF AllKept
  <2>3. QED
    BY <2>1, <2>2 DEF FactsOnce
<1>2. QED
  BY <1>1, SerialKept, SerialHolds, InvariantHolds, PTL

------------------------------------------------------------------------------
(* The life of a memory: what the puts of requests that do not overlap do to   *)
(* it, for all the operations there are.                                       *)

Closed(m) == m.status \in {"superseded", "corrected", "expired"}

\* A version m that may follow the version old of a memory: it rests on the
\* evidence of old, and is in use or closed only if old was.
Succeeds(m, old) ==
  /\ old.sources \subseteq m.sources
  /\ old.status = "active" \/ (Closed(old) /\ Closed(m))

\* A put that has been planned: a new memory, or the next version of one.
Planned(put, s) ==
  IF put.id = None THEN put.memory.status = "active"
  ELSE put.id \in DOMAIN s /\ Succeeds(put.memory, s[put.id])

\* After its first put a request puts only new memories.
PlansWell(w, s) ==
  /\ \A i \in DOMAIN w.puts : Planned(w.puts[i], s)
  /\ \A i \in DOMAIN w.puts : i # 1 => w.puts[i].id = None

Plans(u) == \A t \in Threads : Serves(t, u) => PlansWell(task[t], store)

\* Nothing is planned at first.
LEMMA InitPlans ==
  ASSUME NEW u
  PROVE  Init => Plans(u)
  BY DEF Init, Plans, Serves, InFlight

\* The step of a request that serves u alone.
LEMMA StepPlans ==
  ASSUME IInv, NEW u, NEW t \in Threads, Alone(t, u), NEW w,
         task' = [task EXCEPT ![t] = w],
         w = Idle \/ PlansWell(w, store')
  PROVE  Plans(u)'
<1>1. task'[t] = w /\ \A s \in Threads : Serves(s, u)' => s = t
  BY OthersKeep DEF Alone
<1>2. \A s \in Threads : Serves(s, u)' => task'[s] # Idle
  BY DEF Serves, InFlight
<1>3. QED
  BY <1>1, <1>2 DEF Plans

\* A step that does not concern u: what is planned for u writes memories of u.
LEMMA UntouchedPlans ==
  ASSUME IInv, NEW u, Plans(u), Untouched(u)
  PROVE  Plans(u)'
<1>1. \A id \in Of(u, store) : store'[id] = store[id] /\ id \in DOMAIN store'
  BY DEF Untouched, Of
<1>2. SUFFICES ASSUME NEW t \in Threads, Serves(t, u)'
               PROVE  PlansWell(task'[t], store')
  BY DEF Plans
<1> DEFINE w == task[t]
<1>3. Serves(t, u) /\ task'[t] = w
  BY <1>2 DEF Untouched
<1>4. PlansWell(w, store) /\ RequestOK(w, store, Known) /\ w.by = u
  BY <1>3, RequestFacts DEF Plans, Serves, InFlight
<1> HIDE DEF w
<1>5. ASSUME NEW i \in DOMAIN w.puts
      PROVE  Planned(w.puts[i], store')
  <2>1. Planned(w.puts[i], store) /\ PutOK(w.puts[i], u, store)
    BY <1>4 DEF PlansWell, RequestOK
  <2>2. w.puts[i].id # None => w.puts[i].id \in Of(u, store)
    BY <2>1 DEF PutOK, MayWrite, Owns, Of
  <2>3. QED
    BY <1>1, <2>1, <2>2 DEF Planned
<1>6. QED
  BY <1>3, <1>4, <1>5 DEF PlansWell

\* A request begins, for u or for another.
LEMMA BeginPlans ==
  ASSUME IInv, NEW u, Plans(u), NEW t \in Threads, NEW w,
         task' = [task EXCEPT ![t] = w], UNCHANGED store, PlansWell(w, store)
  PROVE  Plans(u)'
<1>1. SUFFICES ASSUME NEW s \in Threads, Serves(s, u)'
               PROVE  PlansWell(task'[s], store)
  BY DEF Plans
<1>2. CASE s = t
  BY <1>2, OthersKeep
<1>3. CASE s # t
  BY <1>1, <1>3, OthersKeep DEF Plans
<1>4. QED
  BY <1>2, <1>3

\* A request begins with one put, or two.
LEMMA BeginOnePlans ==
  ASSUME IInv, NEW u, Plans(u), NEW t \in Threads, NEW op, NEW by, NEW id, NEW put,
         Planned(put, store), Begin(t, op, by, id, <<put>>)
  PROVE  Plans(u)'
<1> DEFINE w == [op |-> op, pc |-> "put", by |-> by, id |-> id,
                 puts |-> <<put>>, loaded |-> {}]
<1>1. task' = [task EXCEPT ![t] = w] /\ UNCHANGED store
  BY DEF Begin
<1>2. w.puts = <<put>>
  OBVIOUS
<1> HIDE DEF w
<1>3. PlansWell(w, store)
  BY <1>2 DEF PlansWell
<1>4. QED
  BY <1>1, <1>3, BeginPlans

\* The same for two puts.
LEMMA BeginTwoPlans ==
  ASSUME IInv, NEW u, Plans(u), NEW t \in Threads, NEW op, NEW by, NEW id, NEW p, NEW q,
         Planned(p, store), Planned(q, store), q.id = None,
         Begin(t, op, by, id, <<p, q>>)
  PROVE  Plans(u)'
<1> DEFINE w == [op |-> op, pc |-> "put", by |-> by, id |-> id,
                 puts |-> <<p, q>>, loaded |-> {}]
<1>1. task' = [task EXCEPT ![t] = w] /\ UNCHANGED store
  BY DEF Begin
<1>2. w.puts = <<p, q>>
  OBVIOUS
<1> HIDE DEF w
<1>3. DOMAIN w.puts = {1, 2} /\ w.puts[1] = p /\ w.puts[2] = q
  BY <1>2
<1>4. PlansWell(w, store)
  BY <1>3 DEF PlansWell
<1>5. QED
  BY <1>1, <1>4, BeginPlans

\* Closing a memory that is neither deleted nor expired, and putting a new one,
\* are planned well.
LEMMA ClosePlanned ==
  ASSUME IInv, NEW by, NEW id, Owns(store, by, id), Replaceable(store[id]), NEW at,
         NEW status \in {"corrected", "superseded", "expired"}
  PROVE  Planned(Stored(id, Close(store[id], at, status)), store)
<1> DEFINE m == Close(store[id], at, status)
           put == Stored(id, m)
<1>1. id \in DOMAIN store /\ store[id] \in MemoryRecord /\ id # None
  BY NoneIsNoId DEF Owns, IInv, StoreOK
<1>2. m.sources = store[id].sources /\ m.status = status
  BY <1>1 DEF Close, MemoryRecord
<1>3. put.id = id /\ put.memory = m
  BY DEF Stored
<1>4. store[id].status = "active" \/ Closed(store[id])
  BY <1>1 DEF Replaceable, Deleting, Closed, MemoryRecord, MemoryStatus
<1> HIDE DEF m, put
<1>5. Planned(put, store)
  BY <1>1, <1>2, <1>3, <1>4 DEF Planned, Succeeds, Closed
<1>6. QED
  BY <1>5 DEF put, m

\* So is any version of a memory in use that keeps its evidence.
LEMMA ActivePlanned ==
  ASSUME IInv, NEW id \in DOMAIN store, store[id].status = "active",
         NEW m, store[id].sources \subseteq m.sources
  PROVE  Planned(Stored(id, m), store)
<1> DEFINE put == Stored(id, m)
<1>1. put.id = id /\ put.memory = m
  BY DEF Stored
<1>2. id # None
  BY NoneIsNoId DEF IInv, StoreOK
<1> HIDE DEF put
<1>3. Planned(put, store)
  BY <1>1, <1>2 DEF Planned, Succeeds
<1>4. QED
  BY <1>3 DEF put

\* And a new memory.
LEMMA FreshPlanned ==
  ASSUME NEW c, NEW p, NEW at, NEW target,
         NEW m \in {NewRecord(c, p, at), Correction(c, p, at, target),
                    Supersession(c, p, at, target)}
  PROVE  Planned(Stored(None, m), store) /\ Stored(None, m).id = None
<1> DEFINE put == Stored(None, m)
<1>1. m.status = "active"
  BY DEF Correction, Supersession, NewRecord
<1>2. put.id = None /\ put.memory = m
  BY DEF Stored
<1> HIDE DEF put
<1>3. Planned(put, store) /\ put.id = None
  BY <1>1, <1>2 DEF Planned
<1>4. QED
  BY <1>3 DEF put

\* Every decision plans well.
LEMMA DecidePlans ==
  ASSUME IInv, NEW u, Plans(u), NEW t \in Threads, Decide(t)
  PROVE  Plans(u)'
<1>1. ASSUME NEW c \in Candidate, NEW p \in Policies, NEW at \in Times,
             DecideWrite(t, c, p, at)
      PROVE  Plans(u)'
  <2>1. ASSUME NEW id \in FindEquivalent(store, c),
               Begin(t, "write", c.subject, id, <<Stored(id, Reinforce(store[id], c))>>)
        PROVE  Plans(u)'
    <3> DEFINE m == Reinforce(store[id], c)
    <3>1. id \in DOMAIN store /\ store[id].status = "active" /\ store[id] \in MemoryRecord
      BY <2>1 DEF FindEquivalent, Equivalents, IInv, StoreOK
    <3>2. store[id].sources \subseteq m.sources
      BY <3>1 DEF Reinforce, MemoryRecord
    <3>3. Begin(t, "write", c.subject, id, <<Stored(id, m)>>)
      BY <2>1
    <3> HIDE DEF m
    <3>4. Planned(Stored(id, m), store)
      BY <3>1, <3>2, ActivePlanned
    <3>5. QED
      BY <3>3, <3>4, BeginOnePlans
  <2>2. CASE Begin(t, "write", c.subject, None, <<Stored(None, NewRecord(c, p, at))>>)
    BY <2>2, FreshPlanned, BeginOnePlans
  <2>3. QED
    BY <1>1, <2>1, <2>2 DEF DecideWrite
<1>2. ASSUME NEW target \in MemoryIds, NEW c \in Candidate, NEW p \in Policies, NEW at \in Times,
             NEW op, DecideCorrect(t, op, target, c, p, at)
      PROVE  Plans(u)'
  <2> DEFINE a == Stored(target, Close(store[target], at, "corrected"))
             b == Stored(None, Correction(c, p, at, target))
  <2>1. Planned(a, store)
    BY <1>2, ClosePlanned DEF DecideCorrect
  <2>2. Planned(b, store) /\ b.id = None
    BY FreshPlanned
  <2>3. Begin(t, op, c.subject, target, <<a, b>>)
    BY <1>2 DEF DecideCorrect
  <2> HIDE DEF a, b
  <2>4. QED
    BY <2>1, <2>2, <2>3, BeginTwoPlans
<1>3. ASSUME NEW target \in MemoryIds, NEW c \in Candidate, NEW p \in Policies, NEW at \in Times,
             DecideSupersede(t, target, c, p, at)
      PROVE  Plans(u)'
  <2> DEFINE a == Stored(target, Close(store[target], at, "superseded"))
             b == Stored(None, Supersession(c, p, at, target))
  <2>1. Planned(a, store)
    BY <1>3, ClosePlanned DEF DecideSupersede
  <2>2. Planned(b, store) /\ b.id = None
    BY FreshPlanned
  <2>3. Begin(t, "supersede", c.subject, target, <<a, b>>)
    BY <1>3 DEF DecideSupersede
  <2> HIDE DEF a, b
  <2>4. QED
    BY <2>1, <2>2, <2>3, BeginTwoPlans
<1>4. ASSUME NEW by \in Subjects, NEW id \in MemoryIds, NEW at \in Times,
             DecideDelete(t, by, id, at)
      PROVE  Plans(u)'
  <2> DEFINE m == [Close(store[id], at, "deleted") EXCEPT !.status = "pending_deletion"]
  <2>1. id \in DOMAIN store /\ store[id] \in MemoryRecord
    BY <1>4 DEF DecideDelete, Owns, IInv, StoreOK
  <2>2. CASE Begin(t, "delete", by, id, <<>>)
    <3> DEFINE w == [op |-> "delete", pc |-> "load", by |-> by, id |-> id,
                     puts |-> <<>>, loaded |-> {}]
    <3>1. task' = [task EXCEPT ![t] = w] /\ UNCHANGED store
      BY <2>2 DEF Begin
    <3>2. DOMAIN w.puts = {}
      OBVIOUS
    <3> HIDE DEF w
    <3>3. QED
      BY <3>1, <3>2, BeginPlans DEF PlansWell
  <2>3. CASE store[id].status = "active" /\ Begin(t, "delete", by, id, <<Stored(id, m)>>)
    <3>1. store[id].sources \subseteq m.sources
      BY <2>1 DEF Close, MemoryRecord
    <3> HIDE DEF m
    <3>2. Planned(Stored(id, m), store)
      BY <2>1, <2>3, <3>1, ActivePlanned
    <3>3. QED
      BY <2>3, <3>2, BeginOnePlans
  <2>4. QED
    BY <1>4, <2>2, <2>3 DEF DecideDelete
<1>5. ASSUME NEW by \in Subjects, NEW id \in MemoryIds, NEW at \in Times,
             DecideExpire(t, by, id, at)
      PROVE  Plans(u)'
  BY <1>5, ClosePlanned, BeginOnePlans DEF DecideExpire
<1>6. ASSUME NEW by \in Subjects, NEW id \in MemoryIds, NEW fact \in Facts, NEW p \in Policies,
             DecideUpdate(t, by, id, fact, p)
      PROVE  Plans(u)'
  <2> DEFINE m == [store[id] EXCEPT !.fact = fact,
                                    !.retrieval_eligible = p.retrieval_eligible,
                                    !.embedding_eligible = p.embedding_eligible]
  <2>1. id \in DOMAIN store /\ store[id].status = "active" /\ store[id] \in MemoryRecord
    BY <1>6 DEF DecideUpdate, Owns, IInv, StoreOK
  <2>2. store[id].sources \subseteq m.sources
    BY <2>1 DEF MemoryRecord
  <2>3. Begin(t, "update", by, id, <<Stored(id, m)>>)
    BY <1>6 DEF DecideUpdate
  <2> HIDE DEF m
  <2>4. QED
    BY <2>1, <2>2, <2>3, ActivePlanned, BeginOnePlans
<1>7. QED
  BY <1>1, <1>2, <1>3, <1>4, <1>5, <1>6 DEF Decide

------------------------------------------------------------------------------
(* What a put does.                                                            *)

\* A memory is stored for the first time, or gets its next version.
PutStep ==
  \E id \in MemoryIds, m \in MemoryRecord :
    /\ IF id \in DOMAIN store THEN Succeeds(m, store[id]) ELSE m.status = "active"
    /\ store' = Put(store, id, m)

LEMMA StorePutPlans ==
  ASSUME IInv, NEW u, Plans(u), NEW t \in Threads, Serves(t, u), Alone(t, u),
         StorePut(t)
  PROVE  PutStep /\ Plans(u)'
<1> DEFINE w == task[t]
           put == Head(w.puts)
<1>1. w.pc = "put" /\ w # Idle
  BY DEF StorePut, Idle
<1>2. RequestOK(w, store, Known) /\ w \in Task
  BY <1>1, RequestFacts
<1>3. w.puts \in Seq(PendingPut) /\ w.puts # <<>>
  BY <1>1, <1>2 DEF RequestOK, Task
<1>4. PlansWell(w, store)
  BY DEF Plans
<1>5. /\ put \in PendingPut /\ Planned(put, store)
      /\ \A i \in DOMAIN Tail(w.puts) :
           Planned(Tail(w.puts)[i], store) /\ Tail(w.puts)[i].id = None
  <2>1. /\ put = w.puts[1] /\ 1 \in DOMAIN w.puts
        /\ \A i \in DOMAIN Tail(w.puts) :
             Tail(w.puts)[i] = w.puts[i + 1] /\ i + 1 \in DOMAIN w.puts
    BY <1>3, HeadAndTail
  <2>2. \A i \in DOMAIN Tail(w.puts) : i + 1 # 1
    BY <1>3, HeadAndTail
  <2>3. put \in PendingPut
    BY <1>3, <2>1
  <2>4. QED
    BY <1>4, <2>1, <2>2, <2>3 DEF PlansWell
<1>6. PICK id \in IF put.id = None THEN FreshIds(store) ELSE {put.id} :
        /\ store' = Put(store, id, put.memory)
        /\ task' = [task EXCEPT ![t] = AfterPut(w, id)]
  BY DEF StorePut
<1> HIDE DEF put, w
<1>7. put.memory \in MemoryRecord
  BY <1>5 DEF PendingPut
<1>8. PutStep
  <2>1. CASE put.id = None
    BY <1>5, <1>6, <1>7, <2>1, FreshIsNew DEF PutStep, Planned, FreshIds
  <2>2. CASE put.id # None
    BY <1>5, <1>6, <1>7, <2>2 DEF PutStep, Planned, IInv, StoreOK
  <2>3. QED
    BY <2>1, <2>2
<1>9. AfterPut(w, id) = Idle \/ PlansWell(AfterPut(w, id), store')
  <2>1. CASE Tail(w.puts) # <<>>
    <3> DEFINE v == [w EXCEPT !.puts = Tail(@)]
    <3>1. v.puts = Tail(w.puts)
      BY <1>2 DEF Task
    <3>2. AfterPut(w, id) = v
      BY <2>1 DEF AfterPut
    <3> HIDE DEF v
    <3>3. \A i \in DOMAIN v.puts : Planned(v.puts[i], store')
      BY <1>5, <3>1 DEF Planned
    <3>4. QED
      BY <1>5, <3>1, <3>2, <3>3 DEF PlansWell
  <2>2. CASE Tail(w.puts) = <<>> /\ w.op \in Propagated
    <3> DEFINE v == [w EXCEPT !.puts = <<>>, !.pc = "load", !.id = id]
    <3>1. DOMAIN v.puts = {}
      BY <1>2 DEF Task
    <3>2. AfterPut(w, id) = v
      BY <2>2 DEF AfterPut
    <3> HIDE DEF v
    <3>3. QED
      BY <3>1, <3>2 DEF PlansWell
  <2>3. CASE Tail(w.puts) = <<>> /\ w.op \notin Propagated
    BY <2>3 DEF AfterPut
  <2>4. QED
    BY <2>1, <2>2, <2>3
<1>10. QED
  BY <1>6, <1>8, <1>9, StepPlans

\* The other steps of a request put nothing, and plan nothing more.
LEMMA OtherStepPlans ==
  ASSUME IInv, NEW u, NEW t \in Threads, Alone(t, u), Step(t), ~StorePut(t)
  PROVE  UNCHANGED store /\ Plans(u)'
<1> DEFINE w == task[t]
<1>1. UNCHANGED store /\ w.pc \in {"load", "graph", "embed"}
  BY DEF Step, LoadMemory, SyncGraph, GraphFails, SyncEmbedding, ForgetEmbedding, EmbeddingFails
<1>2. w \in Task /\ w.puts = <<>>
  BY <1>1, WorkedOn DEF RequestOK
<1>3. \/ task' = [task EXCEPT ![t] = Idle]
      \/ task' = [task EXCEPT ![t] = [w EXCEPT !.pc = "graph", !.loaded = {store[w.id]}]]
      \/ task' = [task EXCEPT ![t] = [w EXCEPT !.pc = "embed"]]
  BY DEF Step, LoadMemory, SyncGraph, GraphFails, SyncEmbedding, ForgetEmbedding,
         EmbeddingFails, Finish, Abort, IInv
<1>4. PICK v : /\ task' = [task EXCEPT ![t] = v]
               /\ v = Idle \/ v.puts = <<>>
  BY <1>2, <1>3 DEF Task
<1>5. v = Idle \/ PlansWell(v, store')
  BY <1>4 DEF PlansWell
<1>6. QED
  BY <1>1, <1>4, <1>5, StepPlans

\* Every step keeps what is planned for u, when the requests of u do not overlap.
LEMMA NextPlans ==
  ASSUME NEW u
  PROVE  IInv /\ Plans(u) /\ OneRequestOf(u) /\ [Next]_vars => Plans(u)'
<1> SUFFICES ASSUME IInv, Plans(u), OneRequestOf(u), [Next]_vars PROVE Plans(u)'
  OBVIOUS
<1>1. CASE UNCHANGED vars
  BY <1>1 DEF vars, Plans, Serves, InFlight
<1>2. ASSUME NEW t \in Threads, Decide(t)
      PROVE  Plans(u)'
  BY <1>2, DecidePlans
<1>3. ASSUME NEW t \in Threads, Step(t), task[t].by # u
      PROVE  Plans(u)'
  BY <1>3, OthersUntouched, UntouchedPlans
<1>4. ASSUME NEW t \in Threads, Step(t), task[t].by = u
      PROVE  Plans(u)'
  <2>1. Serves(t, u) /\ Alone(t, u)
    BY <1>4, SameUser, OnlyOne DEF Serves
  <2>2. QED
    BY <1>4, <2>1, StorePutPlans, OtherStepPlans
<1>5. QED
  BY <1>1, <1>2, <1>3, <1>4 DEF Next

\* Every step of a request that serves u is a put that was planned or leaves the
\* store alone.
LEMMA StepPuts ==
  ASSUME IInv, NEW u, Plans(u), OneRequestOf(u), NEW t \in Threads, Step(t),
         task[t].by = u
  PROVE  PutStep \/ UNCHANGED store
<1>1. Serves(t, u) /\ Alone(t, u)
  BY SameUser, OnlyOne DEF Serves
<1>2. QED
  BY <1>1, StorePutPlans, OtherStepPlans

\* No memory of u goes away or loses evidence.
EvidenceStepFor(u) ==
  \A id \in Of(u, store) : id \in DOMAIN store' /\ store[id].sources \subseteq store'[id].sources

\* For a user whose requests never overlap no put of any operation drops an event
\* that a memory of the user already rests on, and no such memory is ever removed
\* from the store, whatever other users do meanwhile.
THEOREM UsersEvidenceIsRetained ==
  ASSUME NEW u
  PROVE  Spec /\ []OneRequestOf(u) => [][EvidenceStepFor(u)]_vars
<1>1. Init => Plans(u)
  BY InitPlans
<1>2. IInv /\ Plans(u) /\ OneRequestOf(u) /\ [Next]_vars => Plans(u)'
  BY NextPlans
<1>3. IInv /\ Plans(u) /\ OneRequestOf(u) /\ [Next]_vars => [EvidenceStepFor(u)]_vars
  <2> SUFFICES ASSUME IInv, Plans(u), OneRequestOf(u), Next
               PROVE  EvidenceStepFor(u)
    OBVIOUS
  <2>1. PutStep \/ UNCHANGED store => EvidenceStepFor(u)
    BY DEF PutStep, EvidenceStepFor, Succeeds, Put, Of
  <2>2. Untouched(u) => EvidenceStepFor(u)
    BY DEF Untouched, EvidenceStepFor, Of
  <2>3. ASSUME NEW t \in Threads, Decide(t)
        PROVE  EvidenceStepFor(u)
    BY <2>1, <2>3, BeginLeaves
  <2>4. ASSUME NEW t \in Threads, Step(t)
        PROVE  EvidenceStepFor(u)
    BY <2>1, <2>2, <2>4, OthersUntouched, StepPuts
  <2>5. QED
    BY <2>3, <2>4 DEF Next
<1>4. QED
  BY <1>1, <1>2, <1>3, InvariantHolds, PTL DEF Spec

AllPlans == \A u \in Subjects : Plans(u)

\* When no user's requests overlap, every put was planned.
LEMMA SerialPlans ==
  /\ Init => AllPlans
  /\ IInv /\ AllPlans /\ Serial /\ [Next]_vars =>
       AllPlans' /\ (PutStep \/ UNCHANGED store)
<1>1. Init => AllPlans
  BY InitPlans DEF AllPlans
<1>2. IInv /\ AllPlans /\ Serial /\ [Next]_vars => AllPlans'
  BY NextPlans DEF Serial, AllPlans
<1>3. ASSUME IInv, AllPlans, Serial, [Next]_vars
      PROVE  PutStep \/ UNCHANGED store
  <2>1. CASE UNCHANGED vars
    BY <2>1 DEF vars
  <2>2. ASSUME NEW t \in Threads, Decide(t)
        PROVE  UNCHANGED store
    BY <2>2, BeginLeaves
  <2>3. ASSUME NEW t \in Threads, Step(t)
        PROVE  PutStep \/ UNCHANGED store
    <3>1. task[t].by \in Subjects
      BY <1>3, <2>3, SameUser, RequestFacts DEF InFlight
    <3>2. QED
      BY <1>3, <2>3, <3>1, StepPuts DEF Serial, AllPlans
  <2>4. QED
    BY <1>3, <2>1, <2>2, <2>3 DEF Next
<1>4. QED
  BY <1>1, <1>2, <1>3

\* When no user's requests overlap, no put of any operation drops an event that a
\* memory already rests on, and no memory is ever removed from the store.
THEOREM EvidenceIsAlwaysRetained == SerialSpec => EvidenceIsRetained
<1>1. IInv /\ AllPlans /\ Serial /\ [Next]_vars => [EvidenceStep]_vars
  <2>1. PutStep => EvidenceStep
    BY DEF PutStep, EvidenceStep, Succeeds, Put
  <2>2. UNCHANGED store => EvidenceStep
    BY DEF EvidenceStep
  <2>3. QED
    BY <2>1, <2>2, SerialPlans
<1>2. QED
  BY <1>1, SerialPlans, SerialHolds, InvariantHolds, PTL DEF Spec, EvidenceIsRetained

\* A put is one move of MemoryLife or leaves every phase as it is.
LEMMA PutIsLife ==
  ASSUME IInv, PutStep
  PROVE  [Life!LifeNext]_PhaseOfStore
<1>1. PICK id \in MemoryIds, m \in MemoryRecord :
        /\ IF id \in DOMAIN store THEN Succeeds(m, store[id]) ELSE m.status = "active"
        /\ store' = Put(store, id, m)
  BY DEF PutStep
<1>2. PhaseOfStore' = [PhaseOfStore EXCEPT ![id] = PhaseOf(m)]
  BY <1>1 DEF PhaseOfStore, Put
<1>3. PhaseOf(m) \in {"live", "closed", "doomed"} /\ (m.status = "active" => PhaseOf(m) = "live")
  BY DEF PhaseOf
<1>4. CASE id \notin DOMAIN store
  <2>1. PhaseOfStore[id] = "unborn" /\ PhaseOf(m) = "live"
    BY <1>1, <1>3, <1>4 DEF PhaseOfStore
  <2>2. QED
    BY <1>2, <2>1 DEF Life!LifeNext, Life!Birth
<1>5. CASE id \in DOMAIN store
  <2>1. PhaseOfStore[id] = PhaseOf(store[id])
    BY <1>5 DEF PhaseOfStore
  <2>2. CASE PhaseOf(m) = PhaseOf(store[id])
    BY <1>2, <2>1, <2>2 DEF PhaseOfStore
  <2>3. CASE PhaseOf(m) # PhaseOf(store[id])
    <3>1. PhaseOf(store[id]) = "live" /\ PhaseOf(m) \in {"closed", "doomed"}
      BY <1>1, <1>3, <1>5, <2>3 DEF Succeeds, Closed, PhaseOf
    <3>2. QED
      BY <1>2, <2>1, <3>1 DEF Life!LifeNext, Life!Retire, Life!Doom
  <2>4. QED
    BY <2>2, <2>3
<1>6. QED
  BY <1>4, <1>5

\* When no user's requests overlap, the store implements MemoryLife put by put,
\* for every operation: also between the two puts of a replacement, and when the
\* request fails after its puts, no memory that was closed or doomed is revived.
THEOREM MemoriesLiveOnce == SerialSpec => LivesOnce
<1>1. Init => Life!LifeInit
  BY DEF Init, Nothing, Life!LifeInit, PhaseOfStore
<1>2. IInv /\ AllPlans /\ Serial /\ [Next]_vars => [Life!LifeNext]_PhaseOfStore
  <2>1. UNCHANGED store => UNCHANGED PhaseOfStore
    BY DEF PhaseOfStore
  <2>2. QED
    BY <2>1, SerialPlans, PutIsLife
<1>3. QED
  BY <1>1, <1>2, SerialPlans, SerialHolds, InvariantHolds, PTL
  DEF Spec, LivesOnce, Life!LifeSpec

==============================================================================
