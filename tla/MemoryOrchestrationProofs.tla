----------------------- MODULE MemoryOrchestrationProofs -----------------------
(***************************************************************************)
(* Theorems about MemoryOrchestration, for every number of threads, users, *)
(* facts, events, memories and graph stores, whatever fails.               *)
(***************************************************************************)
EXTENDS MemoryOrchestration, TLAPS

------------------------------------------------------------------------------
(* The inductive invariant: what the stores hold, and what a request under    *)
(* way may rely on although others run.  Its parts are predicates of the      *)
(* stores, so that a part can be carried from one state to the next.          *)

StoreOK(s) ==
  /\ DOMAIN s \subseteq MemoryIds
  /\ \A id \in DOMAIN s : s[id] \in MemoryRecord /\ Sealed(s[id])

\* c holds copies of memories of s.
CopiesOK(c, s) ==
  /\ DOMAIN c \subseteq DOMAIN s
  /\ \A id \in DOMAIN c :
       c[id] \in MemoryRecord /\ Sealed(c[id]) /\ c[id].subject = s[id].subject

\* e holds embeddings of memories the graph knows.
EmbeddingsOK(e, s, known) ==
  /\ DOMAIN e \subseteq known
  /\ \A id \in DOMAIN e :
       /\ e[id] \in EmbeddingRecord
       /\ e[id].status = "active" /\ e[id].embedding_eligible
       /\ e[id].subject = s[id].subject

\* id is yet to be given, or a memory of the user by.
MayWrite(by, id, s) == id = None \/ Owns(s, by, id)

PutOK(put, by, s) ==
  /\ MayWrite(by, put.id, s)
  /\ put.memory.subject = by
  /\ Sealed(put.memory)

\* A request w: what it works on is its user's, it knows what it will put until
\* it has put it, and the graph has what it is about to embed.
RequestOK(w, s, known) ==
  /\ w \in Task
  /\ MayWrite(w.by, w.id, s)
  /\ \A i \in DOMAIN w.puts : PutOK(w.puts[i], w.by, s)
  /\ \A m, n \in w.loaded : m = n
  /\ \A m \in w.loaded : m.subject = w.by /\ Sealed(m)
  /\ w.pc = "put" <=> w.puts # <<>>
  /\ w.pc # "put" => w.id # None
  /\ w.pc = "embed" => w.id \in known
  /\ w.pc = "embed" /\ w.op # "delete" => \A m \in w.loaded : m.embedding_eligible

Known == DOMAIN graph[WrittenGraph]

IInv ==
  /\ StoreOK(store)
  /\ DOMAIN graph = GraphStores
  /\ \A g \in GraphStores : CopiesOK(graph[g], store)
  /\ EmbeddingsOK(embeddings, store, Known)
  /\ DOMAIN task = Threads
  /\ \A t \in Threads : task[t] = Idle \/ RequestOK(task[t], store, Known)
  /\ acknowledged \subseteq MemoryIds
  /\ unsynced \subseteq MemoryIds

------------------------------------------------------------------------------
(* Helpers.                                                                    *)

\* No memory has the id None.
LEMMA NoneIsNoId == None \notin MemoryIds
  BY MaxMemoriesAssumption DEF None, MemoryIds

\* A request under way is not an idle thread.
LEMMA RequestIsBusy ==
  ASSUME NEW w, NEW s, NEW known, RequestOK(w, s, known)
  PROVE  w # Idle /\ w.pc \in {"put", "load", "graph", "embed"}
  BY DEF RequestOK, Task, Idle

\* s2 holds the memories of s with the same owners, and maybe more.
Grows(s, s2) ==
  /\ DOMAIN s \subseteq DOMAIN s2
  /\ \A id \in DOMAIN s : s2[id].subject = s[id].subject

\* Requests and copies survive what other requests put.
LEMMA RequestSurvives ==
  ASSUME NEW w, NEW s, NEW s2, NEW known, NEW known2,
         RequestOK(w, s, known), Grows(s, s2), known \subseteq known2
  PROVE  RequestOK(w, s2, known2)
<1>1. \A id : MayWrite(w.by, id, s) => MayWrite(w.by, id, s2)
  BY DEF MayWrite, Owns, Grows
<1>2. \A i \in DOMAIN w.puts : PutOK(w.puts[i], w.by, s2)
  BY <1>1 DEF RequestOK, PutOK
<1>3. QED
  BY <1>1, <1>2 DEF RequestOK

\* Copies agree with a store that has grown.
LEMMA CopiesSurvive ==
  ASSUME NEW c, NEW s, NEW s2, CopiesOK(c, s), Grows(s, s2)
  PROVE  CopiesOK(c, s2)
  BY DEF CopiesOK, Grows

\* So do embeddings, when the graph has not shrunk.
LEMMA EmbeddingsSurvive ==
  ASSUME NEW e, NEW s, NEW s2, NEW known, NEW known2,
         EmbeddingsOK(e, s, known), Grows(s, s2), known \subseteq known2,
         known \subseteq DOMAIN s
  PROVE  EmbeddingsOK(e, s2, known2)
  BY DEF EmbeddingsOK, Grows

\* Putting a sealed record of the right user keeps a store of memories sound.
LEMMA PutKeepsStore ==
  ASSUME NEW s, StoreOK(s), NEW id \in MemoryIds, NEW m \in MemoryRecord, Sealed(m),
         id \in DOMAIN s => s[id].subject = m.subject
  PROVE  /\ StoreOK(Put(s, id, m)) /\ Grows(s, Put(s, id, m))
         /\ Owns(Put(s, id, m), m.subject, id)
  BY DEF StoreOK, Put, Grows, Owns

\* Sequences of one and of two puts.
LEMMA OnePut ==
  ASSUME NEW p \in PendingPut
  PROVE  /\ <<p>> \in Seq(PendingPut) /\ <<p>> # <<>>
         /\ \A i \in DOMAIN <<p>> : <<p>>[i] = p
  OBVIOUS

\* The same for two puts.
LEMMA TwoPuts ==
  ASSUME NEW p \in PendingPut, NEW q \in PendingPut
  PROVE  /\ <<p, q>> \in Seq(PendingPut) /\ <<p, q>> # <<>>
         /\ \A i \in DOMAIN <<p, q>> : <<p, q>>[i] \in {p, q}
  OBVIOUS

\* The first put of a sequence and the others.
LEMMA HeadAndTail ==
  ASSUME NEW s \in Seq(PendingPut), s # <<>>
  PROVE  /\ Head(s) = s[1] /\ 1 \in DOMAIN s
         /\ Tail(s) \in Seq(PendingPut)
         /\ \A i \in DOMAIN Tail(s) : Tail(s)[i] = s[i + 1] /\ i + 1 \in DOMAIN s
  OBVIOUS

------------------------------------------------------------------------------
(* Deciding.                                                                   *)

\* What a request needs to begin.
PutsOK(puts, by, s) ==
  /\ puts \in Seq(PendingPut)
  /\ \A i \in DOMAIN puts : PutOK(puts[i], by, s)

\* Beginning a request keeps the invariant.
LEMMA BeginIInv ==
  ASSUME IInv, NEW t \in Threads, NEW op, NEW by \in Subjects,
         NEW id \in MemoryIds \cup {None}, NEW puts,
         PutsOK(puts, by, store), MayWrite(by, id, store),
         puts = <<>> => id # None,
         Begin(t, op, by, id, puts)
  PROVE  IInv'
<1> DEFINE w == [op |-> op, pc |-> IF puts = <<>> THEN "load" ELSE "put",
                 by |-> by, id |-> id, puts |-> puts, loaded |-> {}]
<1>1. w \in Task
  BY DEF Begin, PutsOK, Task
<1>2. RequestOK(w, store, Known)
  BY <1>1 DEF RequestOK, PutsOK
<1>3. /\ task' = [task EXCEPT ![t] = w]
      /\ UNCHANGED <<store, graph, embeddings, acknowledged, unsynced>>
  BY DEF Begin
<1> HIDE DEF w
<1>4. DOMAIN task' = Threads
      /\ \A s \in Threads : task'[s] = Idle \/ RequestOK(task'[s], store, Known)
  BY <1>2, <1>3 DEF IInv
<1>5. QED
  BY <1>3, <1>4 DEF IInv, Known

\* Closing a memory of the store, for whatever reason, is a sound put.
LEMMA ClosePut ==
  ASSUME NEW s, StoreOK(s), NEW by, NEW id, Owns(s, by, id),
         NEW at \in Times, CanClose(s[id], at),
         NEW status \in {"corrected", "superseded", "expired"}
  PROVE  /\ Stored(id, Close(s[id], at, status)) \in PendingPut
         /\ PutOK(Stored(id, Close(s[id], at, status)), by, s)
<1>1. id \in MemoryIds /\ s[id] \in MemoryRecord /\ s[id].subject = by
  BY DEF StoreOK, Owns
<1>2. Close(s[id], at, status) \in MemoryRecord /\ Close(s[id], at, status).subject = by
  BY <1>1 DEF Close, MemoryRecord, MemoryStatus
<1>3. Sealed(Close(s[id], at, status))
  BY <1>1 DEF Close, MemoryRecord, Sealed, Validates, TerminalStatus, CanClose, Times, None
<1>4. QED
  BY <1>1, <1>2, <1>3 DEF Stored, PendingPut, PutOK, MayWrite

\* So is the first put of a deletion.
LEMMA DeletePut ==
  ASSUME NEW s, StoreOK(s), NEW by, NEW id, Owns(s, by, id),
         NEW at \in Times, CanClose(s[id], at)
  PROVE  LET m == [Close(s[id], at, "deleted") EXCEPT !.status = "pending_deletion"]
         IN  Stored(id, m) \in PendingPut /\ PutOK(Stored(id, m), by, s)
<1> DEFINE m == [Close(s[id], at, "deleted") EXCEPT !.status = "pending_deletion"]
<1>1. id \in MemoryIds /\ s[id] \in MemoryRecord /\ s[id].subject = by
  BY DEF StoreOK, Owns
<1>2. m \in MemoryRecord /\ m.subject = by
  BY <1>1 DEF Close, MemoryRecord, MemoryStatus
<1>3. Sealed(m)
  BY <1>1 DEF Close, MemoryRecord, Sealed, Validates, TerminalStatus, CanClose, Times, None
<1> HIDE DEF m
<1>4. Stored(id, m) \in PendingPut /\ PutOK(Stored(id, m), by, s)
  BY <1>1, <1>2, <1>3 DEF Stored, PendingPut, PutOK, MayWrite
<1>5. QED
  BY <1>4 DEF m

\* A new memory, whether it replaces another or not, is a sound put.
LEMMA FreshPut ==
  ASSUME NEW m \in MemoryRecord, m.status = "active", m.valid_to = None, NEW s
  PROVE  Stored(None, m) \in PendingPut /\ PutOK(Stored(None, m), m.subject, s)
  BY DEF Stored, PendingPut, PutOK, MayWrite, Sealed, Validates, TerminalStatus

\* What a write stores when it finds no equivalent memory.
LEMMA NewPut ==
  ASSUME NEW c \in Candidate, NEW p \in PolicyDecision, NEW at \in Times, NEW s
  PROVE  /\ Stored(None, NewRecord(c, p, at)) \in PendingPut
         /\ PutOK(Stored(None, NewRecord(c, p, at)), c.subject, s)
<1> DEFINE m == NewRecord(c, p, at)
<1>1. m \in MemoryRecord
  BY DEF NewRecord, Candidate, PolicyDecision, MemoryRecord, MemoryStatus
<1>2. m.subject = c.subject /\ m.status = "active" /\ m.valid_to = None
  BY DEF NewRecord
<1> HIDE DEF m
<1>3. Stored(None, m) \in PendingPut /\ PutOK(Stored(None, m), c.subject, s)
  BY <1>1, <1>2, FreshPut
<1>4. QED
  BY <1>3 DEF m

\* What a correction and a supersession store after closing their target.
LEMMA ReplacementPut ==
  ASSUME NEW c \in Candidate, NEW p \in PolicyDecision, NEW at \in Times,
         NEW target \in MemoryIds, NEW s,
         NEW m \in {Correction(c, p, at, target), Supersession(c, p, at, target)}
  PROVE  Stored(None, m) \in PendingPut /\ PutOK(Stored(None, m), c.subject, s)
<1>1. m \in MemoryRecord
  BY DEF Correction, Supersession, NewRecord, Candidate, PolicyDecision,
         MemoryRecord, MemoryStatus
<1>2. m.subject = c.subject /\ m.status = "active" /\ m.valid_to = None
  BY DEF Correction, Supersession, NewRecord
<1>3. QED
  BY <1>1, <1>2, FreshPut

\* A memory that stays active, with other contents or eligibility, is a sound put.
LEMMA ActivePut ==
  ASSUME NEW s, StoreOK(s), NEW by, NEW id, Owns(s, by, id), s[id].status = "active",
         NEW m \in MemoryRecord, m.subject = s[id].subject,
         m.status = s[id].status, m.valid_to = s[id].valid_to
  PROVE  Stored(id, m) \in PendingPut /\ PutOK(Stored(id, m), by, s)
<1>1. id \in MemoryIds /\ s[id].valid_to = None /\ s[id].subject = by
  BY DEF StoreOK, Owns, Sealed
<1>2. QED
  BY <1>1 DEF Stored, PendingPut, PutOK, MayWrite, Sealed, Validates, TerminalStatus

\* A decision with one put, and one with two, begins a sound request.
LEMMA BeginOnePut ==
  ASSUME IInv, NEW t \in Threads, NEW op, NEW by \in Subjects,
         NEW id \in MemoryIds \cup {None}, MayWrite(by, id, store),
         NEW put \in PendingPut, PutOK(put, by, store),
         Begin(t, op, by, id, <<put>>)
  PROVE  IInv'
<1>1. PutsOK(<<put>>, by, store) /\ <<put>> # <<>>
  BY OnePut DEF PutsOK
<1>2. QED
  BY <1>1, BeginIInv

\* The same for two puts.
LEMMA BeginTwoPuts ==
  ASSUME IInv, NEW t \in Threads, NEW op, NEW by \in Subjects,
         NEW id \in MemoryIds \cup {None}, MayWrite(by, id, store),
         NEW p \in PendingPut, PutOK(p, by, store),
         NEW q \in PendingPut, PutOK(q, by, store),
         Begin(t, op, by, id, <<p, q>>)
  PROVE  IInv'
<1>1. PutsOK(<<p, q>>, by, store) /\ <<p, q>> # <<>>
  <2>1. <<p, q>> \in Seq(PendingPut) /\ <<p, q>> # <<>>
    BY TwoPuts
  <2>2. \A i \in DOMAIN <<p, q>> : <<p, q>>[i] \in {p, q}
    BY TwoPuts
  <2>3. QED
    BY <2>1, <2>2 DEF PutsOK
<1>2. QED
  BY <1>1, BeginIInv

\* Every decision keeps the invariant.
LEMMA DecideIInv ==
  ASSUME IInv, NEW t \in Threads, Decide(t)
  PROVE  IInv'
<1>1. StoreOK(store)
  BY DEF IInv
<1>2. Policies \subseteq PolicyDecision
  BY PoliciesAssumption
<1>3. ASSUME NEW c \in Candidate, NEW p \in Policies, NEW at \in Times,
             DecideWrite(t, c, p, at)
      PROVE  IInv'
  <2>1. c.subject \in Subjects /\ MayWrite(c.subject, None, store)
    BY DEF Candidate, MayWrite
  <2>2. ASSUME NEW id \in FindEquivalent(store, c),
               Begin(t, "write", c.subject, id, <<Stored(id, Reinforce(store[id], c))>>)
        PROVE  IInv'
    <3> DEFINE m == Reinforce(store[id], c)
    <3>1. Owns(store, c.subject, id) /\ store[id].status = "active"
      BY <2>2 DEF FindEquivalent, Equivalents, Owns
    <3>2. id \in MemoryIds /\ store[id] \in MemoryRecord
      BY <1>1, <3>1 DEF StoreOK, Owns
    <3>3. /\ m \in MemoryRecord /\ m.subject = store[id].subject
          /\ m.status = store[id].status /\ m.valid_to = store[id].valid_to
      BY <3>2 DEF Reinforce, MemoryRecord, Candidate
    <3> HIDE DEF m
    <3>4. Stored(id, m) \in PendingPut /\ PutOK(Stored(id, m), c.subject, store)
      BY <1>1, <3>1, <3>3, ActivePut
    <3>5. Begin(t, "write", c.subject, id, <<Stored(id, m)>>)
      BY <2>2 DEF m
    <3>6. QED
      BY <2>1, <3>1, <3>2, <3>4, <3>5, BeginOnePut DEF MayWrite
  <2>3. ASSUME Begin(t, "write", c.subject, None, <<Stored(None, NewRecord(c, p, at))>>)
        PROVE  IInv'
    <3>1. /\ Stored(None, NewRecord(c, p, at)) \in PendingPut
          /\ PutOK(Stored(None, NewRecord(c, p, at)), c.subject, store)
      BY <1>2, NewPut
    <3>2. QED
      BY <2>1, <2>3, <3>1, BeginOnePut
  <2>4. QED
    BY <1>3, <2>2, <2>3 DEF DecideWrite
<1>4. ASSUME NEW target \in MemoryIds, NEW c \in Candidate, NEW p \in Policies,
             NEW at \in Times, NEW op,
             DecideCorrect(t, op, target, c, p, at) \/ DecideSupersede(t, target, c, p, at)
      PROVE  IInv'
  <2>1. /\ c.subject \in Subjects /\ Owns(store, c.subject, target)
        /\ CanClose(store[target], at) /\ p \in PolicyDecision
    BY <1>2, <1>4 DEF Candidate, DecideCorrect, DecideSupersede
  <2>2. MayWrite(c.subject, target, store)
    BY <2>1 DEF MayWrite
  <2>3. CASE DecideCorrect(t, op, target, c, p, at)
    <3> DEFINE a == Stored(target, Close(store[target], at, "corrected"))
               b == Stored(None, Correction(c, p, at, target))
    <3>1. a \in PendingPut /\ PutOK(a, c.subject, store)
      BY <1>1, <2>1, ClosePut
    <3>2. b \in PendingPut /\ PutOK(b, c.subject, store)
      BY <2>1, ReplacementPut
    <3>3. Begin(t, op, c.subject, target, <<a, b>>)
      BY <2>3 DEF DecideCorrect
    <3> HIDE DEF a, b
    <3>4. QED
      BY <2>1, <2>2, <3>1, <3>2, <3>3, BeginTwoPuts
  <2>4. CASE DecideSupersede(t, target, c, p, at)
    <3> DEFINE a == Stored(target, Close(store[target], at, "superseded"))
               b == Stored(None, Supersession(c, p, at, target))
    <3>1. a \in PendingPut /\ PutOK(a, c.subject, store)
      BY <1>1, <2>1, ClosePut
    <3>2. b \in PendingPut /\ PutOK(b, c.subject, store)
      BY <2>1, ReplacementPut
    <3>3. Begin(t, "supersede", c.subject, target, <<a, b>>)
      BY <2>4 DEF DecideSupersede
    <3> HIDE DEF a, b
    <3>4. QED
      BY <2>1, <2>2, <3>1, <3>2, <3>3, BeginTwoPuts
  <2>5. QED
    BY <1>4, <2>3, <2>4
<1>5. ASSUME NEW by \in Subjects, NEW id \in MemoryIds, NEW at \in Times,
             DecideDelete(t, by, id, at)
      PROVE  IInv'
  <2> DEFINE m == [Close(store[id], at, "deleted") EXCEPT !.status = "pending_deletion"]
  <2>1. Owns(store, by, id) /\ MayWrite(by, id, store)
    BY <1>5 DEF DecideDelete, MayWrite
  <2>2. CASE Begin(t, "delete", by, id, <<>>)
    <3>1. PutsOK(<<>>, by, store)
      BY DEF PutsOK
    <3>2. id # None
      BY NoneIsNoId
    <3>3. QED
      BY <2>1, <2>2, <3>1, <3>2, BeginIInv
  <2>3. CASE /\ CanClose(store[id], at)
             /\ Begin(t, "delete", by, id, <<Stored(id, m)>>)
    <3>1. Stored(id, m) \in PendingPut /\ PutOK(Stored(id, m), by, store)
      BY <1>1, <2>1, <2>3, DeletePut
    <3> HIDE DEF m
    <3>2. QED
      BY <2>1, <2>3, <3>1, BeginOnePut
  <2>4. QED
    BY <1>5, <2>2, <2>3 DEF DecideDelete
<1>6. ASSUME NEW by \in Subjects, NEW id \in MemoryIds, NEW at \in Times,
             DecideExpire(t, by, id, at)
      PROVE  IInv'
  <2> DEFINE a == Stored(id, Close(store[id], at, "expired"))
  <2>1. Owns(store, by, id) /\ MayWrite(by, id, store) /\ CanClose(store[id], at)
    BY <1>6 DEF DecideExpire, MayWrite
  <2>2. a \in PendingPut /\ PutOK(a, by, store)
    BY <1>1, <2>1, ClosePut
  <2>3. Begin(t, "expire", by, id, <<a>>)
    BY <1>6 DEF DecideExpire
  <2> HIDE DEF a
  <2>4. QED
    BY <2>1, <2>2, <2>3, BeginOnePut
<1>7. ASSUME NEW by \in Subjects, NEW id \in MemoryIds, NEW fact \in Facts,
             NEW p \in Policies, DecideUpdate(t, by, id, fact, p)
      PROVE  IInv'
  <2> DEFINE m == [store[id] EXCEPT !.fact = fact,
                                    !.retrieval_eligible = p.retrieval_eligible,
                                    !.embedding_eligible = p.embedding_eligible]
  <2>1. Owns(store, by, id) /\ MayWrite(by, id, store) /\ store[id].status = "active"
    BY <1>7 DEF DecideUpdate, MayWrite
  <2>2. store[id] \in MemoryRecord /\ p \in PolicyDecision
    BY <1>1, <1>2, <2>1 DEF StoreOK, Owns
  <2>3. /\ m \in MemoryRecord /\ m.subject = store[id].subject
        /\ m.status = store[id].status /\ m.valid_to = store[id].valid_to
    BY <2>2 DEF MemoryRecord, PolicyDecision
  <2>4. Begin(t, "update", by, id, <<Stored(id, m)>>)
    BY <1>7 DEF DecideUpdate
  <2> HIDE DEF m
  <2>5. Stored(id, m) \in PendingPut /\ PutOK(Stored(id, m), by, store)
    BY <1>1, <2>1, <2>3, ActivePut
  <2>6. QED
    BY <2>1, <2>4, <2>5, BeginOnePut
<1>8. QED
  BY <1>3, <1>4, <1>5, <1>6, <1>7 DEF Decide

------------------------------------------------------------------------------
(* Storing and propagating.                                                    *)

\* What is known of a request under way.
LEMMA RequestFacts ==
  ASSUME IInv, NEW t \in Threads, task[t] # Idle
  PROVE  /\ RequestOK(task[t], store, Known) /\ task[t] \in Task
         /\ task[t].by \in Subjects
  BY DEF IInv, RequestOK, Task

\* The step of one request: its own new state has to be sound, and what it does
\* to the stores must leave the others what they rely on.
LEMMA StepIInv ==
  ASSUME IInv, NEW t \in Threads, NEW w,
         task' = [task EXCEPT ![t] = w],
         w = Idle \/ RequestOK(w, store', Known'),
         StoreOK(store'), Grows(store, store'),
         DOMAIN graph' = GraphStores,
         \A g \in GraphStores : CopiesOK(graph'[g], store'),
         Known \subseteq Known',
         EmbeddingsOK(embeddings', store', Known'),
         acknowledged' \subseteq MemoryIds, unsynced' \subseteq MemoryIds
  PROVE  IInv'
<1>1. ASSUME NEW s \in Threads
      PROVE  task'[s] = Idle \/ RequestOK(task'[s], store', Known')
  <2>1. CASE s = t
    BY <2>1 DEF IInv
  <2>2. CASE s # t
    <3>1. task'[s] = task[s] /\ (task[s] = Idle \/ RequestOK(task[s], store, Known))
      BY <2>2 DEF IInv
    <3>2. RequestOK(task[s], store, Known) => RequestOK(task[s], store', Known')
      BY RequestSurvives
    <3>3. QED
      BY <3>1, <3>2
  <2>3. QED
    BY <2>1, <2>2
<1>2. DOMAIN task' = Threads
  BY DEF IInv
<1>3. QED
  BY <1>1, <1>2 DEF IInv

\* The written graph store exists, and holds copies.
LEMMA WrittenFacts ==
  ASSUME IInv
  PROVE  WrittenGraph \in GraphStores /\ Known \subseteq DOMAIN store
         /\ DOMAIN store \subseteq MemoryIds
  BY GraphStoresAssumption DEF IInv, Known, CopiesOK, StoreOK

\* A put keeps the invariant: it writes a sealed record of the right user, so that
\* what the other requests rely on stays.
LEMMA StorePutIInv ==
  ASSUME IInv, NEW t \in Threads, StorePut(t)
  PROVE  IInv'
<1> DEFINE w == task[t]
           put == Head(w.puts)
<1>1. w.pc = "put" /\ w # Idle
  BY DEF StorePut, Idle
<1>2. RequestOK(w, store, Known) /\ w \in Task
  BY <1>1, RequestFacts
<1>3. /\ w.puts \in Seq(PendingPut) /\ w.puts # <<>>
      /\ \A i \in DOMAIN w.puts : PutOK(w.puts[i], w.by, store)
  BY <1>1, <1>2 DEF RequestOK, Task
<1>4. /\ put \in PendingPut /\ PutOK(put, w.by, store)
      /\ Tail(w.puts) \in Seq(PendingPut)
      /\ \A i \in DOMAIN Tail(w.puts) : PutOK(Tail(w.puts)[i], w.by, store)
  BY <1>3, HeadAndTail
<1>5. PICK id \in IF put.id = None THEN FreshIds(store) ELSE {put.id} :
        /\ store' = Put(store, id, put.memory)
        /\ task' = [task EXCEPT ![t] = AfterPut(w, id)]
        /\ UNCHANGED <<graph, embeddings, acknowledged, unsynced>>
  BY DEF StorePut
<1> HIDE DEF put, w
<1>6. put.memory \in MemoryRecord /\ put.id \in MemoryIds \cup {None}
  BY <1>4 DEF PendingPut
<1>7. id \in MemoryIds /\ (id \in DOMAIN store => store[id].subject = put.memory.subject)
  BY <1>4, <1>5, <1>6 DEF FreshIds, MemoryIds, PutOK, MayWrite, Owns
<1>8. /\ StoreOK(store') /\ Grows(store, store')
      /\ Owns(store', w.by, id)
  BY <1>4, <1>5, <1>6, <1>7, PutKeepsStore DEF IInv, PutOK
<1>9. AfterPut(w, id) = Idle \/ RequestOK(AfterPut(w, id), store', Known)
  <2>1. \A x : MayWrite(w.by, x, store) => MayWrite(w.by, x, store')
    BY <1>8 DEF MayWrite, Owns, Grows
  <2>2. CASE Tail(w.puts) # <<>>
    <3> DEFINE v == [w EXCEPT !.puts = Tail(@)]
    <3>1. /\ v \in Task /\ v.puts = Tail(w.puts) /\ v.by = w.by /\ v.id = w.id
          /\ v.pc = "put" /\ v.loaded = w.loaded
      BY <1>1, <1>2, <1>4 DEF Task, w
    <3>2. AfterPut(w, id) = v
      BY <2>2 DEF AfterPut
    <3> HIDE DEF v
    <3>3. \A i \in DOMAIN v.puts : PutOK(v.puts[i], v.by, store')
      BY <1>4, <2>1, <3>1 DEF PutOK
    <3>4. RequestOK(v, store', Known)
      BY <1>2, <2>1, <2>2, <3>1, <3>3 DEF RequestOK
    <3>5. QED
      BY <3>2, <3>4
  <2>3. CASE Tail(w.puts) = <<>> /\ w.op \in Propagated
    <3> DEFINE v == [w EXCEPT !.puts = <<>>, !.pc = "load", !.id = id]
    <3>1. /\ v \in Task /\ v.puts = <<>> /\ v.by = w.by /\ v.id = id
          /\ v.pc = "load" /\ v.loaded = w.loaded
      <4>1. <<>> \in Seq(PendingPut)
        OBVIOUS
      <4> HIDE DEF v
      <4>2. QED
        BY <1>2, <1>7, <4>1 DEF Task, v
    <3>2. AfterPut(w, id) = v
      BY <2>3 DEF AfterPut
    <3> HIDE DEF v
    <3>3. RequestOK(v, store', Known)
      BY <1>2, <1>7, <1>8, <3>1, NoneIsNoId DEF RequestOK, MayWrite
    <3>4. QED
      BY <3>2, <3>3
  <2>4. CASE Tail(w.puts) = <<>> /\ w.op \notin Propagated
    BY <2>4 DEF AfterPut
  <2>5. QED
    BY <2>2, <2>3, <2>4
<1>10. Known' = Known /\ Known \subseteq DOMAIN store
  BY <1>5, WrittenFacts DEF Known
<1>11. /\ DOMAIN graph' = GraphStores
       /\ \A g \in GraphStores : CopiesOK(graph'[g], store')
  BY <1>5, <1>8, CopiesSurvive DEF IInv
<1>12. EmbeddingsOK(embeddings', store', Known')
  BY <1>5, <1>8, <1>10, EmbeddingsSurvive DEF IInv
<1>13. acknowledged' \subseteq MemoryIds /\ unsynced' \subseteq MemoryIds
  BY <1>5 DEF IInv
<1>14. QED
  BY <1>5, <1>8, <1>9, <1>10, <1>11, <1>12, <1>13, StepIInv

\* A step that leaves the lifecycle store alone.
LEMMA CopyStepIInv ==
  ASSUME IInv, NEW t \in Threads, NEW w,
         task' = [task EXCEPT ![t] = w], UNCHANGED store,
         w = Idle \/ RequestOK(w, store, Known'),
         DOMAIN graph' = GraphStores,
         \A g \in GraphStores : CopiesOK(graph'[g], store),
         Known \subseteq Known',
         EmbeddingsOK(embeddings', store, Known'),
         acknowledged' \subseteq MemoryIds, unsynced' \subseteq MemoryIds
  PROVE  IInv'
<1>1. StoreOK(store') /\ Grows(store, store')
  BY DEF IInv, Grows
<1>2. QED
  BY <1>1, StepIInv

\* A request that has stored its memories works on one of its user's.
LEMMA WorkedOn ==
  ASSUME IInv, NEW t \in Threads, task[t].pc \in {"load", "graph", "embed"}
  PROVE  /\ task[t] # Idle /\ RequestOK(task[t], store, Known) /\ task[t] \in Task
         /\ task[t].id \in DOMAIN store /\ task[t].id \in MemoryIds
         /\ store[task[t].id].subject = task[t].by
         /\ \A m \in task[t].loaded :
              m \in MemoryRecord /\ Sealed(m) /\ m.subject = task[t].by
<1>1. task[t] # Idle
  BY DEF Idle
<1>2. RequestOK(task[t], store, Known) /\ task[t] \in Task
  BY <1>1, RequestFacts
<1>3. Owns(store, task[t].by, task[t].id)
  BY <1>2 DEF RequestOK, MayWrite
<1>4. task[t].id \in DOMAIN store /\ store[task[t].id].subject = task[t].by
  BY <1>3 DEF Owns
<1>5. \A m \in task[t].loaded : m \in MemoryRecord /\ Sealed(m) /\ m.subject = task[t].by
  BY <1>2 DEF RequestOK, Task
<1>6. QED
  BY <1>1, <1>2, <1>4, <1>5, WrittenFacts

\* Loading keeps the invariant: what is loaded is sealed and its user's.
LEMMA LoadIInv ==
  ASSUME IInv, NEW t \in Threads, LoadMemory(t)
  PROVE  IInv'
<1> DEFINE w == task[t]
           v == [w EXCEPT !.pc = "graph", !.loaded = {store[w.id]}]
<1>1. w.pc = "load" /\ UNCHANGED <<store, graph, embeddings, acknowledged, unsynced>>
  BY DEF LoadMemory
<1>2. task' = [task EXCEPT ![t] = v]
  BY DEF LoadMemory, IInv
<1>3. /\ RequestOK(w, store, Known) /\ w \in Task /\ w.id \in DOMAIN store
      /\ store[w.id].subject = w.by
  BY <1>1, WorkedOn
<1>4. store[w.id] \in MemoryRecord /\ Sealed(store[w.id])
  BY <1>3 DEF IInv, StoreOK
<1> HIDE DEF w
<1>5. /\ v \in Task /\ v.by = w.by /\ v.id = w.id /\ v.puts = w.puts
      /\ v.loaded = {store[w.id]} /\ v.pc = "graph"
  BY <1>3, <1>4 DEF Task
<1> HIDE DEF v
<1>6. RequestOK(v, store, Known)
  BY <1>1, <1>3, <1>4, <1>5 DEF RequestOK
<1>7. QED
  BY <1>1, <1>2, <1>6, CopyStepIInv DEF IInv, Known

\* The copies after WithCopy, of a sealed memory of the right user.
LEMMA WithCopyFacts ==
  ASSUME IInv, NEW id \in DOMAIN store, NEW m \in MemoryRecord, Sealed(m),
         m.subject = store[id].subject, graph' = WithCopy(id, m)
  PROVE  /\ DOMAIN graph' = GraphStores
         /\ \A g \in GraphStores : CopiesOK(graph'[g], store)
         /\ Known' = Known \cup {id}
<1>1. WrittenGraph \in GraphStores /\ DOMAIN graph = GraphStores
  BY WrittenFacts DEF IInv
<1>2. DOMAIN graph' = GraphStores
  BY <1>1 DEF WithCopy
<1>3. graph'[WrittenGraph] = Put(graph[WrittenGraph], id, m)
  BY <1>1 DEF WithCopy
<1>4. \A g \in GraphStores : g # WrittenGraph => graph'[g] = graph[g]
  BY <1>1 DEF WithCopy
<1>5. CopiesOK(graph[WrittenGraph], store)
  BY <1>1 DEF IInv
<1>6. CopiesOK(Put(graph[WrittenGraph], id, m), store)
  BY <1>5 DEF CopiesOK, Put
<1>7. DOMAIN Put(graph[WrittenGraph], id, m) = DOMAIN graph[WrittenGraph] \cup {id}
  BY DEF Put
<1>8. \A g \in GraphStores : CopiesOK(graph'[g], store)
  BY <1>3, <1>4, <1>6 DEF IInv
<1>9. QED
  BY <1>2, <1>3, <1>7, <1>8 DEF Known

\* Embeddings do not notice that the graph knows more.
LEMMA EmbeddingsStay ==
  ASSUME IInv, UNCHANGED embeddings, NEW known, Known \subseteq known
  PROVE  EmbeddingsOK(embeddings', store, known)
  BY DEF IInv, EmbeddingsOK

\* The histories stay sets of memory ids when a request ends, either way.
LEMMA EndFacts ==
  ASSUME IInv, NEW t \in Threads, task[t].id \in MemoryIds, Finish(t) \/ Abort(t)
  PROVE  task' = [task EXCEPT ![t] = Idle] /\ unsynced' \subseteq MemoryIds
  BY DEF Finish, Abort, IInv

\* Writing the graph copy keeps the invariant.
LEMMA SyncGraphIInv ==
  ASSUME IInv, NEW t \in Threads, SyncGraph(t)
  PROVE  IInv'
<1> DEFINE w == task[t]
<1>1. w.pc = "graph" /\ UNCHANGED <<store, embeddings, acknowledged>>
  BY DEF SyncGraph
<1>2. PICK m \in w.loaded :
        /\ graph' = WithCopy(w.id, m)
        /\ \/ /\ w.op = "delete" \/ m.embedding_eligible
              /\ task' = [task EXCEPT ![t].pc = "embed"]
              /\ UNCHANGED unsynced
           \/ Finish(t)
  BY DEF SyncGraph
<1>3. /\ RequestOK(w, store, Known) /\ w \in Task /\ w.id \in DOMAIN store
      /\ store[w.id].subject = w.by /\ w.id \in MemoryIds
      /\ m \in MemoryRecord /\ Sealed(m) /\ m.subject = w.by
  BY <1>1, <1>2, WorkedOn
<1>4. /\ DOMAIN graph' = GraphStores
      /\ \A g \in GraphStores : CopiesOK(graph'[g], store)
      /\ Known' = Known \cup {w.id}
  BY <1>2, <1>3, WithCopyFacts
<1>5. EmbeddingsOK(embeddings', store, Known')
  BY <1>1, <1>4, EmbeddingsStay
<1>6. acknowledged' \subseteq MemoryIds
  BY <1>1 DEF IInv
<1>7. CASE Finish(t)
  <2>1. task' = [task EXCEPT ![t] = Idle] /\ unsynced' \subseteq MemoryIds
    BY <1>3, <1>7, EndFacts
  <2>2. QED
    BY <1>1, <1>4, <1>5, <1>6, <2>1, CopyStepIInv
<1>8. CASE /\ w.op = "delete" \/ m.embedding_eligible
           /\ task' = [task EXCEPT ![t].pc = "embed"]
           /\ UNCHANGED unsynced
  <2> DEFINE v == [w EXCEPT !.pc = "embed"]
  <2>1. task' = [task EXCEPT ![t] = v] /\ unsynced' \subseteq MemoryIds
    BY <1>8 DEF IInv
  <2>2. \A x \in w.loaded : w.op # "delete" => x.embedding_eligible
    <3>1. \A x \in w.loaded : x = m
      BY <1>3 DEF RequestOK
    <3>2. QED
      BY <1>8, <3>1
  <2> HIDE DEF w
  <2>3. /\ v \in Task /\ v.by = w.by /\ v.id = w.id /\ v.puts = w.puts
        /\ v.loaded = w.loaded /\ v.pc = "embed" /\ v.op = w.op
    BY <1>3 DEF Task
  <2> HIDE DEF v
  <2>4. RequestOK(v, store, Known')
    BY <1>1, <1>3, <1>4, <2>2, <2>3 DEF RequestOK
  <2>5. QED
    BY <1>1, <1>4, <1>5, <1>6, <2>1, <2>4, CopyStepIInv
<1>9. QED
  BY <1>2, <1>7, <1>8

\* So does its failure, before or after the write.
LEMMA GraphFailsIInv ==
  ASSUME IInv, NEW t \in Threads, GraphFails(t)
  PROVE  IInv'
<1> DEFINE w == task[t]
<1>1. /\ w.pc = "graph" /\ Abort(t)
      /\ UNCHANGED <<store, embeddings, acknowledged>>
  BY DEF GraphFails
<1>2. PICK m \in w.loaded : graph' \in {graph, WithCopy(w.id, m)}
  BY DEF GraphFails
<1>3. /\ w.id \in DOMAIN store /\ store[w.id].subject = w.by /\ w.id \in MemoryIds
      /\ m \in MemoryRecord /\ Sealed(m) /\ m.subject = w.by
  BY <1>1, <1>2, WorkedOn
<1>4. /\ DOMAIN graph' = GraphStores
      /\ \A g \in GraphStores : CopiesOK(graph'[g], store)
      /\ Known \subseteq Known'
  <2>1. CASE graph' = graph
    BY <2>1 DEF IInv, Known
  <2>2. CASE graph' = WithCopy(w.id, m)
    BY <1>3, <2>2, WithCopyFacts
  <2>3. QED
    BY <1>2, <2>1, <2>2
<1>5. EmbeddingsOK(embeddings', store, Known')
  BY <1>1, <1>4, EmbeddingsStay
<1>6. /\ task' = [task EXCEPT ![t] = Idle]
      /\ unsynced' \subseteq MemoryIds /\ acknowledged' \subseteq MemoryIds
  BY <1>1, <1>3, EndFacts DEF IInv
<1>7. QED
  BY <1>1, <1>4, <1>5, <1>6, CopyStepIInv

\* A request that ends after touching the embeddings at most.
LEMMA EndIInv ==
  ASSUME IInv, NEW t \in Threads, task[t].pc = "embed", Finish(t) \/ Abort(t),
         UNCHANGED <<store, graph>>,
         EmbeddingsOK(embeddings', store, Known), acknowledged' \subseteq MemoryIds
  PROVE  IInv'
<1>1. task' = [task EXCEPT ![t] = Idle] /\ unsynced' \subseteq MemoryIds
  BY WorkedOn, EndFacts
<1>2. QED
  BY <1>1, CopyStepIInv DEF IInv, Known

\* Writing the embedding keeps the invariant: the memory is active and eligible.
LEMMA SyncEmbeddingIInv ==
  ASSUME IInv, NEW t \in Threads, SyncEmbedding(t)
  PROVE  IInv'
<1> DEFINE w == task[t]
<1>1. /\ w.pc = "embed" /\ w.op # "delete" /\ Finish(t)
      /\ UNCHANGED <<store, graph, acknowledged>>
  BY DEF SyncEmbedding
<1>2. PICK m \in w.loaded :
        embeddings' \in {embeddings, Put(embeddings, w.id, EmbeddingOf(m))}
  BY DEF SyncEmbedding
<1>3. /\ RequestOK(w, store, Known)
      /\ store[w.id].subject = w.by
      /\ m \in MemoryRecord /\ Sealed(m) /\ m.subject = w.by
  BY <1>1, <1>2, WorkedOn
<1>4. m.embedding_eligible /\ w.id \in Known
  BY <1>1, <1>2, <1>3 DEF RequestOK
<1>5. m.status = "active"
  BY <1>3, <1>4 DEF Sealed
<1>6. EmbeddingOf(m) \in EmbeddingRecord
  BY <1>3 DEF EmbeddingOf, EmbeddingRecord, MemoryRecord
<1>7. EmbeddingsOK(embeddings, store, Known)
  BY DEF IInv
<1>8. EmbeddingsOK(Put(embeddings, w.id, EmbeddingOf(m)), store, Known)
  <2>1. /\ EmbeddingOf(m).status = "active" /\ EmbeddingOf(m).embedding_eligible
        /\ EmbeddingOf(m).subject = store[w.id].subject
    BY <1>3, <1>4, <1>5 DEF EmbeddingOf
  <2>2. QED
    BY <1>4, <1>6, <1>7, <2>1 DEF EmbeddingsOK, Put
<1>9. QED
  BY <1>1, <1>2, <1>7, <1>8, EndIInv DEF IInv

\* So does dropping the embedding of a deleted memory.
LEMMA ForgetEmbeddingIInv ==
  ASSUME IInv, NEW t \in Threads, ForgetEmbedding(t)
  PROVE  IInv'
<1>1. /\ task[t].pc = "embed" /\ Finish(t) /\ UNCHANGED <<store, graph>>
      /\ acknowledged' = acknowledged \cup {task[t].id}
      /\ embeddings' = [id \in DOMAIN embeddings \ {task[t].id} |-> embeddings[id]]
  BY DEF ForgetEmbedding
<1>2. EmbeddingsOK(embeddings', store, Known)
  BY <1>1 DEF IInv, EmbeddingsOK
<1>3. acknowledged' \subseteq MemoryIds
  BY <1>1, WorkedOn DEF IInv
<1>4. QED
  BY <1>1, <1>2, <1>3, EndIInv

\* And so does the failure of either.
LEMMA EmbeddingFailsIInv ==
  ASSUME IInv, NEW t \in Threads, EmbeddingFails(t)
  PROVE  IInv'
  BY EndIInv DEF EmbeddingFails, IInv

------------------------------------------------------------------------------
\* Empty stores and idle threads satisfy the invariant.
LEMMA InitIInv == Init => IInv
  BY GraphStoresAssumption
  DEF Init, IInv, Nothing, StoreOK, CopiesOK, EmbeddingsOK

\* Every step keeps the invariant.
LEMMA NextIInv == IInv /\ [Next]_vars => IInv'
<1> SUFFICES ASSUME IInv, [Next]_vars PROVE IInv'
  OBVIOUS
<1>1. CASE UNCHANGED vars
  BY <1>1 DEF vars, IInv, Known
<1>2. ASSUME NEW t \in Threads, Decide(t) \/ Step(t)
      PROVE  IInv'
  BY <1>2, DecideIInv, StorePutIInv, LoadIInv, SyncGraphIInv, GraphFailsIInv,
     SyncEmbeddingIInv, ForgetEmbeddingIInv, EmbeddingFailsIInv DEF Step
<1>3. QED
  BY <1>1, <1>2 DEF Next

\* The invariant holds in every reachable state.
LEMMA InvariantHolds == Spec => []IInv
<1>1. QED
  BY InitIInv, NextIInv, PTL DEF Spec

------------------------------------------------------------------------------
\* The stores, the copies and the requests under way keep their types, whatever
\* interleaves and whatever fails.
THEOREM TypeCorrect == Spec => []TypeOK
<1>1. IInv => TypeOK
  <2> SUFFICES ASSUME IInv PROVE TypeOK
    OBVIOUS
  <2>1. \A t \in Threads : task[t] = Idle \/ task[t] \in Task
    BY DEF IInv, RequestOK
  <2>2. QED
    BY <2>1 DEF IInv, TypeOK, StoreOK, CopiesOK, EmbeddingsOK
<1>2. QED
  BY <1>1, InvariantHolds, PTL

\* What is embedded is in the graph and what is in the graph was stored first,
\* however requests interleave and whichever store fails.
THEOREM CopiesAlwaysHaveOrigin == Spec => []CopiesHaveOrigin
<1>1. IInv => CopiesHaveOrigin
  <2> SUFFICES ASSUME IInv PROVE CopiesHaveOrigin
    OBVIOUS
  <2>1. \A t \in Threads : InFlight(t) => task[t].id \in DOMAIN store \cup {None}
    BY DEF IInv, InFlight, RequestOK, MayWrite, Owns
  <2>2. QED
    BY <2>1 DEF IInv, CopiesHaveOrigin, CopiesOK, EmbeddingsOK, Known
<1>2. QED
  BY <1>1, InvariantHolds, PTL

\* Copies, snapshots and pending puts belong to the user of the stored memory.
THEOREM OwnersAlwaysAgree == Spec => []OwnersAgree
<1>1. IInv => OwnersAgree
  <2> SUFFICES ASSUME IInv PROVE OwnersAgree
    OBVIOUS
  <2>1. None \notin DOMAIN store
    BY WrittenFacts, NoneIsNoId
  <2>2. ASSUME NEW t \in Threads, InFlight(t)
        PROVE  /\ task[t].id \in DOMAIN store => store[task[t].id].subject = task[t].by
               /\ \A m \in task[t].loaded : m.subject = task[t].by
               /\ \A i \in DOMAIN task[t].puts :
                    /\ task[t].puts[i].memory.subject = task[t].by
                    /\ task[t].puts[i].id \in DOMAIN store =>
                         store[task[t].puts[i].id].subject = task[t].by
    <3>1. RequestOK(task[t], store, Known)
      BY <2>2 DEF IInv, InFlight
    <3>2. QED
      BY <2>1, <3>1 DEF RequestOK, PutOK, MayWrite, Owns
  <2>3. /\ \A g \in GraphStores : \A id \in DOMAIN graph[g] :
             graph[g][id].subject = store[id].subject
        /\ \A id \in DOMAIN embeddings : embeddings[id].subject = store[id].subject
    BY DEF IInv, CopiesOK, EmbeddingsOK
  <2>4. QED
    BY <2>2, <2>3 DEF OwnersAgree
<1>2. QED
  BY <1>1, InvariantHolds, PTL

\* No version of a memory that is stored, copied, held or about to be put is
\* half closed, and only active and eligible memories were ever embedded.
THEOREM NothingIsHalfClosed == Spec => []NothingHalfClosed
<1>1. IInv => NothingHalfClosed
  <2> SUFFICES ASSUME IInv PROVE NothingHalfClosed
    OBVIOUS
  <2>1. ASSUME NEW t \in Threads, InFlight(t)
        PROVE  /\ \A m \in task[t].loaded : Sealed(m)
               /\ \A i \in DOMAIN task[t].puts : Sealed(task[t].puts[i].memory)
    <3>1. RequestOK(task[t], store, Known)
      BY <2>1 DEF IInv, InFlight
    <3>2. QED
      BY <3>1 DEF RequestOK, PutOK
  <2>2. QED
    BY <2>1 DEF IInv, NothingHalfClosed, StoreOK, CopiesOK, EmbeddingsOK
<1>2. QED
  BY <1>1, InvariantHolds, PTL

------------------------------------------------------------------------------
(* A replaced memory has its successor: what the puts of a request say of the  *)
(* lineage of the memories they write.                                         *)

ReplacedStatus == {"corrected", "superseded"}

SameLinks(m, n) == m.correction_of = n.correction_of /\ m.supersedes = n.supersedes

\* What w will put changes no lineage of s, and a memory it closes for another is
\* followed by that other.
Linked(w, s) ==
  \A i \in DOMAIN w.puts :
    LET put == w.puts[i] IN
    /\ put.id \in DOMAIN s => SameLinks(put.memory, s[put.id])
    /\ put.memory.status \in ReplacedStatus =>
         /\ i = 1 /\ put.id # None /\ 2 \in DOMAIN w.puts
         /\ Replaces(w.puts[2].memory, put.id, put.memory.status)

\* Memory id, closed with that status, has a successor in s or in what w will put.
Has(s, id, status) == \E other \in DOMAIN s : Replaces(s[other], id, status)
Awaits(w, id, status) == \E i \in DOMAIN w.puts : Replaces(w.puts[i].memory, id, status)

SuccessionInv ==
  /\ \A t \in Threads : InFlight(t) => Linked(task[t], store)
  /\ \A id \in DOMAIN store : store[id].status \in ReplacedStatus =>
       \/ Has(store, id, store[id].status)
       \/ \E t \in Threads : InFlight(t) /\ Awaits(task[t], id, store[id].status)

\* A request begins, with puts that are linked.
LEMMA BeginSuccession ==
  ASSUME IInv, SuccessionInv, NEW t \in Threads, NEW op, NEW by, NEW id, NEW puts,
         Begin(t, op, by, id, puts), \A w : w.puts = puts => Linked(w, store)
  PROVE  SuccessionInv'
<1> DEFINE v == [op |-> op, pc |-> IF puts = <<>> THEN "load" ELSE "put",
                 by |-> by, id |-> id, puts |-> puts, loaded |-> {}]
<1>1. v.puts = puts
  OBVIOUS
<1>2. task[t] = Idle /\ task' = [task EXCEPT ![t] = v] /\ UNCHANGED store
  BY DEF Begin
<1> HIDE DEF v
<1>3. Linked(v, store)
  BY <1>1
<1>4. task'[t] = v /\ \A s \in Threads : s # t => task'[s] = task[s]
  BY <1>2 DEF IInv
<1>5. \A s \in Threads : InFlight(s) => s # t
  BY <1>2 DEF InFlight
<1>6. \A s \in Threads : InFlight(s)' => Linked(task'[s], store')
  BY <1>2, <1>3, <1>4 DEF SuccessionInv, InFlight
<1>7. \A s \in Threads : InFlight(s) => InFlight(s)' /\ task'[s] = task[s]
  BY <1>4, <1>5 DEF InFlight
<1>8. QED
  BY <1>2, <1>6, <1>7 DEF SuccessionInv

\* One put, of a memory that is not closed for another.
LEMMA BeginOneSuccession ==
  ASSUME IInv, SuccessionInv, NEW t \in Threads, NEW op, NEW by, NEW id, NEW x, NEW m,
         Begin(t, op, by, id, <<Stored(x, m)>>), m.status \notin ReplacedStatus,
         x \in DOMAIN store => SameLinks(m, store[x])
  PROVE  SuccessionInv'
<1>1. \A w : w.puts = <<Stored(x, m)>> => Linked(w, store)
  BY DEF Linked, Stored
<1>2. QED
  BY <1>1, BeginSuccession

\* Two puts, of a memory closed for another and of that other.
LEMMA BeginTwoSuccession ==
  ASSUME IInv, SuccessionInv, NEW t \in Threads, NEW op, NEW by, NEW id,
         NEW x \in DOMAIN store, NEW m, NEW n,
         Begin(t, op, by, id, <<Stored(x, m), Stored(None, n)>>),
         SameLinks(m, store[x]), n.status = "active", Replaces(n, x, m.status)
  PROVE  SuccessionInv'
<1>1. None \notin DOMAIN store
  BY WrittenFacts, NoneIsNoId
<1>2. x # None
  BY <1>1
<1>3. \A w : w.puts = <<Stored(x, m), Stored(None, n)>> => Linked(w, store)
  BY <1>1, <1>2 DEF Linked, Stored, ReplacedStatus
<1>4. QED
  BY <1>3, BeginSuccession

\* Every decision keeps the lineage.
LEMMA DecideSuccession ==
  ASSUME IInv, SuccessionInv, NEW t \in Threads, Decide(t)
  PROVE  SuccessionInv'
<1>1. \A id \in DOMAIN store : store[id] \in MemoryRecord
  BY DEF IInv, StoreOK
<1>2. None \notin DOMAIN store
  BY WrittenFacts, NoneIsNoId
<1>3. ASSUME NEW c \in Candidate, NEW p \in Policies, NEW at \in Times,
             DecideWrite(t, c, p, at)
      PROVE  SuccessionInv'
  <2>1. ASSUME NEW id \in FindEquivalent(store, c),
               Begin(t, "write", c.subject, id, <<Stored(id, Reinforce(store[id], c))>>)
        PROVE  SuccessionInv'
    <3> DEFINE m == Reinforce(store[id], c)
    <3>1. id \in DOMAIN store /\ store[id].status = "active"
      BY <2>1 DEF FindEquivalent, Equivalents
    <3>2. m.status \notin ReplacedStatus /\ SameLinks(m, store[id])
      BY <1>1, <3>1 DEF Reinforce, ReplacedStatus, SameLinks, MemoryRecord
    <3> HIDE DEF m
    <3>3. Begin(t, "write", c.subject, id, <<Stored(id, m)>>)
      BY <2>1 DEF m
    <3>4. QED
      BY <3>2, <3>3, BeginOneSuccession
  <2>2. ASSUME Begin(t, "write", c.subject, None, <<Stored(None, NewRecord(c, p, at))>>)
        PROVE  SuccessionInv'
    <3>1. NewRecord(c, p, at).status \notin ReplacedStatus
      BY DEF NewRecord, ReplacedStatus
    <3>2. QED
      BY <1>2, <2>2, <3>1, BeginOneSuccession
  <2>3. QED
    BY <1>3, <2>1, <2>2 DEF DecideWrite
<1>4. ASSUME NEW id \in DOMAIN store, NEW at, NEW status
      PROVE  /\ SameLinks(Close(store[id], at, status), store[id])
             /\ Close(store[id], at, status).status = status
  BY <1>1, <1>4 DEF Close, SameLinks, MemoryRecord
<1>5. ASSUME NEW target \in MemoryIds, NEW c \in Candidate, NEW p \in Policies,
             NEW at \in Times, NEW op, DecideCorrect(t, op, target, c, p, at)
      PROVE  SuccessionInv'
  <2> DEFINE m == Close(store[target], at, "corrected")
             n == Correction(c, p, at, target)
  <2>1. target \in DOMAIN store /\ SameLinks(m, store[target]) /\ m.status = "corrected"
    BY <1>4, <1>5 DEF DecideCorrect, Owns
  <2>2. n.status = "active" /\ n.correction_of = target
    BY DEF Correction, NewRecord
  <2>3. Begin(t, op, c.subject, target, <<Stored(target, m), Stored(None, n)>>)
    BY <1>5 DEF DecideCorrect
  <2> HIDE DEF m, n
  <2>4. QED
    BY <2>1, <2>2, <2>3, BeginTwoSuccession DEF Replaces
<1>6. ASSUME NEW target \in MemoryIds, NEW c \in Candidate, NEW p \in Policies,
             NEW at \in Times, DecideSupersede(t, target, c, p, at)
      PROVE  SuccessionInv'
  <2> DEFINE m == Close(store[target], at, "superseded")
             n == Supersession(c, p, at, target)
  <2>1. target \in DOMAIN store /\ SameLinks(m, store[target]) /\ m.status = "superseded"
    BY <1>4, <1>6 DEF DecideSupersede, Owns
  <2>2. n.status = "active" /\ n.supersedes = target
    BY DEF Supersession, NewRecord
  <2>3. Begin(t, "supersede", c.subject, target, <<Stored(target, m), Stored(None, n)>>)
    BY <1>6 DEF DecideSupersede
  <2> HIDE DEF m, n
  <2>4. QED
    BY <2>1, <2>2, <2>3, BeginTwoSuccession DEF Replaces
<1>7. ASSUME NEW by \in Subjects, NEW id \in MemoryIds, NEW at \in Times,
             DecideDelete(t, by, id, at)
      PROVE  SuccessionInv'
  <2> DEFINE m == [Close(store[id], at, "deleted") EXCEPT !.status = "pending_deletion"]
  <2>1. id \in DOMAIN store
    BY <1>7 DEF DecideDelete, Owns
  <2>2. m.status \notin ReplacedStatus /\ SameLinks(m, store[id])
    BY <1>1, <2>1 DEF Close, SameLinks, MemoryRecord, ReplacedStatus
  <2>3. CASE Begin(t, "delete", by, id, <<>>)
    <3>1. \A w : w.puts = <<>> => Linked(w, store)
      BY DEF Linked
    <3>2. QED
      BY <2>3, <3>1, BeginSuccession
  <2>4. CASE Begin(t, "delete", by, id, <<Stored(id, m)>>)
    <3> HIDE DEF m
    <3>1. QED
      BY <2>2, <2>4, BeginOneSuccession
  <2>5. QED
    BY <1>7, <2>3, <2>4 DEF DecideDelete
<1>8. ASSUME NEW by \in Subjects, NEW id \in MemoryIds, NEW at \in Times,
             DecideExpire(t, by, id, at)
      PROVE  SuccessionInv'
  <2> DEFINE m == Close(store[id], at, "expired")
  <2>1. SameLinks(m, store[id]) /\ m.status \notin ReplacedStatus
    BY <1>4, <1>8 DEF DecideExpire, Owns, ReplacedStatus
  <2>2. Begin(t, "expire", by, id, <<Stored(id, m)>>)
    BY <1>8 DEF DecideExpire
  <2> HIDE DEF m
  <2>3. QED
    BY <2>1, <2>2, BeginOneSuccession
<1>9. ASSUME NEW by \in Subjects, NEW id \in MemoryIds, NEW fact \in Facts,
             NEW p \in Policies, DecideUpdate(t, by, id, fact, p)
      PROVE  SuccessionInv'
  <2> DEFINE m == [store[id] EXCEPT !.fact = fact,
                                    !.retrieval_eligible = p.retrieval_eligible,
                                    !.embedding_eligible = p.embedding_eligible]
  <2>1. id \in DOMAIN store /\ store[id].status = "active"
    BY <1>9 DEF DecideUpdate, Owns
  <2>2. m.status \notin ReplacedStatus /\ SameLinks(m, store[id])
    BY <1>1, <2>1 DEF SameLinks, MemoryRecord, ReplacedStatus
  <2>3. Begin(t, "update", by, id, <<Stored(id, m)>>)
    BY <1>9 DEF DecideUpdate
  <2> HIDE DEF m
  <2>4. QED
    BY <2>2, <2>3, BeginOneSuccession
<1>10. QED
  BY <1>3, <1>5, <1>6, <1>7, <1>8, <1>9 DEF Decide

\* A put changes no lineage, is followed by the successor of what it closes, or is
\* itself the successor that was awaited.
LEMMA PutSuccession ==
  ASSUME IInv, SuccessionInv, NEW t \in Threads, StorePut(t)
  PROVE  SuccessionInv'
<1> DEFINE w == task[t]
           put == Head(w.puts)
<1>1. w.pc = "put" /\ w # Idle /\ InFlight(t)
  BY DEF StorePut, Idle, InFlight
<1>2. RequestOK(w, store, Known) /\ w \in Task /\ Linked(w, store)
  BY <1>1, RequestFacts DEF SuccessionInv
<1>3. w.puts \in Seq(PendingPut) /\ w.puts # <<>>
  BY <1>1, <1>2 DEF RequestOK, Task
<1>4. /\ put = w.puts[1] /\ 1 \in DOMAIN w.puts
      /\ \A i \in DOMAIN Tail(w.puts) : Tail(w.puts)[i] = w.puts[i + 1] /\ i + 1 \in DOMAIN w.puts
      /\ \A i \in DOMAIN w.puts : i # 1 =>
           i - 1 \in DOMAIN Tail(w.puts) /\ Tail(w.puts)[i - 1] = w.puts[i]
  BY <1>3
<1>5. PICK id \in IF put.id = None THEN FreshIds(store) ELSE {put.id} :
        /\ store' = Put(store, id, put.memory)
        /\ task' = [task EXCEPT ![t] = AfterPut(w, id)]
  BY DEF StorePut
<1>6. \A s \in Threads : s # t => task'[s] = task[s]
  BY <1>5
<1>7. task'[t] = AfterPut(w, id)
  BY <1>5 DEF IInv
<1>8. id \in DOMAIN store => put.id = id /\ SameLinks(put.memory, store[id])
  <2>1. CASE put.id = None
    BY <1>5, <2>1, MaxMemoriesAssumption DEF FreshIds, MemoryIds
  <2>2. CASE put.id # None
    <3>1. id = put.id
      BY <1>5, <2>2
    <3>2. w.puts[1].id \in DOMAIN store => SameLinks(w.puts[1].memory, store[w.puts[1].id])
      BY <1>2, <1>4 DEF Linked
    <3>3. QED
      BY <1>4, <3>1, <3>2
  <2>3. QED
    BY <2>1, <2>2
<1> HIDE DEF put, w
<1>9. /\ DOMAIN store' = DOMAIN store \cup {id} /\ store'[id] = put.memory
      /\ \A x \in DOMAIN store : x # id => store'[x] = store[x]
      /\ \A x \in DOMAIN store : SameLinks(store'[x], store[x])
  BY <1>5, <1>8 DEF Put, SameLinks
<1>10. AfterPut(w, id) = Idle \/ AfterPut(w, id).puts = Tail(w.puts)
  BY <1>2 DEF AfterPut, Task
<1>11. ASSUME NEW i \in DOMAIN w.puts, i # 1
       PROVE  /\ AfterPut(w, id) # Idle
              /\ i - 1 \in DOMAIN AfterPut(w, id).puts
              /\ AfterPut(w, id).puts[i - 1] = w.puts[i]
  <2>1. Tail(w.puts) # <<>>
    <3>1. DOMAIN <<>> = {}
      OBVIOUS
    <3>2. QED
      BY <1>4, <1>11, <3>1
  <2>2. AfterPut(w, id) = [w EXCEPT !.puts = Tail(@)]
    BY <2>1 DEF AfterPut
  <2>3. AfterPut(w, id).puts = Tail(w.puts) /\ AfterPut(w, id).pc = "put"
    BY <1>1, <1>2, <2>2 DEF Task
  <2>4. QED
    BY <1>4, <1>11, <2>3 DEF Idle
<1>12. ASSUME NEW v, NEW by, Linked(v, store),
              \A i \in DOMAIN v.puts : MayWrite(by, v.puts[i].id, store)
       PROVE  Linked(v, store')
  <2>1. ASSUME NEW i \in DOMAIN v.puts, v.puts[i].id \in DOMAIN store'
        PROVE  SameLinks(v.puts[i].memory, store'[v.puts[i].id])
    <3>1. None \notin DOMAIN store'
      BY NextIInv, StorePutIInv, NoneIsNoId DEF IInv, StoreOK
    <3>2. v.puts[i].id \in DOMAIN store
      BY <1>12, <2>1, <3>1 DEF MayWrite, Owns
    <3>3. QED
      BY <1>9, <1>12, <2>1, <3>2 DEF Linked, SameLinks
  <2>2. QED
    BY <1>12, <2>1 DEF Linked
<1>13. \A v : RequestOK(v, store, Known) => \A i \in DOMAIN v.puts : MayWrite(v.by, v.puts[i].id, store)
  BY DEF RequestOK, PutOK
<1>14. ASSUME NEW s \in Threads, InFlight(s)'
       PROVE  Linked(task'[s], store')
  <2>1. CASE s # t
    <3>1. task'[s] = task[s] /\ InFlight(s)
      BY <1>6, <1>14, <2>1 DEF InFlight
    <3>2. Linked(task[s], store) /\ RequestOK(task[s], store, Known)
      BY <3>1, RequestFacts DEF SuccessionInv, InFlight
    <3>3. QED
      BY <1>12, <1>13, <3>1, <3>2
  <2>2. CASE s = t
    <3>1. task'[s].puts = Tail(w.puts)
      BY <1>7, <1>10, <1>14, <2>2 DEF InFlight
    <3>2. Linked(w, store')
      BY <1>2, <1>12, <1>13
    <3>3. ASSUME NEW i \in DOMAIN Tail(w.puts)
          PROVE  /\ Tail(w.puts)[i].id \in DOMAIN store' =>
                      SameLinks(Tail(w.puts)[i].memory, store'[Tail(w.puts)[i].id])
                 /\ Tail(w.puts)[i].memory.status \notin ReplacedStatus
      <4>1. i + 1 \in DOMAIN w.puts /\ Tail(w.puts)[i] = w.puts[i + 1] /\ i + 1 # 1
        BY <1>3, <1>4, <3>3
      <4>2. QED
        BY <3>2, <4>1 DEF Linked
    <3>4. QED
      BY <3>1, <3>3 DEF Linked
  <2>3. QED
    BY <2>1, <2>2
<1>15. ASSUME NEW x \in DOMAIN store', store'[x].status \in ReplacedStatus
       PROVE  \/ Has(store', x, store'[x].status)
              \/ \E s \in Threads : InFlight(s)' /\ Awaits(task'[s], x, store'[x].status)
  <2>1. \A i \in DOMAIN w.puts : i # 1 /\ Replaces(w.puts[i].memory, x, store'[x].status) =>
          InFlight(t)' /\ Awaits(task'[t], x, store'[x].status)
    BY <1>7, <1>11 DEF InFlight, Awaits
  <2>2. CASE x = id
    <3>1. put.memory.status \in ReplacedStatus /\ store'[x] = put.memory
      BY <1>9, <1>15, <2>2
    <3>2. /\ put.id # None /\ 2 \in DOMAIN w.puts
          /\ Replaces(w.puts[2].memory, put.id, put.memory.status)
      BY <1>2, <1>4, <3>1 DEF Linked
    <3>3. x = put.id
      BY <1>5, <2>2, <3>2
    <3>4. QED
      BY <2>1, <3>1, <3>2, <3>3
  <2>3. CASE x # id
    <3>1. x \in DOMAIN store /\ store'[x] = store[x]
      BY <1>9, <2>3
    <3>2. CASE Has(store, x, store[x].status)
      <4>1. PICK other \in DOMAIN store : Replaces(store[other], x, store[x].status)
        BY <3>2 DEF Has
      <4>2. other \in DOMAIN store' /\ Replaces(store'[other], x, store[x].status)
        BY <1>9, <4>1 DEF Replaces, SameLinks
      <4>3. QED
        BY <3>1, <4>2 DEF Has
    <3>3. ASSUME NEW s \in Threads, InFlight(s), Awaits(task[s], x, store[x].status)
          PROVE  \/ Has(store', x, store'[x].status)
                 \/ \E r \in Threads : InFlight(r)' /\ Awaits(task'[r], x, store'[x].status)
      <4>1. CASE s # t
        BY <1>6, <3>1, <3>3, <4>1 DEF InFlight
      <4>2. CASE s = t
        <5>1. PICK i \in DOMAIN w.puts : Replaces(w.puts[i].memory, x, store[x].status)
          BY <3>3, <4>2 DEF Awaits, w
        <5>2. CASE i # 1
          BY <2>1, <3>1, <5>1, <5>2
        <5>3. CASE i = 1
          <6>1. Replaces(store'[id], x, store'[x].status) /\ id \in DOMAIN store'
            BY <1>4, <1>9, <3>1, <5>1, <5>3
          <6>2. QED
            BY <6>1 DEF Has
        <5>4. QED
          BY <5>2, <5>3
      <4>3. QED
        BY <4>1, <4>2
    <3>4. QED
      BY <1>15, <3>1, <3>2, <3>3 DEF SuccessionInv
  <2>4. QED
    BY <2>2, <2>3
<1>16. QED
  BY <1>14, <1>15 DEF SuccessionInv

\* A request that has made its puts awaits nothing, whatever becomes of its copies.
LEMMA CopyStepSuccession ==
  ASSUME IInv, SuccessionInv, NEW t \in Threads,
         LoadMemory(t) \/ SyncGraph(t) \/ GraphFails(t) \/ SyncEmbedding(t)
           \/ ForgetEmbedding(t) \/ EmbeddingFails(t)
  PROVE  SuccessionInv'
<1>1. task[t].pc \in {"load", "graph", "embed"} /\ UNCHANGED store
  BY DEF LoadMemory, SyncGraph, GraphFails, SyncEmbedding, ForgetEmbedding, EmbeddingFails
<1>2. task[t] \in Task /\ task[t].puts = <<>>
  BY <1>1, WorkedOn DEF RequestOK
<1>3. task[t].op \in Operations
  BY <1>2 DEF Task
<1>4. \A s \in Threads : s # t => task'[s] = task[s]
  <2> DOMAIN task = Threads
    BY DEF IInv
  <2>1. CASE LoadMemory(t)
    BY <2>1 DEF LoadMemory
  <2>2. CASE SyncGraph(t)
    BY <2>2 DEF SyncGraph, Finish
  <2>3. CASE GraphFails(t) \/ SyncEmbedding(t) \/ ForgetEmbedding(t) \/ EmbeddingFails(t)
    <3>1. Finish(t) \/ Abort(t)
      BY <2>3 DEF GraphFails, SyncEmbedding, ForgetEmbedding, EmbeddingFails
    <3>2. QED
      BY <3>1 DEF Finish, Abort
  <2>4. QED
    BY <2>1, <2>2, <2>3
<1>5. task'[t] = Idle \/ task'[t].puts = <<>>
  BY <1>2 DEF LoadMemory, SyncGraph, GraphFails, SyncEmbedding, ForgetEmbedding,
     EmbeddingFails, Finish, Abort, IInv, Task
<1>6. \A s \in Threads : InFlight(s)' => Linked(task'[s], store')
  BY <1>1, <1>4, <1>5 DEF SuccessionInv, InFlight, Linked
<1>7. \A id, status : ~Awaits(task[t], id, status)
  BY <1>2 DEF Awaits
<1>8. QED
  BY <1>1, <1>4, <1>6, <1>7 DEF SuccessionInv, InFlight

\* A memory that was closed for another has that other, or the request that is
\* about to put it, however requests interleave and whichever store fails.
THEOREM ReplacedIsAlwaysSucceeded == Spec => []ReplacedIsSucceeded
<1>1. Init => SuccessionInv
  BY DEF Init, SuccessionInv, InFlight, Nothing
<1>2. IInv /\ SuccessionInv /\ [Next]_vars => SuccessionInv'
  <2> SUFFICES ASSUME IInv, SuccessionInv, [Next]_vars PROVE SuccessionInv'
    OBVIOUS
  <2>1. CASE UNCHANGED vars
    BY <2>1 DEF vars, SuccessionInv, InFlight
  <2>2. ASSUME NEW t \in Threads, Decide(t) \/ Step(t)
        PROVE  SuccessionInv'
    BY <2>2, DecideSuccession, PutSuccession, CopyStepSuccession DEF Step
  <2>3. QED
    BY <2>1, <2>2 DEF Next
<1>3. SuccessionInv => ReplacedIsSucceeded
  BY DEF SuccessionInv, ReplacedIsSucceeded, Has, Awaits, ReplacedStatus
<1>4. QED
  BY <1>1, <1>2, <1>3, InvariantHolds, PTL DEF Spec
==============================================================================
