------------------------ MODULE MemoryLifecycleProofs ------------------------
(***************************************************************************)
(* Theorems about MemoryLifecycle, for every number of users, facts,       *)
(* events, memories and instants.                                          *)
(***************************************************************************)
EXTENDS MemoryLifecycle, TLAPS

------------------------------------------------------------------------------
(* Facts about the helpers. *)

\* Storing under an id changes that id and no other.
LEMMA PutFacts ==
  ASSUME NEW s, NEW id, NEW m
  PROVE  /\ DOMAIN Put(s, id, m) = DOMAIN s \cup {id}
         /\ Put(s, id, m)[id] = m
         /\ \A x \in DOMAIN s : x # id => Put(s, id, m)[x] = s[x]
  BY DEF Put

\* A fresh id is a memory id above every id in use.
LEMMA FreshFacts ==
  ASSUME NEW s, NEW id \in FreshIds(s)
  PROVE  /\ id \in MemoryIds
         /\ id \notin DOMAIN s
         /\ \A x \in DOMAIN s : x < id
  BY MaxMemoriesAssumption DEF FreshIds, MemoryIds

\* What create finds is an active memory of the candidate's user.
LEMMA FindEquivalentFacts ==
  ASSUME NEW s, NEW c, NEW id \in FindEquivalent(s, c)
  PROVE  id \in DOMAIN s /\ s[id].subject = c.subject /\ s[id].status = "active"
  BY DEF FindEquivalent, Equivalents

------------------------------------------------------------------------------
(* Records made by the operations are records. *)

\* The record create makes of a candidate is a memory record.
LEMMA NewRecordType ==
  ASSUME NEW c \in Candidate, NEW p \in PolicyDecision, NEW at \in Times
  PROVE  NewRecord(c, p, at) \in MemoryRecord
  BY DEF NewRecord, Candidate, PolicyDecision, MemoryRecord, MemoryStatus

\* So are the records that correct and supersede store as the successor.
LEMMA ReplacementType ==
  ASSUME NEW c \in Candidate, NEW p \in PolicyDecision, NEW at \in Times,
         NEW old \in MemoryIds
  PROVE  /\ Correction(c, p, at, old) \in MemoryRecord
         /\ Supersession(c, p, at, old) \in MemoryRecord
  BY DEF Correction, Supersession, NewRecord, Candidate, PolicyDecision,
         MemoryRecord, MemoryStatus

\* Closing a record leaves a memory record.
LEMMA CloseType ==
  ASSUME NEW m \in MemoryRecord, NEW at \in Times, NEW status \in MemoryStatus
  PROVE  /\ Close(m, at, status) \in MemoryRecord
         /\ [Close(m, at, "deleted") EXCEPT !.status = "pending_deletion"]
              \in MemoryRecord
  BY DEF Close, MemoryRecord, MemoryStatus

\* Merging evidence into a record leaves a memory record.
LEMMA ReinforceType ==
  ASSUME NEW m \in MemoryRecord, NEW c \in Candidate
  PROVE  Reinforce(m, c) \in MemoryRecord
  BY DEF Reinforce, MemoryRecord, Candidate

------------------------------------------------------------------------------
(* Every step of the service has one of three shapes.  The invariants are     *)
(* proved from the shapes.                                                     *)

IInv == TypeOK /\ ClosedIsSealed /\ LineageIsSound

\* m is a version of old: what identifies a memory has not moved.
SameMemory(m, old) ==
  /\ m.subject = old.subject
  /\ m.valid_from = old.valid_from
  /\ m.correction_of = old.correction_of
  /\ m.supersedes = old.supersedes
  /\ old.sources \subseteq m.sources

InUse(m) == m.status = "active" /\ m.valid_to = None

Kept(m, old) == SameMemory(m, old) /\ InUse(m) /\ old.status = "active"

Shut(m, old) ==
  /\ SameMemory(m, old)
  /\ m.status # "active"
  /\ m.status \in StatusMoves[old.status]
  /\ m.valid_to \in Times
  /\ m.valid_from <= m.valid_to
  /\ ~m.retrieval_eligible /\ ~m.embedding_eligible

BirthStep ==
  \E id \in FreshIds(store), m \in MemoryRecord :
    /\ InUse(m) /\ m.correction_of = None /\ m.supersedes = None
    /\ store' = Put(store, id, m)

ChangeStep ==
  \E id \in DOMAIN store, m \in MemoryRecord :
    /\ Kept(m, store[id]) \/ Shut(m, store[id])
    /\ store' = Put(store, id, m)

ReplaceStep ==
  \E old \in DOMAIN store, id \in FreshIds(store), m, n \in MemoryRecord :
    /\ Shut(m, store[old]) /\ m.status \in {"superseded", "corrected"}
    /\ InUse(n) /\ Links(n) = {old}
    /\ n.subject = store[old].subject
    /\ store[old].valid_from <= n.valid_from
    /\ store' = Put(Put(store, old, m), id, n)

\* An active memory may take any status but "deleted" in one step.
LEMMA ActiveMoves == StatusMoves["active"] = MemoryStatus \ {"deleted"}
  BY DEF StatusMoves, MemoryStatus

\* Closing an open or a replaced memory shuts it.
LEMMA CloseShuts ==
  ASSUME NEW m \in MemoryRecord, NEW at \in Times, CanClose(m, at),
         NEW status \in StatusMoves[m.status], status # "active"
  PROVE  Shut(Close(m, at, status), m)
  BY DEF Shut, Close, SameMemory, CanClose, MemoryRecord

\* The first write of a deletion shuts the memory too.
LEMMA DeleteShuts ==
  ASSUME NEW m \in MemoryRecord, NEW at \in Times, CanClose(m, at),
         m.status = "active"
  PROVE  Shut([Close(m, at, "deleted") EXCEPT !.status = "pending_deletion"], m)
  BY DEF Shut, Close, SameMemory, CanClose, MemoryRecord, StatusMoves, MemoryStatus

\* create either merges into an existing memory or stores a new one.
LEMMA CreateShape ==
  ASSUME IInv, NEW c \in Candidate, NEW p \in PolicyDecision, NEW at \in Times,
         Create(c, p, at)
  PROVE  BirthStep \/ ChangeStep
<1>1. CASE \E id \in FindEquivalent(store, c) :
             store' = Put(store, id, Reinforce(store[id], c))
  <2>1. PICK id \in FindEquivalent(store, c) :
               store' = Put(store, id, Reinforce(store[id], c))
    BY <1>1
  <2>2. id \in DOMAIN store /\ store[id].status = "active"
    BY FindEquivalentFacts
  <2>3. store[id] \in MemoryRecord /\ store[id].valid_to = None
    BY <2>2 DEF IInv, TypeOK, ClosedIsSealed
  <2>4. Reinforce(store[id], c) \in MemoryRecord
    BY <2>3, ReinforceType
  <2>5. Kept(Reinforce(store[id], c), store[id])
    BY <2>2, <2>3 DEF Kept, SameMemory, InUse, Reinforce, MemoryRecord
  <2>6. QED
    BY <2>1, <2>2, <2>4, <2>5 DEF ChangeStep
<1>2. CASE \E id \in FreshIds(store) : store' = Put(store, id, NewRecord(c, p, at))
  <2>1. NewRecord(c, p, at) \in MemoryRecord
    BY NewRecordType
  <2>2. /\ InUse(NewRecord(c, p, at))
        /\ NewRecord(c, p, at).correction_of = None
        /\ NewRecord(c, p, at).supersedes = None
    BY DEF NewRecord, InUse
  <2>3. QED
    BY <1>2, <2>1, <2>2 DEF BirthStep
<1>3. QED
  BY <1>1, <1>2 DEF Create

\* Replaceable is what makes both replacing statuses legal moves.
LEMMA ReplaceableMoves ==
  ASSUME NEW m \in MemoryRecord, Replaceable(m)
  PROVE  {"superseded", "corrected", "expired"} \subseteq StatusMoves[m.status]
  BY DEF Replaceable, Deleting, StatusMoves, MemoryRecord, MemoryStatus

\* correct and supersede shut the old memory and store its successor.
LEMMA ReplaceShape ==
  ASSUME IInv, NEW target \in MemoryIds, NEW c \in Candidate,
         NEW p \in PolicyDecision, NEW at \in Times,
         Supersede(target, c, p, at) \/ Correct(target, c, p, at)
  PROVE  ReplaceStep
<1>1. /\ target \in DOMAIN store
      /\ store[target].subject = c.subject
      /\ Replaceable(store[target])
      /\ CanClose(store[target], at)
  BY DEF Supersede, Correct, Owns
<1>2. store[target] \in MemoryRecord
  BY <1>1 DEF IInv, TypeOK
<1>3. {"superseded", "corrected"} \subseteq StatusMoves[store[target].status]
  BY <1>1, <1>2, ReplaceableMoves
<1>4. \A status \in {"superseded", "corrected"} :
        /\ Close(store[target], at, status) \in MemoryRecord
        /\ Shut(Close(store[target], at, status), store[target])
        /\ Close(store[target], at, status).status = status
  <2>1. SUFFICES ASSUME NEW status \in {"superseded", "corrected"}
                 PROVE  /\ Close(store[target], at, status) \in MemoryRecord
                        /\ Shut(Close(store[target], at, status), store[target])
                        /\ Close(store[target], at, status).status = status
    OBVIOUS
  <2>2. Close(store[target], at, status) \in MemoryRecord
    BY <1>2, CloseType DEF MemoryStatus
  <2>3. Shut(Close(store[target], at, status), store[target])
    BY <1>1, <1>2, <1>3, CloseShuts
  <2>4. Close(store[target], at, status).status = status
    BY <1>2 DEF Close, MemoryRecord
  <2>5. QED
    BY <2>2, <2>3, <2>4
<1>5. \A n \in {Supersession(c, p, at, target), Correction(c, p, at, target)} :
        /\ n \in MemoryRecord
        /\ InUse(n) /\ Links(n) = {target}
        /\ n.subject = store[target].subject
        /\ store[target].valid_from <= n.valid_from
  <2>1. target # None
    BY DEF MemoryIds, None
  <2>2. store[target].valid_from <= at
    BY <1>1, <1>2 DEF CanClose, MemoryRecord, Times
  <2>3. /\ Supersession(c, p, at, target) \in MemoryRecord
        /\ Correction(c, p, at, target) \in MemoryRecord
    BY ReplacementType
  <2>4. /\ InUse(Supersession(c, p, at, target))
        /\ Supersession(c, p, at, target).subject = c.subject
        /\ Supersession(c, p, at, target).valid_from = at
        /\ Supersession(c, p, at, target).supersedes = target
        /\ Supersession(c, p, at, target).correction_of = None
    BY DEF Supersession, NewRecord, InUse
  <2>5. /\ InUse(Correction(c, p, at, target))
        /\ Correction(c, p, at, target).subject = c.subject
        /\ Correction(c, p, at, target).valid_from = at
        /\ Correction(c, p, at, target).supersedes = None
        /\ Correction(c, p, at, target).correction_of = target
    BY DEF Correction, NewRecord, InUse
  <2>6. /\ Links(Supersession(c, p, at, target)) = {target}
        /\ Links(Correction(c, p, at, target)) = {target}
    BY <2>1, <2>4, <2>5 DEF Links
  <2>7. QED
    BY <1>1, <2>2, <2>3, <2>4, <2>5, <2>6
<1>6. CASE Supersede(target, c, p, at)
  <2>1. PICK id \in FreshIds(store) :
          store' = Put(Put(store, target, Close(store[target], at, "superseded")),
                       id, Supersession(c, p, at, target))
    BY <1>6 DEF Supersede
  <2>2. QED
    BY <1>1, <1>4, <1>5, <2>1 DEF ReplaceStep
<1>7. CASE Correct(target, c, p, at)
  <2>1. PICK id \in FreshIds(store) :
          store' = Put(Put(store, target, Close(store[target], at, "corrected")),
                       id, Correction(c, p, at, target))
    BY <1>7 DEF Correct
  <2>2. QED
    BY <1>1, <1>4, <1>5, <2>1 DEF ReplaceStep
<1>8. QED
  BY <1>6, <1>7

\* update and retain keep the memory they change in use.
LEMMA UpdateShape ==
  ASSUME IInv, NEW subject \in Subjects, NEW id \in MemoryIds, NEW fact \in Facts,
         NEW p \in PolicyDecision, Update(subject, id, fact, p)
  PROVE  ChangeStep
<1> DEFINE m == [store[id] EXCEPT !.fact = fact,
                                  !.retrieval_eligible = p.retrieval_eligible,
                                  !.embedding_eligible = p.embedding_eligible]
<1>1. id \in DOMAIN store /\ store[id].status = "active" /\ store' = Put(store, id, m)
  BY DEF Update, Owns
<1>2. store[id] \in MemoryRecord /\ store[id].valid_to = None
  BY <1>1 DEF IInv, TypeOK, ClosedIsSealed
<1>3. m \in MemoryRecord
  BY <1>2 DEF MemoryRecord, PolicyDecision
<1>4. Kept(m, store[id])
  BY <1>1, <1>2 DEF Kept, SameMemory, InUse, MemoryRecord
<1>5. QED
  BY <1>1, <1>3, <1>4 DEF ChangeStep

\* expire shuts the memory or leaves the store alone.
LEMMA ExpireShape ==
  ASSUME IInv, NEW subject \in Subjects, NEW id \in MemoryIds, NEW at \in Times,
         Expire(subject, id, at)
  PROVE  ChangeStep \/ UNCHANGED store
<1>1. CASE UNCHANGED store
  BY <1>1
<1>2. CASE ~UNCHANGED store
  <2>1. /\ id \in DOMAIN store
        /\ Replaceable(store[id]) /\ CanClose(store[id], at)
        /\ store' = Put(store, id, Close(store[id], at, "expired"))
    BY <1>2 DEF Expire, Owns
  <2>2. store[id] \in MemoryRecord
    BY <2>1 DEF IInv, TypeOK
  <2>3. Close(store[id], at, "expired") \in MemoryRecord
    BY <2>2, CloseType DEF MemoryStatus
  <2>4. Shut(Close(store[id], at, "expired"), store[id])
    BY <2>1, <2>2, CloseShuts, ReplaceableMoves
  <2>5. QED
    BY <2>1, <2>3, <2>4 DEF ChangeStep
<1>3. QED
  BY <1>1, <1>2

\* Each write of a deletion shuts the memory.
LEMMA DeleteShape ==
  ASSUME IInv, NEW subject \in Subjects, NEW id \in MemoryIds, NEW at \in Times,
         Delete(subject, id, at)
  PROVE  ChangeStep \/ UNCHANGED store
<1> DEFINE m == [Close(store[id], at, "deleted") EXCEPT !.status = "pending_deletion"]
<1>1. CASE UNCHANGED store
  BY <1>1
<1>2. CASE ~UNCHANGED store
  <2>1. /\ id \in DOMAIN store
        /\ store[id].status = "active" /\ CanClose(store[id], at)
        /\ store' = Put(store, id, m)
    BY <1>2 DEF Delete, Owns
  <2>2. store[id] \in MemoryRecord
    BY <2>1 DEF IInv, TypeOK
  <2>3. m \in MemoryRecord
    BY <2>2, CloseType DEF MemoryStatus
  <2>4. Shut(m, store[id])
    BY <2>1, <2>2, DeleteShuts
  <2>5. QED
    BY <2>1, <2>3, <2>4 DEF ChangeStep
<1>3. QED
  BY <1>1, <1>2

\* The shapes cover the specification.
LEMMA StepShape ==
  ASSUME IInv, [Next]_store
  PROVE  BirthStep \/ ChangeStep \/ ReplaceStep \/ UNCHANGED store
<1>1. CASE \E c \in Candidate, p \in PolicyDecision, at \in Times : Create(c, p, at)
  BY <1>1, CreateShape
<1>2. CASE \E target \in MemoryIds, c \in Candidate, p \in PolicyDecision, at \in Times :
             Supersede(target, c, p, at) \/ Correct(target, c, p, at)
  BY <1>2, ReplaceShape
<1>3. CASE \E subject \in Subjects, id \in MemoryIds, fact \in Facts, p \in PolicyDecision :
             Update(subject, id, fact, p)
  BY <1>3, UpdateShape
<1>4. CASE \E subject \in Subjects, id \in MemoryIds : Retain(subject, id)
  BY <1>4 DEF Retain
<1>5. CASE \E subject \in Subjects, id \in MemoryIds, at \in Times :
             Expire(subject, id, at) \/ Delete(subject, id, at)
  BY <1>5, ExpireShape, DeleteShape
<1>6. QED
  BY <1>1, <1>2, <1>3, <1>4, <1>5 DEF Next

------------------------------------------------------------------------------
(* The inductive invariant. *)

\* A record in use, or one that has just been shut, passes the validator.
LEMMA SealedRecord ==
  ASSUME NEW m \in MemoryRecord,
         \/ InUse(m)
         \/ \E old \in MemoryRecord : Shut(m, old)
  PROVE  /\ Validates(m)
         /\ m.status = "active" <=> m.valid_to = None
         /\ m.status # "active" => ~m.retrieval_eligible /\ ~m.embedding_eligible
  BY DEF InUse, Shut, Validates, TerminalStatus, Times, None, MemoryRecord

\* The empty store satisfies the invariant.
LEMMA InitIInv == Init => IInv
  BY DEF Init, IInv, TypeOK, ClosedIsSealed, LineageIsSound

\* Storing a new memory keeps the invariant.
LEMMA BirthIInv == IInv /\ BirthStep => IInv'
<1>1. SUFFICES ASSUME IInv,
                      NEW id \in FreshIds(store), NEW m \in MemoryRecord,
                      InUse(m), m.correction_of = None, m.supersedes = None,
                      store' = Put(store, id, m)
               PROVE  IInv'
  BY DEF BirthStep
<1>2. /\ DOMAIN store' = DOMAIN store \cup {id}
      /\ store'[id] = m
      /\ \A x \in DOMAIN store : store'[x] = store[x]
  BY <1>1, FreshFacts DEF Put
<1>3. TypeOK'
  BY <1>1, <1>2, FreshFacts DEF IInv, TypeOK
<1>4. ClosedIsSealed'
  BY <1>1, <1>2, SealedRecord DEF IInv, ClosedIsSealed
<1>5. LineageIsSound'
  <2>1. Links(m) = {}
    BY <1>1 DEF Links
  <2>2. QED
    BY <1>1, <1>2, <2>1 DEF IInv, LineageIsSound
<1>6. QED
  BY <1>3, <1>4, <1>5 DEF IInv

\* Keeping or shutting one memory keeps the invariant.
LEMMA ChangeIInv == IInv /\ ChangeStep => IInv'
<1>1. SUFFICES ASSUME IInv,
                      NEW id \in DOMAIN store, NEW m \in MemoryRecord,
                      Kept(m, store[id]) \/ Shut(m, store[id]),
                      store' = Put(store, id, m)
               PROVE  IInv'
  BY DEF ChangeStep
<1>2. /\ DOMAIN store' = DOMAIN store
      /\ store'[id] = m
      /\ \A x \in DOMAIN store : x # id => store'[x] = store[x]
  BY <1>1 DEF Put
<1>3. store[id] \in MemoryRecord
  BY <1>1 DEF IInv, TypeOK
<1>4. TypeOK'
  BY <1>1, <1>2 DEF IInv, TypeOK
<1>5. ClosedIsSealed'
  BY <1>1, <1>2, <1>3, SealedRecord DEF IInv, ClosedIsSealed, Kept
<1>6. LineageIsSound'
  <2>1. SameMemory(m, store[id])
    BY <1>1 DEF Kept, Shut
  <2>2. Links(m) = Links(store[id])
    BY <2>1 DEF SameMemory, Links
  <2>3. store[id].status \in {"superseded", "corrected", "expired"} =>
          m.status \in {"superseded", "corrected", "expired"}
    BY <1>1, <1>3 DEF Kept, Shut, StatusMoves, MemoryRecord, MemoryStatus
  <2>4. QED
    BY <1>1, <1>2, <2>1, <2>2, <2>3 DEF IInv, LineageIsSound, SameMemory
<1>7. QED
  BY <1>4, <1>5, <1>6 DEF IInv

\* Replacing a memory keeps the invariant.
LEMMA ReplaceIInv == IInv /\ ReplaceStep => IInv'
<1>1. SUFFICES ASSUME IInv,
                      NEW old \in DOMAIN store, NEW id \in FreshIds(store),
                      NEW m \in MemoryRecord, NEW n \in MemoryRecord,
                      Shut(m, store[old]), m.status \in {"superseded", "corrected"},
                      InUse(n), Links(n) = {old},
                      n.subject = store[old].subject,
                      store[old].valid_from <= n.valid_from,
                      store' = Put(Put(store, old, m), id, n)
               PROVE  IInv'
  BY DEF ReplaceStep
<1>2. id \in MemoryIds /\ id \notin DOMAIN store /\ \A x \in DOMAIN store : x < id
  BY FreshFacts
<1>3. /\ DOMAIN store' = DOMAIN store \cup {id}
      /\ store'[id] = n
      /\ store'[old] = m
      /\ \A x \in DOMAIN store : x # old => store'[x] = store[x]
  BY <1>1, <1>2 DEF Put
<1>4. store[old] \in MemoryRecord
  BY <1>1 DEF IInv, TypeOK
<1>5. TypeOK'
  BY <1>1, <1>2, <1>3 DEF IInv, TypeOK
<1>6. ClosedIsSealed'
  BY <1>1, <1>3, <1>4, SealedRecord DEF IInv, ClosedIsSealed
<1>7. LineageIsSound'
  <2>1. SUFFICES ASSUME NEW x \in DOMAIN store', NEW target \in Links(store'[x])
                 PROVE  /\ target \in DOMAIN store'
                        /\ target < x
                        /\ store'[target].subject = store'[x].subject
                        /\ store'[target].valid_from <= store'[x].valid_from
                        /\ store'[target].status \in {"superseded", "corrected", "expired"}
    BY DEF LineageIsSound, Links
  <2>2. SameMemory(m, store[old])
    BY <1>1 DEF Shut
  <2>3. CASE x = id
    BY <1>1, <1>2, <1>3, <2>1, <2>2, <2>3 DEF SameMemory
  <2>4. CASE x # id
    <3>1. x \in DOMAIN store /\ store'[x].subject = store[x].subject
          /\ store'[x].valid_from = store[x].valid_from
          /\ Links(store'[x]) = Links(store[x])
      BY <1>3, <2>2, <2>4 DEF SameMemory, Links
    <3>2. /\ target \in DOMAIN store /\ target < x
          /\ store[target].subject = store[x].subject
          /\ store[target].valid_from <= store[x].valid_from
          /\ store[target].status \in {"superseded", "corrected", "expired"}
      BY <1>1, <2>1, <3>1 DEF IInv, LineageIsSound
    <3>3. CASE target = old
      BY <1>1, <1>3, <2>2, <3>1, <3>2, <3>3 DEF SameMemory
    <3>4. CASE target # old
      BY <1>3, <3>1, <3>2, <3>4
    <3>5. QED
      BY <3>3, <3>4
  <2>5. QED
    BY <2>3, <2>4
<1>8. QED
  BY <1>5, <1>6, <1>7 DEF IInv

\* Every operation keeps the invariant.
LEMMA NextIInv == IInv /\ [Next]_store => IInv'
<1>1. IInv /\ UNCHANGED store => IInv'
  BY DEF IInv, TypeOK, ClosedIsSealed, LineageIsSound
<1>2. QED
  BY <1>1, StepShape, BirthIInv, ChangeIInv, ReplaceIInv

\* The invariant holds in every reachable state.
LEMMA InvariantHolds == Spec => []IInv
  BY InitIInv, NextIInv, PTL DEF Spec

------------------------------------------------------------------------------
(* Theorems. *)

\* The store only ever holds well-typed records under memory ids
\* (MemoryLifecycleService over InMemoryMemoryStore).
THEOREM TypeCorrect == Spec => []TypeOK
  BY InvariantHolds, PTL DEF IInv

\* Every version of every record satisfies the rules its validator checks only
\* once, and a memory out of use is eligible for nothing.
THEOREM RecordsStaySealed == Spec => []ClosedIsSealed
  BY InvariantHolds, PTL DEF IInv

\* Replacement links always lead to an older memory of the same user that is
\* out of use and was not deleted; in particular they form no cycle.
THEOREM LineageStaysSound == Spec => []LineageIsSound
  BY InvariantHolds, PTL DEF IInv

\* No step revives a memory, cancels an expiry or a deletion, changes an owner
\* or loses evidence or lineage.
THEOREM HistoryIsNeverRewritten == Spec => HistoryIsKept
<1>1. IInv /\ BirthStep => HistoryStep
  <2>1. SUFFICES ASSUME IInv, BirthStep, NEW x \in DOMAIN store
                 PROVE  x \in DOMAIN store' /\ store'[x] = store[x]
    BY DEF HistoryStep, StatusMoves, IInv, TypeOK, MemoryRecord, MemoryStatus
  <2>2. QED
    BY <2>1, FreshFacts DEF BirthStep, Put
<1>2. IInv /\ ChangeStep => HistoryStep
  <2>1. SUFFICES ASSUME IInv, NEW id \in DOMAIN store, NEW m \in MemoryRecord,
                        Kept(m, store[id]) \/ Shut(m, store[id]),
                        store' = Put(store, id, m)
                 PROVE  HistoryStep
    BY DEF ChangeStep
  <2>2. /\ DOMAIN store' = DOMAIN store
        /\ store'[id] = m
        /\ \A x \in DOMAIN store : x # id => store'[x] = store[x]
    BY <2>1 DEF Put
  <2>3. SameMemory(m, store[id]) /\ m.status \in StatusMoves[store[id].status]
    BY <2>1, ActiveMoves DEF Kept, Shut, InUse, MemoryStatus
  <2>4. Links(m) = Links(store[id])
    BY <2>3 DEF SameMemory, Links
  <2>5. \A x \in DOMAIN store : store[x].status \in StatusMoves[store[x].status]
    BY <2>1 DEF IInv, TypeOK, MemoryRecord, StatusMoves, MemoryStatus
  <2>6. QED
    BY <2>2, <2>3, <2>4, <2>5 DEF HistoryStep, SameMemory
<1>3. IInv /\ ReplaceStep => HistoryStep
  <2>1. SUFFICES ASSUME IInv, NEW old \in DOMAIN store, NEW id \in FreshIds(store),
                        NEW m \in MemoryRecord, NEW n \in MemoryRecord,
                        Shut(m, store[old]),
                        store' = Put(Put(store, old, m), id, n)
                 PROVE  HistoryStep
    BY DEF ReplaceStep
  <2>2. /\ DOMAIN store' = DOMAIN store \cup {id}
        /\ store'[old] = m
        /\ \A x \in DOMAIN store : x # old => store'[x] = store[x]
    BY <2>1, FreshFacts DEF Put
  <2>3. SameMemory(m, store[old]) /\ m.status \in StatusMoves[store[old].status]
    BY <2>1 DEF Shut
  <2>4. Links(m) = Links(store[old])
    BY <2>3 DEF SameMemory, Links
  <2>5. \A x \in DOMAIN store : store[x].status \in StatusMoves[store[x].status]
    BY <2>1 DEF IInv, TypeOK, MemoryRecord, StatusMoves, MemoryStatus
  <2>6. QED
    BY <2>2, <2>3, <2>4, <2>5 DEF HistoryStep, SameMemory
<1>4. IInv /\ [Next]_store => [HistoryStep]_store
  BY <1>1, <1>2, <1>3, StepShape
<1>5. QED
  BY <1>4, InvariantHolds, PTL DEF Spec, HistoryIsKept

------------------------------------------------------------------------------
(* The service implements MemoryLife. *)

\* How the phase of a memory moves when its record is kept or shut.
LEMMA PhaseMoves ==
  ASSUME NEW m \in MemoryRecord, NEW old \in MemoryRecord
  PROVE  /\ InUse(m) => PhaseOf(m) = "live"
         /\ Kept(m, old) => PhaseOf(m) = PhaseOf(old)
         /\ Shut(m, old) /\ PhaseOf(old) = "live" => PhaseOf(m) \in {"closed", "doomed"}
         /\ Shut(m, old) /\ PhaseOf(old) # "live" => PhaseOf(m) = PhaseOf(old)
         /\ Shut(m, old) /\ m.status \in {"superseded", "corrected"} =>
              PhaseOf(m) = "closed" /\ PhaseOf(old) \in {"live", "closed"}
         /\ PhaseOf(old) \in {"live", "closed", "doomed"}
<1>1. /\ InUse(m) => PhaseOf(m) = "live"
      /\ PhaseOf(old) \in {"live", "closed", "doomed"}
  BY DEF InUse, PhaseOf, MemoryRecord, MemoryStatus
<1>2. Kept(m, old) => PhaseOf(m) = PhaseOf(old)
  BY DEF Kept, InUse, PhaseOf
<1>3. CASE old.status = "active"
  BY <1>1, <1>2, <1>3 DEF Shut, PhaseOf, StatusMoves, MemoryRecord, MemoryStatus
<1>4. CASE old.status \in {"superseded", "corrected"}
  BY <1>1, <1>2, <1>4 DEF Shut, PhaseOf, StatusMoves, MemoryRecord, MemoryStatus
<1>5. CASE old.status \in {"expired", "deleted", "pending_deletion"}
  BY <1>1, <1>2, <1>5 DEF Shut, PhaseOf, StatusMoves, MemoryRecord, MemoryStatus
<1>6. QED
  BY <1>3, <1>4, <1>5 DEF MemoryRecord, MemoryStatus

\* Storing a new memory is MemoryLife's Birth.
LEMMA BirthIsLife ==
  ASSUME IInv, BirthStep
  PROVE  \E n \in MemoryIds : Life!Birth(n)
<1>1. PICK id \in FreshIds(store), m \in MemoryRecord :
        InUse(m) /\ store' = Put(store, id, m)
  BY DEF BirthStep
<1>2. id \in MemoryIds /\ id \notin DOMAIN store
  BY FreshFacts
<1>3. PhaseOf(m) = "live"
  BY <1>1 DEF InUse, PhaseOf
<1>4. PhaseOfStore' = [PhaseOfStore EXCEPT ![id] = "live"]
  BY <1>1, <1>2, <1>3 DEF PhaseOfStore, Put
<1>5. PhaseOfStore[id] = "unborn"
  BY <1>2 DEF PhaseOfStore
<1>6. QED
  BY <1>2, <1>4, <1>5 DEF Life!Birth

\* Changing one memory is one move of its phase or a stutter.
LEMMA ChangeIsLife ==
  ASSUME IInv, ChangeStep
  PROVE  \/ \E n \in MemoryIds : Life!Retire(n) \/ Life!Doom(n)
         \/ UNCHANGED PhaseOfStore
<1>1. PICK id \in DOMAIN store, m \in MemoryRecord :
        /\ Kept(m, store[id]) \/ Shut(m, store[id])
        /\ store' = Put(store, id, m)
  BY DEF ChangeStep
<1>2. id \in MemoryIds /\ store[id] \in MemoryRecord
  BY DEF IInv, TypeOK
<1>3. PhaseOfStore[id] = PhaseOf(store[id])
  BY <1>2 DEF PhaseOfStore
<1>4. PhaseOfStore' = [PhaseOfStore EXCEPT ![id] = PhaseOf(m)]
  BY <1>1, <1>2 DEF PhaseOfStore, Put
<1>5. CASE PhaseOf(m) = PhaseOf(store[id])
  BY <1>2, <1>3, <1>4, <1>5 DEF PhaseOfStore
<1>6. CASE PhaseOf(m) # PhaseOf(store[id])
  <2>1. PhaseOf(store[id]) = "live" /\ PhaseOf(m) \in {"closed", "doomed"}
    BY <1>1, <1>2, <1>6, PhaseMoves
  <2>2. QED
    BY <1>2, <1>3, <1>4, <2>1 DEF Life!Retire, Life!Doom
<1>7. QED
  BY <1>5, <1>6

\* Replacing a memory is MemoryLife's replacement.
LEMMA ReplaceIsLife ==
  ASSUME IInv, ReplaceStep
  PROVE  \E old \in MemoryIds, n \in MemoryIds : Life!Replace(old, n)
<1>1. PICK old \in DOMAIN store, id \in FreshIds(store),
           m \in MemoryRecord, n \in MemoryRecord :
        /\ Shut(m, store[old]) /\ m.status \in {"superseded", "corrected"}
        /\ InUse(n)
        /\ store' = Put(Put(store, old, m), id, n)
  BY DEF ReplaceStep
<1>2. /\ id \in MemoryIds /\ id \notin DOMAIN store
      /\ old \in MemoryIds /\ store[old] \in MemoryRecord
  BY FreshFacts DEF IInv, TypeOK
<1>3. /\ PhaseOf(n) = "live" /\ PhaseOf(m) = "closed"
      /\ PhaseOf(store[old]) \in {"live", "closed"}
  BY <1>1, <1>2, PhaseMoves
<1>4. PhaseOfStore[old] = PhaseOf(store[old]) /\ PhaseOfStore[id] = "unborn"
  BY <1>2 DEF PhaseOfStore
<1>5. PhaseOfStore' = [PhaseOfStore EXCEPT ![old] = "closed", ![id] = "live"]
  BY <1>1, <1>2, <1>3 DEF PhaseOfStore, Put
<1>6. QED
  BY <1>2, <1>3, <1>4, <1>5 DEF Life!Replace

\* The lifecycle service implements MemoryLife: every memory lives once, and a
\* replacement is born in the step that leaves its predecessor closed.
THEOREM ServiceImplementsLife == Spec => ImplementsLife
<1>1. Init => Life!LifeInit
  BY DEF Init, Life!LifeInit, PhaseOfStore
<1>2. IInv /\ [Next]_store => [Life!LifeNext]_PhaseOfStore
  <2>1. ASSUME IInv, [Next]_store
        PROVE  BirthStep \/ ChangeStep \/ ReplaceStep \/ UNCHANGED store
    BY <2>1, StepShape
  <2>2. UNCHANGED store => UNCHANGED PhaseOfStore
    BY DEF PhaseOfStore
  <2>3. QED
    BY <2>1, <2>2, BirthIsLife, ChangeIsLife, ReplaceIsLife DEF Life!LifeNext
<1>3. QED
  BY <1>1, <1>2, InvariantHolds, PTL DEF Spec, ImplementsLife, Life!LifeSpec
==============================================================================
