---------------------------- MODULE MemoryLifecycle ----------------------------
(***************************************************************************)
(* MemoryLifecycleService over its store, one action per operation.  Each  *)
(* operation is a synchronous method: called from one thread it runs to    *)
(* its end before the next one starts, and that is the view taken here.    *)
(* MemoryOrchestration takes the same operations apart into their reads    *)
(* and writes.  A call that raises leaves the store alone and is not a     *)
(* step.                                                                   *)
(***************************************************************************)
EXTENDS MemoryRecords

VARIABLE store

TypeOK ==
  /\ DOMAIN store \subseteq MemoryIds
  /\ \A id \in DOMAIN store : store[id] \in MemoryRecord

Init == store = [id \in {} |-> None]

------------------------------------------------------------------------------
\* create_from_approved_candidate: an equivalent active memory of the subject
\* is reinforced, otherwise a new memory is stored.
Create(c, p, at) ==
  \/ \E id \in FindEquivalent(store, c) :
       store' = Put(store, id, Reinforce(store[id], c))
  \/ /\ FindEquivalent(store, c) = {}
     /\ \E id \in FreshIds(store) : store' = Put(store, id, NewRecord(c, p, at))

\* supersede and correct: the target is closed, then the replacement stored.
Supersede(target, c, p, at) ==
  /\ Owns(store, c.subject, target)
  /\ Replaceable(store[target])
  /\ CanClose(store[target], at)
  /\ \E id \in FreshIds(store) :
       store' = Put(Put(store, target, Close(store[target], at, "superseded")),
                    id, Supersession(c, p, at, target))

Correct(target, c, p, at) ==
  /\ Owns(store, c.subject, target)
  /\ Replaceable(store[target])
  /\ CanClose(store[target], at)
  /\ \E id \in FreshIds(store) :
       store' = Put(Put(store, target, Close(store[target], at, "corrected")),
                    id, Correction(c, p, at, target))

\* Mutation of Update: the status is not checked.
UpdateAny(subject, id, fact, p) ==
  /\ Owns(store, subject, id)
  /\ store' = Put(store, id,
                  [store[id] EXCEPT !.fact = fact,
                                    !.retrieval_eligible = p.retrieval_eligible,
                                    !.embedding_eligible = p.embedding_eligible])

\* update: the fields a caller may change, on an active memory only.
Update(subject, id, fact, p) ==
  /\ Owns(store, subject, id)
  /\ store[id].status = "active"
  /\ store' = Put(store, id,
                  [store[id] EXCEPT !.fact = fact,
                                    !.retrieval_eligible = p.retrieval_eligible,
                                    !.embedding_eligible = p.embedding_eligible])

\* retain: reports an active memory as kept, and writes nothing.
Retain(subject, id) ==
  /\ Owns(store, subject, id)
  /\ store[id].status = "active"
  /\ UNCHANGED store

\* Mutation of Expire: any memory can expire.
ExpireAny(subject, id, at) ==
  /\ Owns(store, subject, id)
  /\ CanClose(store[id], at)
  /\ store' = Put(store, id, Close(store[id], at, "expired"))

Expire(subject, id, at) ==
  /\ Owns(store, subject, id)
  /\ \/ /\ store[id].status = "expired"
        /\ UNCHANGED store
     \/ /\ Replaceable(store[id])
        /\ CanClose(store[id], at)
        /\ store' = Put(store, id, Close(store[id], at, "expired"))

\* Mutation of Delete: a replaced memory can be deleted.
DeleteReplaced(subject, id, at) ==
  /\ Owns(store, subject, id)
  /\ ~Deleting(store[id])
  /\ CanClose(store[id], at)
  /\ store' = Put(store, id, [Close(store[id], at, "deleted")
                                EXCEPT !.status = "pending_deletion"])

Delete(subject, id, at) ==
  /\ Owns(store, subject, id)
  /\ \/ /\ Deleting(store[id])
        /\ UNCHANGED store
     \/ /\ store[id].status = "active"
        /\ CanClose(store[id], at)
        /\ store' = Put(store, id, [Close(store[id], at, "deleted")
                                      EXCEPT !.status = "pending_deletion"])

Next ==
  \/ \E c \in Candidate, p \in PolicyDecision, at \in Times : Create(c, p, at)
  \/ \E target \in MemoryIds, c \in Candidate, p \in PolicyDecision, at \in Times :
       \/ Supersede(target, c, p, at)
       \/ Correct(target, c, p, at)
  \/ \E subject \in Subjects, id \in MemoryIds, fact \in Facts, p \in PolicyDecision :
       Update(subject, id, fact, p)
  \/ \E subject \in Subjects, id \in MemoryIds : Retain(subject, id)
  \/ \E subject \in Subjects, id \in MemoryIds, at \in Times :
       \/ Expire(subject, id, at)
       \/ Delete(subject, id, at)

Spec == Init /\ [][Next]_store

------------------------------------------------------------------------------
\* Every stored version of a record would still pass the validator that only
\* its first version was put through, and the rule the validator leaves out
\* holds as well: a memory is open-ended exactly while it is active, and only
\* then eligible for retrieval or for embedding (memory_lifecycle.py, the
\* validator and the model_copy calls of _close_memory, update and delete).
ClosedIsSealed ==
  \A id \in DOMAIN store :
    /\ Validates(store[id])
    /\ store[id].status = "active" <=> store[id].valid_to = None
    /\ store[id].status # "active" =>
         ~store[id].retrieval_eligible /\ ~store[id].embedding_eligible

Links(m) == {m.correction_of, m.supersedes} \ {None}

\* The lineage of a replacement is sound whatever happens to its predecessor
\* afterwards: the predecessor is an older memory of the same user, it began
\* no later, and it is out of use but never deleted (correct and supersede
\* against expire, delete and a second replacement).
LineageIsSound ==
  \A id \in DOMAIN store : \A old \in Links(store[id]) :
    /\ old \in DOMAIN store
    /\ old < id
    /\ store[old].subject = store[id].subject
    /\ store[old].valid_from <= store[id].valid_from
    /\ store[old].status \in {"superseded", "corrected", "expired"}

\* How the status of one memory may move.  Expiry and deletion are final; a
\* replaced memory can be replaced again or expire, and never comes back.
StatusMoves ==
  [s \in MemoryStatus |->
    CASE s = "active" -> MemoryStatus \ {"deleted"}
      [] s \in {"superseded", "corrected"} -> {"superseded", "corrected", "expired"}
      [] OTHER -> {s}]

\* No operation brings a memory back into use, cancels a deletion or an
\* expiry, hands a memory to another user or forgets where it came from.
HistoryStep ==
  \A id \in DOMAIN store :
    /\ id \in DOMAIN store'
    /\ store'[id].status \in StatusMoves[store[id].status]
    /\ store'[id].subject = store[id].subject
    /\ store'[id].valid_from = store[id].valid_from
    /\ Links(store'[id]) = Links(store[id])
    /\ store[id].sources \subseteq store'[id].sources

HistoryIsKept == [][HistoryStep]_store

\* The service as an implementation of MemoryLife.
PhaseOf(m) ==
  CASE m.status = "active" -> "live"
    [] m.status \in {"superseded", "corrected", "expired"} -> "closed"
    [] OTHER -> "doomed"

PhaseOfStore ==
  [m \in MemoryIds |-> IF m \in DOMAIN store THEN PhaseOf(store[m]) ELSE "unborn"]

Life == INSTANCE MemoryLife WITH Memories <- MemoryIds, phase <- PhaseOfStore

\* Every operation is a step of the life it promises or leaves it alone: no
\* memory is live twice, and a replacement never appears without its
\* predecessor being closed (the two store.put calls of supersede, correct).
ImplementsLife == Life!LifeSpec
================================================================================
