---------------------------- MODULE MemoryRecords ----------------------------
(***************************************************************************)
(* The durable memory record of memory_lifecycle.py and the pure helpers   *)
(* every operation of the lifecycle service is built from.  A store is the *)
(* dict of InMemoryMemoryStore: a function whose domain is the set of ids  *)
(* ever stored.                                                            *)
(*                                                                         *)
(* Abstractions.  A memory id is a uuid4; here ids are numbered in the     *)
(* order in which they are first stored.  A fact stands for a memory type  *)
(* together with its stripped and case-folded text.  Confidence, entities, *)
(* retention class and metadata are carried along by the code without      *)
(* influencing a transition and are left out; created_at always equals     *)
(* valid_from.                                                             *)
(***************************************************************************)
EXTENDS Integers

CONSTANTS
  Subjects,     \* the users whose memories are kept
  Facts,        \* what can be remembered about a user
  Events,       \* the interaction events a memory can be derived from
  MaxMemories,  \* bound: how many memories can ever be stored
  MaxTime       \* bound: the instants that requests may name

ASSUME MaxMemoriesAssumption == MaxMemories \in Nat
ASSUME MaxTimeAssumption == MaxTime \in Nat

MemoryIds == 1 .. MaxMemories
Times == 0 .. MaxTime

\* Python's None in an optional timestamp or an optional memory id.
None == -1

MemoryStatus ==
  {"active", "superseded", "expired", "corrected", "deleted", "pending_deletion"}

\* What the validator of MemoryRecordV1 calls "terminal memory states".
TerminalStatus == {"superseded", "expired", "corrected", "deleted"}

MemoryRecord ==
  [ subject            : Subjects,
    fact               : Facts,
    sources            : SUBSET Events,
    valid_from         : Times,
    valid_to           : Times \cup {None},
    status             : MemoryStatus,
    retrieval_eligible : BOOLEAN,
    embedding_eligible : BOOLEAN,
    correction_of      : MemoryIds \cup {None},
    supersedes         : MemoryIds \cup {None} ]

Candidate ==
  [subject : Subjects, fact : Facts, sources : (SUBSET Events) \ {{}}]

\* An ALLOW decision of the policy engine; any other decision is an error of
\* the operation that receives it and changes nothing.
PolicyDecision == [retrieval_eligible : BOOLEAN, embedding_eligible : BOOLEAN]

------------------------------------------------------------------------------
\* The store.

Put(s, id, m) == [x \in DOMAIN s \cup {id} |-> IF x = id THEN m ELSE s[x]]

\* The next id to be stored; empty once MaxMemories memories exist.
FreshIds(s) == {id \in MemoryIds : DOMAIN s = 1 .. (id - 1)}

\* Mutation of Owns: the owner is not compared.
OwnsAnyone(s, subject, id) == id \in DOMAIN s

Owns(s, subject, id) == id \in DOMAIN s /\ s[id].subject = subject

------------------------------------------------------------------------------
\* Records.

NewRecord(c, p, at) ==
  [ subject            |-> c.subject,
    fact               |-> c.fact,
    sources            |-> c.sources,
    valid_from         |-> at,
    valid_to           |-> None,
    status             |-> "active",
    retrieval_eligible |-> p.retrieval_eligible,
    embedding_eligible |-> p.embedding_eligible,
    correction_of      |-> None,
    supersedes         |-> None ]

Correction(c, p, at, target) == [NewRecord(c, p, at) EXCEPT !.correction_of = target]
Supersession(c, p, at, target) == [NewRecord(c, p, at) EXCEPT !.supersedes = target]

\* Mutation of Close: the closing instant is off by one.
CloseLate(m, at, status) ==
  [m EXCEPT !.valid_to = at + 1, !.status = status,
            !.retrieval_eligible = FALSE, !.embedding_eligible = FALSE]

Close(m, at, status) ==
  [m EXCEPT !.valid_to = at,
            !.status = status,
            !.retrieval_eligible = FALSE,
            !.embedding_eligible = FALSE]

CanClose(m, at) == at >= m.valid_from

\* Mutation of Deleting: a deletion under way is overlooked.
DeletingDone(m) == m.status = "deleted"

Deleting(m) == m.status \in {"deleted", "pending_deletion"}

\* The targets supersede and correct accept: neither deleted nor expired, but
\* an already superseded or corrected memory is not turned away.
Replaceable(m) == ~Deleting(m) /\ m.status # "expired"

Equivalents(s, c) ==
  {id \in DOMAIN s : /\ s[id].subject = c.subject
                     /\ s[id].status = "active"
                     /\ s[id].fact = c.fact}

\* Mutation of FindEquivalent: its early return for any other kind of store.
FindNoEquivalent(s, c) == {}

\* _find_equivalent scans the dict in insertion order: the first equivalent as a
\* singleton, or nothing.
FindEquivalent(s, c) ==
  {id \in Equivalents(s, c) : \A other \in Equivalents(s, c) : id <= other}

\* Mutation of Reinforce: the new evidence replaces the old.
ReinforceAnew(m, c) == [m EXCEPT !.sources = c.sources]

\* Mutation of Reinforce: the memory is made anew, without its lineage.
ReinforceUnlinked(m, c) ==
  [m EXCEPT !.sources = @ \cup c.sources, !.correction_of = None, !.supersedes = None]

Reinforce(m, c) == [m EXCEPT !.sources = @ \cup c.sources]

------------------------------------------------------------------------------
\* What validate_temporal_state demands of a record when it is constructed.
\* Every later version of the record is made with model_copy, which does not
\* run the validator again.
Validates(m) ==
  /\ m.valid_to # None => m.valid_to >= m.valid_from
  /\ m.status \in TerminalStatus => m.valid_to # None
  /\ m.status \in {"expired", "deleted", "pending_deletion"} => ~m.retrieval_eligible
==============================================================================
