------------------------------ MODULE Catalog ------------------------------
(***************************************************************************)
(* sqlite_catalog as its clients use it: several handles (processes, or    *)
(* connections of one process) on one database, operation identities that  *)
(* are retried after an uncertain answer, and commits whose outcome is     *)
(* never reported.                                                         *)
(*                                                                         *)
(* `transaction` takes the database's write lock with BEGIN IMMEDIATE and  *)
(* keeps it until COMMIT or ROLLBACK, so one call is one action; what can  *)
(* happen in between - a refusal, a storage error, a COMMIT that fails     *)
(* after or before it took effect, the death of the caller - is an action  *)
(* of its own with the effect the call leaves behind.                      *)
(***************************************************************************)
EXTENDS Timelines, TLC

CONSTANTS
  Ops,        \* operation identities
  Handles,    \* open catalog handles
  Unused      \* the record of an operation that was never committed

ASSUME CatalogAssumption == Unused \notin [request : Request, outcome : Outcome]

VARIABLES
  db,          \* the session tables
  operations,  \* the operations table: request and outcome of committed operations
  poisoned,    \* the handles that saw an uncertain outcome
  told,        \* the outcomes each operation's callers were given
  unsure,      \* the operations some caller holds an uncertain error for
  left         \* the tables as a transaction sees them that a handle failed to roll back

catalogVars == <<db, operations, poisoned, told, unsure, left>>

Record == [request : Request, outcome : Outcome]

CatalogTypeOK ==
  /\ db \in Tables
  /\ operations \in [Ops -> Record \cup {Unused}]
  /\ poisoned \in SUBSET Handles
  /\ told \in [Ops -> SUBSET Record]
  /\ unsure \in SUBSET Ops
  /\ left \in [Handles -> SUBSET Tables]

CatalogInit ==
  /\ db = Empty
  /\ operations = [o \in Ops |-> Unused]
  /\ poisoned = {}
  /\ told = [o \in Ops |-> {}]
  /\ unsure = {}
  /\ left = [h \in Handles |-> {}]

Tell(o, record) == told' = [told EXCEPT ![o] = @ \cup {record}]

\* require_active, of writers and readers.
Active(h) == h \notin poisoned

\* BEGIN IMMEDIATE: a transaction left open keeps the write lock, and others give up.
Begins(h) == Active(h) /\ \A g \in Handles : left[g] = {}

(***************************************************************************)
(* A call of `transaction` by the caller of operation o.                   *)
(***************************************************************************)

\* Mutant of Replay: the answer is read from today's tables.
Replay_today(h, o, r) ==
  /\ Begins(h)
  /\ operations[o] # Unused
  /\ operations[o].request = r
  /\ Tell(o, [operations[o] EXCEPT !.outcome.head = Latest(db, @.name)])
  /\ UNCHANGED <<db, operations, poisoned, unsure, left>>

\* lookup_operation finds the identity: the same request is answered with the
\* recorded outcome.
Replay(h, o, r) ==
  /\ Begins(h)
  /\ operations[o] # Unused
  /\ operations[o].request = r
  /\ Tell(o, operations[o])
  /\ UNCHANGED <<db, operations, poisoned, unsure, left>>

\* The identity belongs to another request, or the request is not applicable:
\* the transaction is rolled back and the handle stays usable.
Refuses(o, r) == IF operations[o] # Unused THEN operations[o].request # r ELSE Refused(db, r)

RefuseRequest(h, o, r) == Begins(h) /\ Refuses(o, r) /\ UNCHANGED catalogVars

Applicable(h, o, r) ==
  /\ Begins(h)
  /\ operations[o] = Unused
  /\ ~Refused(db, r)

\* The rows of the request and of its operation are committed together.
Apply(o, r) ==
  /\ db' = After(db, r)
  /\ operations' = [operations EXCEPT ![o] = [request |-> r, outcome |-> OutcomeOf(db, r)]]

Commit(h, o, r) ==
  /\ Applicable(h, o, r)
  /\ Apply(o, r)
  /\ Tell(o, [request |-> r, outcome |-> OutcomeOf(db, r)])
  /\ UNCHANGED <<poisoned, unsure, left>>

\* Mutant of CommitUnreported: the error is not flagged uncertain.
CommitUnreported_certain(h, o, r) ==
  /\ Applicable(h, o, r)
  /\ Apply(o, r)
  /\ poisoned' = poisoned \cup {h}
  /\ UNCHANGED <<told, unsure, left>>

\* COMMIT takes effect but reports an error, or its caller dies before the
\* answer: the error is flagged uncertain and the handle is poisoned.
CommitUnreported(h, o, r) ==
  /\ Applicable(h, o, r)
  /\ Apply(o, r)
  /\ poisoned' = poisoned \cup {h}
  /\ unsure' = unsure \cup {o}
  /\ UNCHANGED <<told, left>>

\* A storage error, or a COMMIT that did not take effect; what was done is rolled back.
Fault(h, o) ==
  /\ Active(h)
  /\ poisoned' = poisoned \cup {h}
  /\ unsure' = unsure \cup {o}
  /\ UNCHANGED <<db, operations, told, left>>

\* Mutant of RollbackFails: an error before COMMIT leaves the handle usable.
RollbackFails_usable(h, o, r) ==
  /\ Begins(h)
  /\ left' = [left EXCEPT ![h] = {IF Applicable(h, o, r) THEN After(db, r) ELSE db}]
  /\ unsure' = unsure \cup {o}
  /\ UNCHANGED <<db, operations, poisoned, told>>

\* ROLLBACK fails too, of what a refusal or an error has cut short: the transaction
\* stays open on the handle, with its rows and the write lock.  Only errors of the
\* catalog say so; a refusal wrote nothing.
RollbackFails(h, o, r) ==
  /\ Begins(h)
  /\ left' = [left EXCEPT ![h] = {IF Applicable(h, o, r) THEN After(db, r) ELSE db}]
  /\ poisoned' = poisoned \cup {h}
  /\ unsure' = unsure \cup {o} \/ (Refuses(o, r) /\ unsure' = unsure)
  /\ UNCHANGED <<db, operations, told>>

\* A poisoned handle is closed, with what it left open, and the catalog opened again.
Reopen(h) ==
  /\ h \in poisoned
  /\ poisoned' = poisoned \ {h} /\ left' = [left EXCEPT ![h] = {}]
  /\ UNCHANGED <<db, operations, told, unsure>>

CatalogNext ==
  \/ \E h \in Handles, o \in Ops :
       \/ Fault(h, o)
       \/ \E r \in Request : \/ Replay(h, o, r)
                             \/ RefuseRequest(h, o, r)
                             \/ Commit(h, o, r)
                             \/ CommitUnreported(h, o, r)
                             \/ RollbackFails(h, o, r)
  \/ \E h \in Handles : Reopen(h)

CatalogSpec == CatalogInit /\ [][CatalogNext]_catalogVars

(***************************************************************************)
(* Properties.                                                             *)
(***************************************************************************)
Recorded == {o \in Ops : operations[o] # Unused}

\* The operation that wrote a row of a timeline.
Wrote(o, h) == o \in Recorded /\ operations[o].outcome = [added |-> TRUE, head |-> h]

(* Retrying an operation never answers differently: whatever handle, however
   far the session advanced in between, all its callers hold one outcome, the
   one in the operations table (sqlite-catalog.md: "replay returns the original
   outcome even if the session has advanced again").                       *)
ReplayIsStable ==
  \A o \in Ops : \A answer \in told[o] : operations[o] = answer

(* An operation with durable effects is known to somebody: a caller was told
   its outcome, or holds an error flagged uncertain.  An error that is not
   flagged (a refusal) therefore means that nothing happened.              *)
EffectsAreReported ==
  \A o \in Recorded : told[o] # {} \/ o \in unsure

\* What a caller reads through a handle.
Shown(h) == IF left[h] = {} THEN {db} ELSE left[h]

(* A handle that answers shows committed rows and no other: one whose
   transaction neither committed nor was rolled back has stopped, and at most
   one keeps the write lock from the others.                               *)
UncertainHandlesStop ==
  /\ \A h \in Handles : Active(h) => Shown(h) = {db}
  /\ \A g, h \in Handles : left[g] # {} /\ left[h] # {} => g = h

(* What callers rely on, they may: an outcome they were told is the one that
   is recorded, an error that is not flagged uncertain left nothing behind,
   and what they read through a handle that still answers is committed
   (`transaction`, require_active).                                        *)
ReportsAreTrue == ReplayIsStable /\ EffectsAreReported /\ UncertainHandlesStop

(* Every generation of every name was written by exactly one operation, and
   every operation that claims a generation wrote it: retries, lost answers
   and races add no row and lose none.                                     *)
OneWriterPerGeneration ==
  /\ \A n \in Names : \A i \in 1..Len(db.timelines[n]) :
       \E o \in Ops : Wrote(o, HeadAt(db, [name |-> n, generation |-> i - 1]))
  /\ \A o \in Recorded : operations[o].outcome.added => IsRow(db, operations[o].outcome.head)
  /\ \A o1, o2 \in Recorded :
       /\ operations[o1].outcome.added
       /\ operations[o2].outcome.added
       /\ PositionOf(operations[o1].outcome.head) = PositionOf(operations[o2].outcome.head)
       => o1 = o2

\* A publication with outcome x appended to what its caller expected, or shows
\* a row that beat it.
Chained(t, r, x) ==
  /\ x.head.name = r.expected.name
  /\ IF x.added
     THEN /\ IsRow(t, r.expected)
          /\ x.head.generation = r.expected.generation + 1
          /\ x.head.checkpoint = r.checkpoint
     ELSE IsRow(t, x.head) /\ x.head # r.expected

(* Publications chain: the publisher of generation g + 1 had seen exactly
   generation g, and a publisher that lost the race was shown a row that
   really beat it.  No publication overwrites one its caller did not see.  *)
PublicationsChain ==
  \A o \in Recorded : operations[o].request.kind = "publish" =>
    Chained(db, operations[o].request, operations[o].outcome)

SourceIsExact(t, n) ==
  t.sources[n] # Nowhere =>
    /\ Exists(t, n)
    /\ IsRow(t, [name       |-> t.sources[n].name,
                 generation |-> t.sources[n].generation,
                 checkpoint |-> t.timelines[n][1]])

SaveIsExact(t, r) == IsRow(t, r.source) /\ t.saves[r.name] = PositionOf(r.source)

(* A forked name begins with exactly the generation it was forked from and a
   saved name denotes the generation its save was asked for, whatever happened
   to either name since.                                                   *)
PinsAreExact ==
  /\ \A n \in Names : SourceIsExact(db, n)
  /\ \A o \in Recorded : operations[o].request.kind = "save" =>
       SaveIsExact(db, operations[o].request)

(* The generations of a name form one chain with one writer each, and what names
   a generation, a fork's source or a save, names exactly that one for ever
   (publish, fork, save: expected heads, operation rows).                    *)
GenerationsFormChains == OneWriterPerGeneration /\ PublicationsChain /\ PinsAreExact

-----------------------------------------------------------------------------
\* Operation identities, handles and checkpoints are only compared: a symmetry.
Interchangeable == Permutations(Ops) \cup Permutations(Handles) \cup Permutations(Checkpoints)
=============================================================================
