---------------------------- MODULE Connection -----------------------------
(***************************************************************************)
(* Connections to named sessions (connection.h, runtime_store.h) and the   *)
(* transactions begun on them (transaction.h), over one catalog.           *)
(*                                                                         *)
(* A connection owns a worker and its persistent_engine: the in-memory     *)
(* core, the durable world last published, and a store with its own        *)
(* catalog handle.  Commands wait in the session's queue; the worker takes *)
(* one at a time, has the core interpret it and publishes the result with  *)
(* a catalog transaction that checks the head it started from.             *)
(*                                                                         *)
(* The data of a world is the sequence of changes it contains; a change is *)
(* one batch of edits, with which a contribution or one flush of a         *)
(* transaction extends it.  Its layout says whether the core owes merge    *)
(* work.  Operation identities are fresh random numbers here, so the       *)
(* replays of Catalog cannot occur.                                        *)
(***************************************************************************)
EXTENDS Naturals, Sequences, SequencesExt, TLC

CONSTANTS
  Names, Saves,   \* session names, names of saved snapshots
  MaxGeneration,  \* the last generation of a name
  Connections,    \* connection objects, each in a process of its own
  Changes,        \* batches of edits
  EmptyBatches,   \* the changes that contain no edit
  Txns,           \* transaction objects
  Identities,     \* addresses of logical_state objects
  QueueLimit,     \* session_limits.contributions
  Nowhere, None

Layouts == {"owing", "settled"}
World   == [content : Seq(Changes), layout : Layouts]

INSTANCE Timelines WITH Checkpoints <- World

Commands == Changes \cup Txns

VARIABLES
  db,        \* the catalog's session tables
  phase,     \* [Connections -> {"closed", "creating", "open", "failed"}]
  name,      \* the session each connection opened
  current,   \* persistent_engine::current_: durable head and logical identity
  core,      \* persistent_engine::core_: the world in memory
  queue,     \* commands accepted by the session
  working,   \* the update between core and catalog, or None
  txn,       \* the transactions
  answer     \* what each command's ticket was settled with

connectionVars == <<phase, name, current, core, queue, working>>
vars == <<db, connectionVars, txn, answer>>

\* stored_world: a row of the catalog and the identity of its logical state.
Stored == [head : SessionHead, logical : Identities]

\* An update the core has made and the catalog has not seen.
Update == [command : Commands \cup {None}, world : World]

Transaction ==
  [state : {"open", "failed", "queued"}, on : Connections, base : Stored,
   stage : World, nursery : Changes \cup {None}]

Answers == [kind : {"rejected", "cancelled", "conflict", "overtaken", "failed",
                    "abandoned", "lost", "refused"}] \cup [kind : {"done"}, head : SessionHead]

\* What the null values are not, and that an allocation finds an address which
\* neither a connection nor a transaction keeps alive.
ASSUME ConnectionAssumption ==
  /\ MaxGeneration \in Nat /\ QueueLimit \in Nat
  /\ EmptyBatches \subseteq Changes
  /\ Changes \cap Txns = {} /\ Connections \cap Txns = {}
  /\ None \notin Commands \cup Connections \cup Names
  /\ None \notin Stored \cup World \cup Update \cup Transaction \cup Answers
  /\ Nowhere \notin Position \cup Seq(Changes)
  /\ \A f \in [Connections \cup Txns -> Identities \cup {None}] :
       \E i \in Identities : \A h \in Connections \cup Txns : f[h] # i

Init ==
  /\ db = Empty
  /\ phase = [c \in Connections |-> "closed"]
  /\ name = [c \in Connections |-> None]
  /\ current = [c \in Connections |-> None]
  /\ core = [c \in Connections |-> None]
  /\ queue = [c \in Connections |-> <<>>]
  /\ working = [c \in Connections |-> None]
  /\ txn = [t \in Txns |-> None]
  /\ answer = [x \in Commands |-> None]

Seed == [content |-> <<>>, layout |-> "settled"]

Held == {current[c].logical : c \in {d \in Connections : current[d] # None}}
          \cup {txn[t].base.logical : t \in {u \in Txns : txn[u] # None}}

\* make_shared<logical_state>: an address nobody holds.
Fresh == CHOOSE i \in Identities : i \notin Held

Idle(c) == phase[c] = "open" /\ working[c] = None

\* The worlds some client may still hold a snapshot of.
Snapshots == {HeadAt(db, p) : p \in {q \in Position : q.generation < Len(db.timelines[q.name])}}

\* A command is new until it is queued, prepared, published or settled.
New(x) ==
  /\ answer[x] = None
  /\ \A h \in Snapshots : x \notin ToSet(h.checkpoint.content)
  /\ \A c \in Connections :
       /\ x \notin ToSet(queue[c])
       /\ working[c] # None => working[c].command # x
  /\ \A t \in Txns : txn[t] # None => x # txn[t].nursery /\ x \notin ToSet(txn[t].stage.content)

NewTxn(t) == answer[t] = None /\ txn[t] = None

Settle(commands, kind) ==
  answer' = [x \in Commands |-> IF x \in commands THEN [kind |-> kind] ELSE answer[x]]

Done(x, head) == answer' = [answer EXCEPT ![x] = [kind |-> "done", head |-> head]]

(***************************************************************************)
(* connect, and the end of a connection.                                   *)
(***************************************************************************)
Opened(c, n, head) ==
  /\ phase' = [phase EXCEPT ![c] = "open"]
  /\ name' = [name EXCEPT ![c] = n]
  /\ current' = [current EXCEPT ![c] = [head |-> head, logical |-> Fresh]]
  /\ core' = [core EXCEPT ![c] = head.checkpoint]
  /\ UNCHANGED <<queue, working, txn, answer>>

\* store.find(name): an existing session is restored at its latest generation.
Find(c, n) ==
  /\ phase[c] = "closed"
  /\ IF Exists(db, n)
     THEN Opened(c, n, Latest(db, n))
     ELSE /\ phase' = [phase EXCEPT ![c] = "creating"]
          /\ name' = [name EXCEPT ![c] = n]
          /\ UNCHANGED <<current, core, queue, working, txn, answer>>
  /\ UNCHANGED db

\* store.create_session: refused if another connection created the name since.
CreateSession(c) ==
  LET r == [kind |-> "create", name |-> name[c], checkpoint |-> Seed]
  IN  /\ phase[c] = "creating"
      /\ ~Refused(db, r)
      /\ db' = After(db, r)
      /\ Opened(c, name[c], OutcomeOf(db, r).head)

\* The connection object is gone, and every command it still had with it.
Gone(c, commands, kind) ==
  /\ phase' = [phase EXCEPT ![c] = "closed"]
  /\ name' = [name EXCEPT ![c] = None]
  /\ current' = [current EXCEPT ![c] = None]
  /\ core' = [core EXCEPT ![c] = None]
  /\ queue' = [queue EXCEPT ![c] = <<>>]
  /\ working' = [working EXCEPT ![c] = None]
  /\ txn' = [t \in Txns |-> IF txn[t] # None /\ txn[t].on = c THEN None ELSE txn[t]]
  /\ Settle(commands, kind)

\* The creation failed: refused, or its COMMIT was not reported.
CreateFails(c) ==
  LET r == [kind |-> "create", name |-> name[c], checkpoint |-> Seed]
  IN  /\ phase[c] = "creating"
      /\ db' \in {db} \cup (IF Refused(db, r) THEN {} ELSE {After(db, r)})
      /\ Gone(c, {}, "lost")

TxnsOf(c) == {t \in Txns : txn[t] # None /\ txn[t].on = c}

\* ~connection: shutdown has drained the queue. The transactions begun on it
\* can no longer commit (session_closed).
Destroy(c) ==
  /\ Idle(c) \/ phase[c] = "failed"
  /\ queue[c] = <<>>
  /\ Gone(c, TxnsOf(c), "refused")
  /\ UNCHANGED db

\* The process dies, with its queue, its engine and its transactions.
Crash(c) ==
  /\ phase[c] # "closed"
  /\ Gone(c, ToSet(queue[c]) \cup TxnsOf(c) \cup
             (IF working[c] # None THEN {working[c].command} \cap Commands ELSE {}), "lost")
  /\ UNCHANGED db

(***************************************************************************)
(* Submission.                                                             *)
(***************************************************************************)
Enqueue(c, x) == queue' = [queue EXCEPT ![c] = Append(@, x)]

Room(c) == phase[c] = "open" /\ Len(queue[c]) < QueueLimit

Submit(c, x) ==
  /\ x \in Changes /\ New(x)
  /\ Room(c)
  /\ Enqueue(c, x)
  /\ UNCHANGED <<db, phase, name, current, core, working, txn, answer>>

\* cancel: a command the worker has not claimed is taken out of the queue.
Cancel(c, x) ==
  /\ x \in ToSet(queue[c])
  /\ \E i \in DOMAIN queue[c] : queue[c][i] = x /\ queue' = [queue EXCEPT ![c] = RemoveAt(@, i)]
  /\ txn' = [t \in Txns |-> IF t = x THEN None ELSE txn[t]]
  /\ Settle({x}, "cancelled")
  /\ UNCHANGED <<db, phase, name, current, core, working>>

(***************************************************************************)
(* The worker: persistent_engine.                                          *)
(***************************************************************************)

\* contribute_ordinary, advance and install fail with poison(): the engine is
\* unusable and the session gives its failure to every queued command.
Poison(c, x, kind) ==
  /\ phase' = [phase EXCEPT ![c] = "failed"]
  /\ queue' = [queue EXCEPT ![c] = <<>>]
  /\ working' = [working EXCEPT ![c] = None]
  /\ txn' = [t \in Txns |-> IF t = x \/ t \in ToSet(queue[c]) THEN None ELSE txn[t]]
  /\ answer' = [y \in Commands |->
       IF y = x THEN [kind |-> kind]
       ELSE IF y \in ToSet(queue[c]) THEN [kind |-> "abandoned"] ELSE answer[y]]
  /\ UNCHANGED <<name, current, core>>

\* The session claims the first command.
Claims(c, x) == Idle(c) /\ queue[c] # <<>> /\ x = Head(queue[c])

Dequeue(c) == queue' = [queue EXCEPT ![c] = Tail(@)]

\* What core_->contribute may make of a world: the change is applied, and
\* merge work may be done or be owed.
Contributed(w, x) ==
  [content : {IF x \in EmptyBatches THEN w.content ELSE Append(w.content, x)},
   layout  : IF x \in EmptyBatches THEN {w.layout, "settled"} ELSE Layouts]

\* contribute_ordinary: the core admits the change; publication follows.
Contribute(c, x) ==
  /\ Claims(c, x)
  /\ x \in Changes
  /\ \E w \in Contributed(core[c], x) :
       /\ ~(x \in EmptyBatches /\ w = core[c])
       /\ core' = [core EXCEPT ![c] = w]
       /\ working' = [working EXCEPT ![c] = [command |-> x, world |-> w]]
  /\ Dequeue(c)
  /\ UNCHANGED <<db, phase, name, current, txn, answer>>

\* An empty batch that left the layout alone is answered with current_.
ContributeNothing(c, x) ==
  /\ Claims(c, x)
  /\ x \in EmptyBatches
  /\ Done(x, current[c].head)
  /\ Dequeue(c)
  /\ UNCHANGED <<db, phase, name, current, core, working, txn>>

\* core_->contribute throws and the core is healthy: only this ticket fails.
Reject(c, x) ==
  /\ Claims(c, x)
  /\ x \in Changes
  /\ Settle({x}, "rejected")
  /\ Dequeue(c)
  /\ UNCHANGED <<db, phase, name, current, core, working, txn>>

\* core_->contribute throws and the core failed.
CoreFails(c, x) ==
  /\ Claims(c, x)
  /\ x \in Changes
  /\ Poison(c, x, "failed")
  /\ UNCHANGED db

\* advance: merge work changed the layout and nothing else.
Advance(c) ==
  /\ Idle(c)
  /\ core[c].layout = "owing"
  /\ LET w == [core[c] EXCEPT !.layout = "settled"]
     IN  /\ core' = [core EXCEPT ![c] = w]
         /\ working' = [working EXCEPT ![c] = [command |-> None, world |-> w]]
  /\ UNCHANGED <<db, phase, name, current, queue, txn, answer>>

AdvanceFails(c) ==
  /\ Idle(c)
  /\ core[c].layout = "owing"
  /\ Poison(c, None, "failed")
  /\ UNCHANGED db

\* Mutant of StillCurrent: conflicts are not detected.
StillCurrent_always(c, t) == txn[t] # None

\* install: is the transaction's base still the connection's logical state?
StillCurrent(c, t) == txn[t].base.logical = current[c].logical

Conflict(c, t) ==
  /\ Claims(c, t)
  /\ t \in Txns /\ ~StillCurrent(c, t)
  /\ Settle({t}, "conflict")
  /\ Dequeue(c)
  /\ txn' = [txn EXCEPT ![t] = None]
  /\ UNCHANGED <<db, phase, name, current, core, working>>

\* A transaction executed nothing until its first flush.
Executed(t) == txn[t].stage # txn[t].base.head.checkpoint

InstallNothing(c, t) ==
  /\ Claims(c, t)
  /\ t \in Txns /\ StillCurrent(c, t) /\ ~Executed(t)
  /\ Done(t, current[c].head)
  /\ Dequeue(c)
  /\ txn' = [txn EXCEPT ![t] = None]
  /\ UNCHANGED <<db, phase, name, current, core, working>>

\* The private world goes to the catalog; its core is adopted afterwards.
Install(c, t) ==
  /\ Claims(c, t)
  /\ t \in Txns /\ StillCurrent(c, t) /\ Executed(t)
  /\ working' = [working EXCEPT ![c] = [command |-> t, world |-> txn[t].stage]]
  /\ Dequeue(c)
  /\ UNCHANGED <<db, phase, name, current, core, txn, answer>>

(***************************************************************************)
(* runtime_store::publish and what persistent_engine makes of its result.  *)
(***************************************************************************)
\* Mutant of Expected: the head is read from the catalog before publishing.
Expected_reread(c) == Latest(db, name[c])

Expected(c) == current[c].head

PublishRequest(c) ==
  [kind |-> "publish", expected |-> Expected(c), checkpoint |-> working[c].world]

\* Mutant of Mutates: an installed transaction keeps the logical identity.
Mutates_contributions(update) == update.command \in Changes

\* publish(updated, mutation): maintenance keeps the logical identity.
Mutates(update) == update.command # None

Published(c) ==
  LET r == PublishRequest(c)
      x == working[c].command
  IN  /\ working[c] # None
      /\ ~Refused(db, r) /\ Wins(db, r)
      /\ db' = After(db, r)
      /\ current' = [current EXCEPT ![c] =
           [head    |-> OutcomeOf(db, r).head,
            logical |-> IF Mutates(working[c]) THEN Fresh ELSE @.logical]]
      /\ core' = [core EXCEPT ![c] = working[c].world]
      /\ working' = [working EXCEPT ![c] = None]
      /\ IF x # None THEN Done(x, OutcomeOf(db, r).head) ELSE UNCHANGED answer
      /\ txn' = [t \in Txns |-> IF t = x THEN None ELSE txn[t]]
      /\ UNCHANGED <<phase, name, queue>>

\* Mutant of Overtaken: the publication's `published` flag is ignored.
Overtaken_ignored(c) ==
  LET x == working[c].command
  IN  /\ working[c] # None
      /\ ~Refused(db, PublishRequest(c)) /\ ~Wins(db, PublishRequest(c))
      /\ current' = [current EXCEPT ![c].head = OutcomeOf(db, PublishRequest(c)).head]
      /\ core' = [core EXCEPT ![c] = working[c].world]
      /\ working' = [working EXCEPT ![c] = None]
      /\ IF x # None THEN Done(x, OutcomeOf(db, PublishRequest(c)).head) ELSE UNCHANGED answer
      /\ txn' = [t \in Txns |-> IF t = x THEN None ELSE txn[t]]
      /\ UNCHANGED <<db, phase, name, queue>>

\* "named Everett session was advanced by another connection"
Overtaken(c) ==
  /\ working[c] # None
  /\ ~Refused(db, PublishRequest(c)) /\ ~Wins(db, PublishRequest(c))
  /\ Poison(c, working[c].command, "overtaken")
  /\ UNCHANGED db

\* Sealing, the catalog transaction or the restoration of its result throws:
\* the rows may have been committed.
PublishFails(c) ==
  LET r == PublishRequest(c)
  IN  /\ working[c] # None
      /\ db' \in {db} \cup (IF Refused(db, r) THEN {} ELSE {After(db, r)})
      /\ Poison(c, working[c].command, "failed")

(***************************************************************************)
(* Transactions.                                                           *)
(***************************************************************************)
Begin(c, t) ==
  /\ phase[c] \in {"open", "failed"}
  /\ NewTxn(t)
  /\ txn' = [txn EXCEPT ![t] = [state |-> "open", on |-> c, base |-> current[c],
                               stage |-> current[c].head.checkpoint, nursery |-> None]]
  /\ UNCHANGED <<db, connectionVars, answer>>

Editable(t) == txn[t] # None /\ txn[t].state = "open"

\* change: the nursery of a transaction holds one batch until it is flushed.
Edit(t, x) ==
  /\ Editable(t)
  /\ txn[t].nursery = None
  /\ x \in Changes \ EmptyBatches /\ New(x)
  /\ txn' = [txn EXCEPT ![t].nursery = x]
  /\ UNCHANGED <<db, connectionVars, answer>>

\* Edits that restore the staged value are erased from the nursery.
Revert(t) ==
  /\ Editable(t)
  /\ txn[t].nursery # None
  /\ txn' = [txn EXCEPT ![t].nursery = None]
  /\ UNCHANGED <<db, connectionVars, answer>>

\* flush: the private core admits the nursery and seals the private world.
Flushed(t) ==
  IF txn[t].nursery = None THEN {txn[t].stage}
  ELSE Contributed(txn[t].stage, txn[t].nursery)

Flush(t) ==
  /\ Editable(t)
  /\ txn[t].nursery # None
  /\ \E w \in Flushed(t) : txn' = [txn EXCEPT ![t].stage = w, ![t].nursery = None]
  /\ UNCHANGED <<db, connectionVars, answer>>

\* A failed flush leaves a transaction that can only be aborted.
FlushFails(t) ==
  /\ Editable(t)
  /\ txn[t].nursery # None
  /\ txn' = [txn EXCEPT ![t].state = "failed"]
  /\ UNCHANGED <<db, connectionVars, answer>>

\* snapshot_type::branch: a second transaction with the same base.
Branch(t, u) ==
  /\ Editable(t)
  /\ NewTxn(u)
  /\ txn' = [txn EXCEPT ![u] = txn[t]]
  /\ UNCHANGED <<db, connectionVars, answer>>

\* commit_async: flush, then submit; a full queue makes it wait.
CommitTxn(t) ==
  /\ Editable(t)
  /\ Room(txn[t].on)
  /\ \E w \in Flushed(t) :
       txn' = [txn EXCEPT ![t].stage = w, ![t].nursery = None, ![t].state = "queued"]
  /\ Enqueue(txn[t].on, t)
  /\ UNCHANGED <<db, phase, name, current, core, working, answer>>

\* The session failed: submit throws, the candidate is dropped.
CommitRefused(t) ==
  /\ Editable(t)
  /\ phase[txn[t].on] = "failed"
  /\ txn' = [txn EXCEPT ![t] = None]
  /\ Settle({t}, "refused")
  /\ UNCHANGED <<db, connectionVars>>

Abort(t) ==
  /\ txn[t] # None /\ txn[t].state \in {"open", "failed"}
  /\ txn' = [txn EXCEPT ![t] = None]
  /\ Settle({t}, "refused")
  /\ UNCHANGED <<db, connectionVars>>

(***************************************************************************)
(* save and fork, each with a store of its own, of any snapshot a client   *)
(* may still hold.                                                         *)
(***************************************************************************)
\* The answer concerns nobody else.
Served(r) == ~Refused(db, r) /\ db' = After(db, r) /\ UNCHANGED <<connectionVars, txn, answer>>

SaveSnapshot(s, h) == Served([kind |-> "save", name |-> s, source |-> h])

ForkSnapshot(n, h) == Served([kind |-> "fork", name |-> n, source |-> h])

Worker(c) ==
  \/ \E x \in Commands : \/ Contribute(c, x) \/ ContributeNothing(c, x) \/ Reject(c, x)
                         \/ CoreFails(c, x)
                         \/ Conflict(c, x) \/ InstallNothing(c, x) \/ Install(c, x)
  \/ Advance(c) \/ AdvanceFails(c)
  \/ Published(c) \/ Overtaken(c) \/ PublishFails(c)

Next ==
  \/ \E c \in Connections :
       \/ \E n \in Names : Find(c, n)
       \/ CreateSession(c) \/ CreateFails(c) \/ Destroy(c) \/ Crash(c)
       \/ \E x \in Changes : Submit(c, x)
       \/ \E x \in Commands : Cancel(c, x)
       \/ \E t \in Txns : Begin(c, t)
       \/ Worker(c)
  \/ \E t \in Txns :
       \/ \E x \in Changes : Edit(t, x)
       \/ \E u \in Txns : Branch(t, u)
       \/ Revert(t) \/ Flush(t) \/ FlushFails(t) \/ CommitTxn(t) \/ CommitRefused(t) \/ Abort(t)
  \/ \E h \in Snapshots : \/ \E s \in Saves : SaveSnapshot(s, h)
                          \/ \E n \in Names : ForkSnapshot(n, h)

Spec == Init /\ [][Next]_vars

(***************************************************************************)
(* Properties.                                                             *)
(***************************************************************************)

(* A ticket that reports success reports a durable world: the row is in the
   catalog, and it contains the change the ticket is about.                *)
AcknowledgedIsDurable ==
  \A x \in Commands : answer[x] # None /\ answer[x].kind = "done" =>
    /\ IsRow(db, answer[x].head)
    /\ x \in Changes \ EmptyBatches => x \in ToSet(answer[x].head.checkpoint.content)

(* A contribution that was rejected by a healthy core, cancelled, lost the
   race for its session, or was still queued when the engine failed never
   becomes part of any world, however the connection goes on or is reopened. *)
RefusedNeverAppears ==
  \A x \in Changes :
    answer[x] # None /\ answer[x].kind \in {"rejected", "cancelled", "overtaken", "abandoned"} =>
      \A h \in Snapshots : x \notin ToSet(h.checkpoint.content)

(* What a connection shows its readers is exactly a generation of the name it
   opened, and between commands the core holds those contents: it never keeps
   a change that was not published.                                        *)
CurrentIsAGeneration ==
  \A c \in Connections : phase[c] \in {"open", "failed"} =>
    /\ current[c].head.name = name[c]
    /\ IsRow(db, current[c].head)
    /\ Idle(c) => core[c].content = current[c].head.checkpoint.content

\* What callers were told stays so: acknowledged changes are in the name's
\* history, refused ones are nowhere, and every world shown is a generation.
AnswersAreKept == AcknowledgedIsDurable /\ RefusedNeverAppears /\ CurrentIsAGeneration

(* The logical identity by which install detects conflicts is sound: while a
   transaction's base has the identity of the connection's current world,
   maintenance may have replaced its layout but its contents are the same. *)
IdentityMeansContent ==
  \A t \in Txns : txn[t] # None /\ StillCurrent(txn[t].on, t) =>
    current[txn[t].on].head.checkpoint.content = txn[t].base.head.checkpoint.content

HistoryOf(n) == IF Exists(db, n) THEN Latest(db, n).checkpoint.content ELSE Nowhere

History == INSTANCE NamedHistory WITH
             history <- [n \in Names |-> HistoryOf(n)], Unborn <- Nowhere

(* Whatever connections, transactions, maintenance and failures do, each name
   has one history that only grows at its end and holds no change twice, and
   a fork begins as a prefix of its source: no update is lost, none is applied
   twice, and a transaction is published on the state it read.             *)
ImplementsHistory == History!HistorySpec

-----------------------------------------------------------------------------
\* Connections, changes and transactions are only compared: a symmetry.
Interchangeable ==
  Permutations(Connections) \cup Permutations(Changes \ EmptyBatches) \cup Permutations(Txns)
=============================================================================
