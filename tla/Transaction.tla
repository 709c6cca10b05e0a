---------------------------- MODULE Transaction ----------------------------
(***************************************************************************)
(* transaction (transaction.h) key by key: edits are composed in a nursery *)
(* over staged contents, a flush hands them to a private core whose world  *)
(* is staged next, snapshots are frozen and branched, and a commit hands   *)
(* over the core.  Contents are functions of keys; module TypedWorld is    *)
(* what a core does with a contribution, NurseryMap what the nursery is,   *)
(* and Connection what becomes of a commit.                                *)
(***************************************************************************)
EXTENDS Naturals

CONSTANTS
  Transactions, Frozen,      \* objects of the program: transactions, snapshots
  TxnKeys,
  KindOf,                    \* of a key's sort: an own arrow, a replacement, composed
  TxnStates, Missing,
  Arrows, TxnEdits,          \* all arrows; those a key is changed by
  Apply(_, _), Compose(_, _),
  TxnBases,                  \* contents a connection may show
  Nothing,                   \* no object
  MaxEdits                   \* edits (a bound of the model)

Kinds == {"own_arrow", "replacement", "composed"}   \* the first is a replacement too
Replaces(k) == KindOf[k] # "composed"
Contents == [TxnKeys -> TxnStates]
Entry == [arrow : Arrows, original : TxnStates]

\* Arrows act on states; those that replace forget the state they meet.
TransactionAssumption ==
  /\ KindOf \in [TxnKeys -> Kinds] /\ Missing \in TxnStates /\ TxnBases \subseteq Contents
  /\ TxnEdits \in [TxnKeys -> SUBSET Arrows]
  /\ \A s \in TxnStates, a \in Arrows : Apply(s, a) \in TxnStates
  /\ \A a, b \in Arrows : Compose(a, b) \in Arrows
  /\ \A s \in TxnStates, a, b \in Arrows : Apply(s, Compose(a, b)) = Apply(Apply(s, a), b)
  /\ \A k \in TxnKeys : Replaces(k) =>
       \A a \in TxnEdits[k], s \in TxnStates : Apply(s, a) = Apply(Missing, a)
  /\ Nothing \notin Contents \cup Entry

ASSUME TransactionAssumption

VARIABLES
  txns,     \* each transaction that was begun and not closed: its fields
  frozen,   \* each snapshot
  handed,   \* what the last step submitted, if it was a commit
  edits     \* so far
transactionVars == <<txns, frozen, handed, edits>>

\* world is of stage_; truth is a history: the base with all that was changed since.
Snapshot == [base : Contents, world : Contents, changed : BOOLEAN,
              nursery : [TxnKeys -> Entry \cup {Nothing}], truth : Contents]
Open == [base : Contents, world : Contents, changed : BOOLEAN,
         nursery : [TxnKeys -> Entry \cup {Nothing}], truth : Contents,
         core : Contents \cup {Nothing}, failed : BOOLEAN]
Submitted == [base : Contents, core : Contents \cup {Nothing}, truth : Contents]

NoEdits == [k \in TxnKeys |-> Nothing]
Edited(v) == {k \in TxnKeys : v.nursery[k] # Nothing}

TransactionInit ==
  /\ txns = [t \in Transactions |-> Nothing]
  /\ frozen = [s \in Frozen |-> Nothing]
  /\ handed = Nothing /\ edits = 0

\* require_active
IsOpen(t) == txns[t] # Nothing /\ ~txns[t].failed

-----------------------------------------------------------------------------
\* Reading and changing.

\* What an entry's arrow acts on: a replacement's on anything.
Below(v, k) == IF Replaces(k) THEN Missing ELSE v.world[k]
Reading(v, k) == IF k \in Edited(v) THEN Apply(Below(v, k), v.nursery[k].arrow) ELSE v.world[k]

\* Mutant of Original: a key is compared with what the connection showed.
Original_origin(v, k) ==
  IF KindOf[k] = "own_arrow" /\ k \in Edited(v) THEN v.nursery[k].original ELSE v.base[k]

\* The state the nursery's arrow of a key starts from.
Original(v, k) ==
  IF KindOf[k] = "own_arrow" /\ k \in Edited(v) THEN v.nursery[k].original ELSE v.world[k]
Before(v, k) == IF k \in Edited(v) THEN Apply(Original(v, k), v.nursery[k].arrow) ELSE Original(v, k)
DeletesAbsent(k, before, after) == Replaces(k) /\ before = Missing /\ after = Missing

Combined(v, k, arrow) ==
  IF k \in Edited(v) /\ ~Replaces(k) THEN Compose(v.nursery[k].arrow, arrow) ELSE arrow
\* The nursery keeps no replacement that replaces nothing.
EntryAfter(v, k, arrow) ==
  IF Replaces(k) /\ Apply(Before(v, k), arrow) = Original(v, k) THEN Nothing
  ELSE [arrow |-> Combined(v, k, arrow), original |-> Original(v, k)]

begin(t, base) ==
  /\ txns[t] = Nothing
  /\ txns' = [txns EXCEPT ![t] =
       [base |-> base, world |-> base, changed |-> FALSE, nursery |-> NoEdits, truth |-> base,
        core |-> Nothing, failed |-> FALSE]]
  /\ handed' = Nothing /\ UNCHANGED <<frozen, edits>>

\* Deleting an absent key is refused, and changes nothing.
change(t, k, arrow) ==
  LET v == txns[t] IN
  /\ IsOpen(t) /\ edits < MaxEdits
  /\ ~DeletesAbsent(k, Before(v, k), Apply(Before(v, k), arrow))
  /\ txns' = [txns EXCEPT ![t].nursery[k] = EntryAfter(v, k, arrow), ![t].truth[k] = Apply(@, arrow)]
  /\ edits' = edits + 1
  /\ handed' = Nothing /\ UNCHANGED frozen

\* The nursery stops inside an edit.
change_fails(t) ==
  /\ IsOpen(t)
  /\ txns' = [txns EXCEPT ![t].failed = TRUE]
  /\ handed' = Nothing /\ UNCHANGED <<frozen, edits>>

-----------------------------------------------------------------------------
\* Flushing.

\* ensure_core
CoreOf(v) == IF v.core = Nothing THEN v.world ELSE v.core

\* The private core validates the nursery as one contribution, and takes it.
Refuses(v) ==
  \E k \in Edited(v) : DeletesAbsent(k, CoreOf(v)[k], Apply(Missing, v.nursery[k].arrow))
Taken(v) ==
  [k \in TxnKeys |-> IF k \in Edited(v)
                     THEN Apply(IF Replaces(k) THEN Missing ELSE CoreOf(v)[k], v.nursery[k].arrow)
                     ELSE CoreOf(v)[k]]

\* An empty nursery is not flushed.
AfterFlush(v) ==
  IF Edited(v) = {} THEN v
  ELSE [v EXCEPT !.core = Taken(v), !.world = Taken(v), !.changed = TRUE, !.nursery = NoEdits]

flush(t) ==
  /\ IsOpen(t) /\ ~Refuses(txns[t])
  /\ txns' = [txns EXCEPT ![t] = AfterFlush(@)]
  /\ handed' = Nothing /\ UNCHANGED <<frozen, edits>>

\* Mutant of Abandoned: the transaction may be used again.
Abandoned_usable(v, core) == [v EXCEPT !.core = core]

Abandoned(v, core) == [v EXCEPT !.core = core, !.failed = TRUE]

\* The core could not be made, refused, or failed when it had taken the batch or not.
flush_fails(t) ==
  /\ IsOpen(t) /\ Edited(txns[t]) # {}
  /\ \E core \in {txns[t].core, CoreOf(txns[t])} \cup (IF Refuses(txns[t]) THEN {} ELSE {Taken(txns[t])}) :
       txns' = [txns EXCEPT ![t] = Abandoned(@, core)]
  /\ handed' = Nothing /\ UNCHANGED <<frozen, edits>>

-----------------------------------------------------------------------------
\* Snapshot, branches and the end.

freeze(t, s) ==
  LET v == txns[t] IN
  /\ IsOpen(t)
  /\ frozen' = [frozen EXCEPT ![s] = [base |-> v.base, world |-> v.world, changed |-> v.changed,
                                      nursery |-> v.nursery, truth |-> v.truth]]
  /\ handed' = Nothing /\ UNCHANGED <<txns, edits>>

branch(s, t) ==
  LET v == frozen[s] IN
  /\ v # Nothing /\ txns[t] = Nothing
  /\ txns' = [txns EXCEPT ![t] =
       [base |-> v.base, world |-> v.world, changed |-> v.changed, nursery |-> v.nursery, truth |-> v.truth,
        core |-> Nothing, failed |-> FALSE]]
  /\ handed' = Nothing /\ UNCHANGED <<frozen, edits>>

\* Mutant of Candidate: a branch of a flushed snapshot hands over no core.
Candidate_own(v) == v.core

\* A branch of a flushed snapshot has no core yet.
Candidate(v) == IF v.changed THEN CoreOf(v) ELSE v.core

\* The session takes the candidate over; without one it keeps the base.
commit_async(t) ==
  LET v == AfterFlush(txns[t]) IN
  /\ IsOpen(t) /\ ~Refuses(txns[t])
  /\ handed' = [base |-> v.base, core |-> Candidate(v), truth |-> v.truth]
  /\ txns' = [txns EXCEPT ![t] = Nothing]
  /\ UNCHANGED <<frozen, edits>>

\* After the flush, no core or no command could be made; the transaction stays open.
commit_fails(t) ==
  /\ IsOpen(t) /\ ~Refuses(txns[t])
  /\ txns' = [txns EXCEPT ![t] = [AfterFlush(@) EXCEPT !.core = Nothing]]
  /\ handed' = Nothing /\ UNCHANGED <<frozen, edits>>

\* abort, or a session that closed between the flush and the submission.
abort(t) ==
  /\ txns[t] # Nothing
  /\ txns' = [txns EXCEPT ![t] = Nothing]
  /\ handed' = Nothing /\ UNCHANGED <<frozen, edits>>

TransactionNext ==
  \E t \in Transactions :
    \/ \E base \in TxnBases : begin(t, base)
    \/ \E k \in TxnKeys : \E arrow \in TxnEdits[k] : change(t, k, arrow)
    \/ \E s \in Frozen : freeze(t, s) \/ branch(s, t)
    \/ change_fails(t) \/ flush(t) \/ flush_fails(t)
    \/ commit_async(t) \/ commit_fails(t) \/ abort(t)

TransactionSpec == TransactionInit /\ [][TransactionNext]_transactionVars

-----------------------------------------------------------------------------
\* Properties.

TransactionTypeOK ==
  /\ txns \in [Transactions -> Open \cup {Nothing}]
  /\ frozen \in [Frozen -> Snapshot \cup {Nothing}]
  /\ handed \in Submitted \cup {Nothing}
  /\ edits \in Nat

ReadsItsWorld(v) == \A k \in TxnKeys : Reading(v, k) = v.truth[k]

Installed(h) == IF h.core = Nothing THEN h.base ELSE h.core

(* Whatever was flushed, failed, frozen and branched in between, a transaction
   reads and decides on the base with every edit made since, exactly once; its
   flush is not refused for what its nursery holds; and a commit hands over
   what it read (change, flush, ensure_core, commit_async, branch).          *)
TransactionsKeepTheirWorld ==
  /\ \A t \in Transactions : IsOpen(t) =>
       /\ ReadsItsWorld(txns[t]) /\ ~Refuses(txns[t])
       /\ \A k \in TxnKeys : Before(txns[t], k) = txns[t].truth[k]
  /\ \A s \in Frozen : frozen[s] # Nothing => ReadsItsWorld(frozen[s])
  /\ handed # Nothing => Installed(handed) = handed.truth
=============================================================================
