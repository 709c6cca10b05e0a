--------------------------- MODULE PartitionRound ---------------------------
(***************************************************************************)
(* partition_round over reference_world and pin_set: every peer applies the *)
(* batches of one round, each to a disjoint part of the keys, to its own   *)
(* copy of the base.  Batches may arrive in any order, twice, or from a    *)
(* peer that started from another base.  Signatures are sums in a small    *)
(* ring, so that different tables may collide.                             *)
(***************************************************************************)
EXTENDS Integers, Sequences, FiniteSets, FiniteSetsExt, Functions

CONSTANTS
  Peers,
  WorldKeys, WorldValues,      \* numbers
  Partition,                   \* each key's owner
  KeyHash, ValueHash, Modulus, \* the fingerprint ring and the hashes into it
  Base, OtherBase,             \* tables: the round's and a stranger's
  BatchIds

Absent == -1

KeyValues == WorldValues \cup {Absent}
RoundAssumption ==
  /\ IsFiniteSet(WorldKeys) /\ Absent \notin WorldValues
  /\ KeyHash \in [WorldKeys -> Nat] /\ ValueHash \in [WorldValues -> Nat] /\ Modulus \in Nat \ {0}
  /\ Base \in [WorldKeys -> KeyValues] /\ OtherBase \in [WorldKeys -> KeyValues]
ASSUME RoundAssumption

VARIABLES
  current,    \* each peer's world: its pinned entries, their signature, and the live size
  taken,      \* the batches each peer has accepted
  held        \* a snapshot each peer's reader holds, and the table it showed when taken

roundVars == <<current, taken, held>>

-----------------------------------------------------------------------------
\* fingerprint.h: sums of products; nothing hashes to zero.

Hash(value) == IF value = Absent THEN 0 ELSE ValueHash[value]
\* table_fingerprint::binding and delta
Binding(key, value) == (KeyHash[key] * Hash(value)) % Modulus
Delta(key, before, after) == (KeyHash[key] * (Hash(after) - Hash(before))) % Modulus
RingSum(f) == SumFunction(f) % Modulus

\* pins.h: an immutable list of objects with the sum of their contributions.
Pin(records, contribution) == [records |-> records, contribution |-> contribution]
NoPins == [entries |-> <<>>, signature |-> 0]
add(owner, item) ==
  [entries |-> Append(owner.entries, item), signature |-> (owner.signature + item.contribution) % Modulus]
\* replace, for all the entries there are: refused unless the sum stays.
replaced(owner, items) ==
  LET sum == RingSum([i \in DOMAIN items |-> items[i].contribution])
      removed == RingSum([i \in DOMAIN owner.entries |-> owner.entries[i].contribution])
  IN  IF sum # removed THEN {} ELSE {[entries |-> items, signature |-> (owner.signature - removed + sum) % Modulus]}

-----------------------------------------------------------------------------
\* reference_world.  Records are a function from keys to a value or Absent.

\* get: the newest run with the key answers, be it with a tombstone.
get(world, key) ==
  LET hits == {i \in DOMAIN world.owner.entries : key \in DOMAIN world.owner.entries[i].records}
  IN  IF hits = {} THEN Absent ELSE world.owner.entries[Max(hits)].records[key]

resolved(world) == [k \in WorldKeys |-> get(world, k)]
LiveKeys(table) == {k \in WorldKeys : table[k] # Absent}

from_records(table) ==
  LET live == LiveKeys(table)
      sum == RingSum([k \in live |-> Binding(k, table[k])])
  IN  [owner |-> IF live = {} THEN NoPins ELSE add(NoPins, Pin([k \in live |-> table[k]], sum)),
       live_size |-> Cardinality(live)]

\* Eager compaction, and the reload of a dump, keep the table and its sum.
compact(world) ==
  {[owner |-> o, live_size |-> world.live_size] :
     o \in replaced(world.owner, from_records(resolved(world)).owner.entries)}

\* append: the edits as one run; a deletion contributes its old binding.
append(world, edits) ==
  LET keys == DOMAIN edits
      sum == RingSum([k \in keys |-> Delta(k, edits[k].before, edits[k].after)])
      born == {k \in keys : edits[k].before = Absent /\ edits[k].after # Absent}
      gone == {k \in keys : edits[k].before # Absent /\ edits[k].after = Absent}
  IN  [owner |-> IF keys = {} THEN world.owner
                 ELSE add(world.owner, Pin([k \in keys |-> edits[k].after], sum)),
       live_size |-> world.live_size + Cardinality(born) - Cardinality(gone)]

-----------------------------------------------------------------------------
\* make_batch, by a peer whose base is this table: refuses foreign keys and
\* deletions of what is absent.
MayWrite(table, owner, writes) ==
  \A k \in DOMAIN writes : Partition[k] = owner /\ ~(table[k] = Absent /\ writes[k] = Absent)

make_batch(table, id, owner, writes) ==
  [batch_id |-> id, owner |-> owner, base_signature |-> from_records(table).owner.signature,
   delta |-> RingSum([k \in DOMAIN writes |-> Delta(k, table[k], writes[k])]),
   edits |-> [k \in DOMAIN writes |-> [before |-> table[k], after |-> writes[k]]]]

Writes == UNION {[ks -> KeyValues] : ks \in SUBSET WorldKeys}
PartitionOwners == {Partition[k] : k \in WorldKeys}

\* Every batch that may be on its way, those of a peer on another base included.
Batches ==
  UNION {{make_batch(t, id, o, w) : w \in {x \in Writes : MayWrite(t, o, x)}} :
         t \in {Base, OtherBase}, id \in BatchIds, o \in PartitionOwners}

RoundInit ==
  /\ current = [p \in Peers |-> from_records(Base)]
  /\ taken = [p \in Peers |-> {}]
  /\ held = [p \in Peers |-> [world |-> from_records(Base), table |-> Base]]

claimed(p) == UNION {DOMAIN b.edits : b \in taken[p]}

\* Mutant of Fits: overlap with an accepted batch goes unnoticed.
Fits_overlapping(p, b) == \A k \in DOMAIN b.edits : Base[k] = b.edits[k].before

Fits(p, b) ==
  \A k \in DOMAIN b.edits :
    /\ Partition[k] = b.owner /\ k \notin claimed(p)
    /\ Base[k] = b.edits[k].before /\ ~(b.edits[k].before = Absent /\ b.edits[k].after = Absent)

DeltaOf(b) == RingSum([k \in DOMAIN b.edits |-> Delta(k, b.edits[k].before, b.edits[k].after)])

\* apply, where it does not throw: a batch already accepted is a replay and changes nothing.
apply(p, b) ==
  /\ b.base_signature = from_records(Base).owner.signature
  /\ ~\E prior \in taken[p] : prior.batch_id = b.batch_id
  /\ Fits(p, b) /\ DeltaOf(b) = b.delta
  /\ current' = [current EXCEPT ![p] = append(@, b.edits)]
  /\ taken' = [taken EXCEPT ![p] = @ \cup {b}]
  /\ UNCHANGED held

take_snapshot(p) ==
  /\ held' = [held EXCEPT ![p] = [world |-> current[p], table |-> resolved(current[p])]]
  /\ UNCHANGED <<current, taken>>

compact_snapshot(p) ==
  /\ \E w \in compact(held[p].world) : held' = [held EXCEPT ![p].world = w]
  /\ UNCHANGED <<current, taken>>

RoundNext ==
  \E p \in Peers : take_snapshot(p) \/ compact_snapshot(p) \/ \E b \in Batches : apply(p, b)

RoundSpec == RoundInit /\ [][RoundNext]_roundVars

-----------------------------------------------------------------------------
Describes(world, table) ==
  /\ resolved(world) = table
  /\ world.live_size = Cardinality(LiveKeys(table))
  /\ world.owner.signature = from_records(table).owner.signature

\* The base with every accepted edit done once.
Expected(p) ==
  [k \in WorldKeys |->
     IF k \in claimed(p) THEN (CHOOSE b \in taken[p] : k \in DOMAIN b.edits).edits[k].after ELSE Base[k]]

(* However the batches of a round arrive, late, twice or in different orders, a
   peer's world is the base with each accepted batch done exactly once, with the
   live size and signature a fresh table of that content has; so peers that
   accepted the same batches agree.  A snapshot keeps its table, compacted or
   not (apply, append, compact).  *)
RoundsConverge ==
  \A p \in Peers :
    /\ Describes(current[p], Expected(p))
    /\ Describes(held[p].world, held[p].table)
    /\ compact(held[p].world) # {}
=============================================================================
