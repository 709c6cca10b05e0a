--------------------------- MODULE CatalogObjects ---------------------------
(***************************************************************************)
(* The tables of sqlite_catalog.h about immutable objects: reservations by  *)
(* attempts, seals, registered pairs, what owners pin, saves, hints of      *)
(* completed native merges, and private construction scopes.  Rows are only *)
(* added, and an object's seal is set once.  A request that validates       *)
(* mapped files does so before it takes SQLite's write lock: what it read   *)
(* is `prepared`, and other connections' requests come between.             *)
(*                                                                         *)
(* Every transaction commits, once: replay, lost outcomes and poisoning are *)
(* module Catalog, named sessions module Timelines, and the order in which  *)
(* files become durable module Construction.                               *)
(***************************************************************************)
EXTENDS Integers, Sequences, FiniteSets

CONSTANTS
  Natives, Indexes,  \* object identities, by the kind of their file
  FileOf,            \* what the file of an object says, once it is written (external)
  Attempts, Outputs, \* attempts, and the objects each of them reserves
  Inputs,            \* and the pairs it was made from
  ScopeOf,           \* the private scope its handle is bound to, or NoScope
  NoScope,
  SaveNames, Readers,
  MergeKeys,         \* <<older, newer>> under one schema and policy
  MergedAs,          \* the objects that were merged from a key (the caller's attestation)
  PageGroup          \* policy.h: group_size

VARIABLES
  files,    \* objects whose file is written and durable (object_writer.h)
  attempts, \* attempts; each owns what it reserved
  objects,  \* objects: the attempt that reserved each, and whether it is sealed
  pairs,    \* pairs: the row of each registered index
  pins,     \* owner_objects: <<kind, owner, object>>
  roots,    \* owner_roots: <<kind, owner, pair>>
  saves,    \* saves
  merges,   \* completed_native_merges: output and owner
  scopes, released, \* private_scopes, released_private_scopes
  prepared, \* what a connection has read for the request it is about to execute
  granted   \* history: <<key, output, reader>> of native merges told to callers
objectVars == <<files, attempts, objects, pairs, pins, roots, saves, merges, scopes, released, prepared, granted>>

Objects == Natives \cup Indexes
Unreserved == [attempt |-> "none", sealed |-> FALSE]
NoPair == <<>>
NoRow == [native |-> "none"]
NoMerge == [output |-> "none"]
Pages(n) == n \div PageGroup + (IF n % PageGroup # 0 THEN 1 ELSE 0)

-----------------------------------------------------------------------------
\* Files: a native has a count, an index names its native and its targets.

NativeOf(i) == FileOf[i].native
MainOf(i) == FileOf[i].main
SecondaryOf(i) == FileOf[i].secondary
SecondaryCount(i) == IF SecondaryOf(i) = "none" THEN 0 ELSE FileOf[SecondaryOf(i)].count

\* Files name objects of the catalog by their identities, as attempts do.
ObjectsAssumption ==
  /\ "none" \notin Natives
  /\ \A i \in Indexes : /\ NativeOf(i) \in Natives /\ SecondaryOf(i) \in Natives \cup {"none"}
                         /\ MainOf(i) \in {NoPair} \cup (Natives \X Indexes)
  /\ \A a \in Attempts : Outputs[a] \subseteq Objects /\ Inputs[a] \subseteq Natives \X Indexes
  /\ MergeKeys \subseteq Natives \X Natives
  /\ \A k \in MergeKeys : MergedAs[k] \subseteq Natives
ASSUME ObjectsAssumption

\* The row of an index, as its file and its native's describe it.
descriptor(i) ==
  [native |-> NativeOf(i), main |-> MainOf(i), secondary |-> SecondaryOf(i), count |-> FileOf[NativeOf(i)].count,
   main_samples |-> FileOf[i].main_samples, secondary_samples |-> FileOf[i].secondary_samples,
   virtual |-> FileOf[NativeOf(i)].count + FileOf[i].main_samples + FileOf[i].secondary_samples]
PairOf(i) == <<NativeOf(i), i>>

\* Targets and counts agree: what bind of a mapped pair checks.
Binds(i) ==
  /\ FileOf[i].secondary_samples = Pages(SecondaryCount(i))
  /\ FileOf[i].main_samples = IF MainOf(i) = NoPair THEN 0 ELSE Pages(descriptor(MainOf(i)[2]).virtual)
  /\ MainOf(i) # NoPair => MainOf(i)[1] = NativeOf(MainOf(i)[2])

\* An index and all its main targets: what every set of indexes closed under them has.
IsClosed(S) == \A k \in S : MainOf(k) # NoPair => MainOf(k)[2] \in S
chain(i) == {j \in Indexes : \A S \in SUBSET Indexes : i \in S /\ IsClosed(S) => j \in S}
Opens(i) ==
  \A j \in chain(i) :
    {j, NativeOf(j)} \cup ({SecondaryOf(j)} \ {"none"}) \subseteq files /\ Binds(j)

-----------------------------------------------------------------------------
\* Checks inside a transaction.

require_sealed(o) == objects[o].sealed /\ o \in files
Registered(pair) == pair[2] \in Indexes /\ pairs[pair[2]] # NoRow /\ pairs[pair[2]].native = pair[1]
require_prepared(pair) == Registered(pair) /\ pairs[pair[2]].virtual <= PageGroup
require_private_scope(s) == s \in scopes \ released
Owners == {<<p[1], p[2]>> : p \in pins \cup roots}

Unprepared == [request |-> "none"]

-----------------------------------------------------------------------------
\* Scopes, attempts and seals.

begin_private_scope(s) ==
  /\ UNCHANGED prepared /\ s \notin scopes /\ scopes' = scopes \cup {s}
  /\ UNCHANGED <<files, attempts, objects, pairs, pins, roots, saves, merges, released, granted>>

release_private_scope(s) ==
  /\ UNCHANGED prepared /\ s \in scopes /\ released' = released \cup {s}
  /\ UNCHANGED <<files, attempts, objects, pairs, pins, roots, saves, merges, scopes, granted>>

reserve(a) ==
  /\ UNCHANGED prepared /\ a \notin attempts
  /\ ScopeOf[a] # NoScope => require_private_scope(ScopeOf[a])
  /\ \A pair \in Inputs[a] : Registered(pair)
  /\ \A o \in Outputs[a] : objects[o] = Unreserved
  /\ attempts' = attempts \cup {a}
  /\ objects' = [o \in Objects |-> IF o \in Outputs[a] THEN [attempt |-> a, sealed |-> FALSE] ELSE objects[o]]
  /\ pins' = pins \cup {<<"attempt", a, o>> : o \in Outputs[a]}
  /\ roots' = roots \cup {<<"attempt", a, pair>> : pair \in Inputs[a]}
  /\ UNCHANGED <<files, pairs, saves, merges, scopes, released, granted>>

\* An object writer completes an attempt's files and their barriers (external).
WriteFiles(a) ==
  /\ a \in attempts /\ files' = files \cup Outputs[a]
  /\ UNCHANGED <<attempts, objects, pairs, pins, roots, saves, merges, scopes, released, prepared, granted>>

Sealing(sealed) ==
  \A o \in sealed : objects[o].attempt # "none" /\ ~objects[o].sealed /\ o \in files
Sealed(sealed) == [o \in Objects |-> IF o \in sealed THEN [objects[o] EXCEPT !.sealed = TRUE] ELSE objects[o]]

record_sealed(o) ==
  /\ UNCHANGED prepared /\ Sealing({o}) /\ objects' = Sealed({o})
  /\ UNCHANGED <<files, attempts, pairs, pins, roots, saves, merges, scopes, released, granted>>

-----------------------------------------------------------------------------
\* Registered pairs.

\* insert_cola_row: a row again, or one whose foreign keys hold.
Agrees(row, i) == pairs[i] \in {NoRow, row}
Inserted(rows) == [i \in Indexes |-> IF i \in DOMAIN rows THEN rows[i] ELSE pairs[i]]

\* register_graphs: roots are opened together, and their nodes inserted from the bottom.
register_graphs(heads) ==
  LET all == UNION {chain(i) : i \in heads} IN
  /\ UNCHANGED prepared
  /\ \A i \in heads : Opens(i)
  /\ \A i \in all : /\ require_sealed(NativeOf(i)) /\ require_sealed(i)
                    /\ SecondaryOf(i) # "none" => require_sealed(SecondaryOf(i))
                    /\ Agrees(descriptor(i), i)
  /\ pairs' = Inserted([i \in all |-> descriptor(i)])
  /\ UNCHANGED <<files, attempts, objects, pins, roots, saves, merges, scopes, released, granted>>

\* Mutant of MainSamples: an index's own count of its main's samples is believed.
MainSamples_claimed(i) == FileOf[i].main_samples

\* The samples its registered main target has.
MainSamples(i) == IF MainOf(i) = NoPair THEN 0 ELSE Pages(pairs[MainOf(i)[2]].virtual)

\* prepare_cola_pair: files, seals and the main target's row, read before the
\* transaction, for a pair whose `sealing` objects are sealed in it.
prepare_cola_pair(i, sealing) ==
  /\ prepared = Unprepared
  /\ {i, NativeOf(i)} \subseteq files
  /\ \A o \in {i, NativeOf(i)} \ sealing : require_sealed(o)
  /\ SecondaryOf(i) # "none" => require_sealed(SecondaryOf(i))
  /\ MainOf(i) # NoPair => Registered(MainOf(i))
  /\ FileOf[i].main_samples = MainSamples(i)
  /\ FileOf[i].secondary_samples = Pages(SecondaryCount(i))
  /\ prepared' = [request |-> "pair", index |-> i, sealing |-> sealing, row |-> descriptor(i)]
  /\ UNCHANGED <<files, attempts, objects, pairs, pins, roots, saves, merges, scopes, released, granted>>

\* register_pair, seal_pair or seal_native_pair: nothing, one or two seals with the row.
FinishPair ==
  LET i == prepared.index IN
  /\ prepared.request = "pair" /\ prepared' = Unprepared
  /\ IF Sealing(prepared.sealing) /\ Agrees(prepared.row, i)
     THEN objects' = Sealed(prepared.sealing) /\ pairs' = Inserted([j \in {i} |-> prepared.row])
     ELSE UNCHANGED <<objects, pairs>>
  /\ UNCHANGED <<files, attempts, pins, roots, saves, merges, scopes, released, granted>>

-----------------------------------------------------------------------------
\* Saves and the hints of completed native merges.

save(name, pair) ==
  /\ UNCHANGED prepared /\ require_prepared(pair) /\ saves[name] = NoPair
  /\ roots' = roots \cup {<<"save", name, pair>>}
  /\ saves' = [saves EXCEPT ![name] = pair]
  /\ UNCHANGED <<files, attempts, objects, pairs, pins, merges, scopes, released, granted>>

acquire_save(name, reader) ==
  /\ UNCHANGED prepared /\ saves[name] # NoPair /\ <<"reader", reader>> \notin Owners
  /\ roots' = roots \cup {<<"reader", reader, saves[name]>>}
  /\ UNCHANGED <<files, attempts, objects, pairs, pins, saves, merges, scopes, released, granted>>

\* The first acknowledgment wins: a later one is told the output recorded before.
record_native_merge(key, output, owner) ==
  /\ UNCHANGED prepared /\ output \in MergedAs[key]
  /\ require_sealed(output) /\ require_sealed(key[1]) /\ require_sealed(key[2])
  /\ IF merges[key] # NoMerge
     THEN UNCHANGED <<merges, pins>> /\ granted' = granted \cup {<<key, merges[key].output, "none">>}
     ELSE /\ <<"reader", owner>> \notin Owners
          /\ pins' = pins \cup {<<"reader", owner, output>>}
          /\ merges' = [merges EXCEPT ![key] = [output |-> output, owner |-> owner]]
          /\ granted' = granted \cup {<<key, output, owner>>}
  /\ UNCHANGED <<files, attempts, objects, pairs, roots, saves, scopes, released>>

\* acquire_native_merge: a miss writes nothing; a hit is looked up again, and pinned.
FindNativeMerge(key, owner) ==
  /\ prepared = Unprepared /\ merges[key] # NoMerge
  /\ prepared' = [request |-> "merge", key |-> key, owner |-> owner]
  /\ UNCHANGED <<files, attempts, objects, pairs, pins, roots, saves, merges, scopes, released, granted>>

acquire_native_merge ==
  LET key == prepared.key
      owner == prepared.owner IN
  /\ prepared.request = "merge" /\ prepared' = Unprepared
  /\ IF <<"reader", owner>> \notin Owners /\ require_sealed(merges[key].output)
     THEN /\ pins' = pins \cup {<<"reader", owner, merges[key].output>>}
          /\ granted' = granted \cup {<<key, merges[key].output, owner>>}
     ELSE UNCHANGED <<pins, granted>>
  /\ UNCHANGED <<files, attempts, objects, pairs, roots, saves, merges, scopes, released>>

-----------------------------------------------------------------------------
ObjectsInit ==
  /\ files = {} /\ attempts = {} /\ pins = {} /\ roots = {} /\ scopes = {} /\ released = {} /\ granted = {}
  /\ objects = [o \in Objects |-> Unreserved]
  /\ pairs = [i \in Indexes |-> NoRow]
  /\ saves = [n \in SaveNames |-> NoPair]
  /\ merges = [k \in MergeKeys |-> NoMerge]
  /\ prepared = Unprepared

ObjectsNext ==
  \/ \E a \in Attempts : reserve(a) \/ WriteFiles(a)
  \/ \E s \in {ScopeOf[a] : a \in Attempts} \ {NoScope} : begin_private_scope(s) \/ release_private_scope(s)
  \/ \E o \in Objects : record_sealed(o)
  \/ \E heads \in {{i, j} : i, j \in Indexes} : register_graphs(heads)
  \/ \E i \in Indexes : \E sealing \in {{}, {i}, {i, NativeOf(i)}} : prepare_cola_pair(i, sealing)
  \/ FinishPair
  \/ \E n \in SaveNames : \E i \in Indexes : save(n, PairOf(i))
  \/ \E n \in SaveNames, r \in Readers : acquire_save(n, r)
  \/ \E k \in MergeKeys, r \in Readers : FindNativeMerge(k, r) \/ \E o \in Natives : record_native_merge(k, o, r)
  \/ acquire_native_merge

ObjectsSpec == ObjectsInit /\ [][ObjectsNext]_objectVars

-----------------------------------------------------------------------------
\* Properties.

\* A registered pair can be walked to its end: every object on the way is sealed and
\* written, and each node has the samples its registered targets have.
PairsAreGrounded ==
  \A i \in {j \in Indexes : pairs[j] # NoRow} :
    /\ pairs[i] = descriptor(i)
    /\ \A o \in {i, NativeOf(i)} \cup ({SecondaryOf(i)} \ {"none"}) : require_sealed(o)
    /\ MainOf(i) # NoPair => Registered(MainOf(i)) /\ pairs[i].main_samples = Pages(pairs[MainOf(i)[2]].virtual)

\* What owners hold is registered, and a save's pair is its owner's.
RootsAreRegistered ==
  /\ \A r \in roots : Registered(r[3])
  /\ \A n \in SaveNames : saves[n] # NoPair => require_prepared(saves[n]) /\ <<"save", n, saves[n]>> \in roots

\* live_owner_objects: what attempts of released scopes reserved is no longer pinned.
live_owner_objects == {p \in pins : p[1] = "attempt" => ScopeOf[p[2]] \notin released}

\* All callers are told the same output of a merge, and each keeps a pin to it
\* that no release takes away.
MergeHintsAgree ==
  \A g \in granted :
    /\ merges[g[1]].output = g[2] /\ require_sealed(g[2]) /\ g[2] \in MergedAs[g[1]]
    /\ g[3] # "none" => <<"reader", g[3], g[2]>> \in live_owner_objects
    /\ \E p \in live_owner_objects : p[1] = "reader" /\ p[3] = g[2]

\* Ways to register a graph never disagree: one that opens and is sealed can be registered.
GraphsCanBeRegistered ==
  \A i \in Indexes : Opens(i) => \A j \in chain(i) : Agrees(descriptor(j), j)

(* sqlite_catalog.h: a registered pair can be walked to its end, what owners hold is
   registered, and every caller is told the same output of a merge.          *)
ObjectsAreGrounded == PairsAreGrounded /\ RootsAreRegistered /\ MergeHintsAgree /\ GraphsCanBeRegistered
=============================================================================
