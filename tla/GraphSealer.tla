---------------------------- MODULE GraphSealer ----------------------------
(***************************************************************************)
(* Runtime stores that seal graphs of shared immutable owners into one     *)
(* catalog directory (graph_sealer, catalog_bindings, persist).            *)
(*                                                                         *)
(* A native owner is a run; a pair is an index over its native, with a     *)
(* main target, another pair, and perhaps a secondary native.  Each owner  *)
(* has one binding slot for the directory, whose mutex is held while its   *)
(* object is produced.  A store first claims a batch of ready owners, then *)
(* walks its roots; several stores meet at the owners they share.          *)
(***************************************************************************)
EXTENDS Naturals, FiniteSets, Sequences, SequencesExt

CONSTANTS
  Natives, Pairs,
  NativeOf,    \* [Pairs -> Natives]
  Main,        \* [Pairs -> Pairs \cup {None}], without cycles
  Secondary,   \* [Pairs -> Natives \cup {None}]
  Stores,      \* runtime stores, each used by one thread
  Roots,       \* [Stores -> the owners a snapshot refers to, pairs first]
  None,
  MaxFailures  \* how often a store fails (a bound of the model)

Owners == Natives \cup Pairs

ASSUME GraphAssumption ==
  /\ Natives \cap Pairs = {} /\ None \notin Owners \cup Stores
  /\ NativeOf \in [Pairs -> Natives]
  /\ Main \in [Pairs -> Pairs \cup {None}]
  /\ Secondary \in [Pairs -> Natives \cup {None}]
  /\ Roots \in [Stores -> Seq(Owners)]
  /\ MaxFailures \in Nat
  \* None is no unit and no object.
  /\ None \notin [owner : Owners, native : Natives \cup {None}] \cup [id : Owners \X Nat]
  /\ None \notin [id : Owners \X Nat, native : Owners \X Nat, main : (Owners \X Nat) \cup {None},
                  secondary : (Owners \X Nat) \cup {None}]

VARIABLES
  at,        \* where the call of persist is
  unbound,   \* pairs the planning walk met and found unbound
  units,     \* ready units still to be claimed
  half,      \* a unit whose pair is claimed and whose native is not, or None
  claimed,   \* units with all their claims
  todo,      \* roots the walk has not reached
  stack,     \* calls of ensure_pair and ensure_native, the innermost first
  lock,      \* who holds the mutex of each owner's slot
  value,     \* the slot's binding
  sealed,    \* the objects and pairs the catalog has acknowledged
  used,      \* identities reserved for each owner
  failures

batch == <<unbound, units, half, claimed>>
slots == <<lock, value>>
catalog == <<sealed, used>>
vars == <<at, batch, todo, stack, slots, catalog, failures>>

Init ==
  /\ at = [t \in Stores |-> "new"]
  /\ unbound = [t \in Stores |-> {}]
  /\ units = [t \in Stores |-> {}] /\ half = [t \in Stores |-> None]
  /\ claimed = [t \in Stores |-> {}]
  /\ todo = Roots /\ stack = [t \in Stores |-> <<>>]
  /\ lock = [o \in Owners |-> None] /\ value = [o \in Owners |-> None]
  /\ sealed = {} /\ used = [o \in Owners |-> 0]
  /\ failures = 0

Bound(o) == o = None \/ value[o] # None
Id(o) == IF o = None \/ ~Bound(o) THEN None ELSE value[o].id

-----------------------------------------------------------------------------
\* prepare_ready: which owners can be produced at once.

\* The unbound pairs a walk from p meets before it meets a bound one.
Unbound[p \in Pairs] ==
  IF Bound(p) THEN {} ELSE {p} \cup IF Main[p] = None THEN {} ELSE Unbound[Main[p]]

Visit(t) ==
  /\ at[t] = "new"
  /\ at' = [at EXCEPT ![t] = "plan"]
  /\ unbound' = [unbound EXCEPT ![t] = UNION {Unbound[p] : p \in ToSet(Roots[t]) \cap Pairs}]
  /\ UNCHANGED <<units, half, claimed, todo, stack, slots, catalog, failures>>

\* A pair's native is part of its unit unless it is bound already.
Unit(o) == [owner |-> o, native |-> IF o \in Natives THEN o
                                    ELSE IF Bound(NativeOf[o]) THEN None ELSE NativeOf[o]]

Conflict(p, q) == p # q /\ NativeOf[p] = NativeOf[q] /\ ~Bound(NativeOf[p])

\* Mutant of Ready: dependencies are looked for only while sealing.
Ready_any(p) == TRUE

Ready(p) == Bound(Main[p]) /\ Bound(Secondary[p])

\* A native is in one unit; natives of unbound pairs wait for these.
Batches(t) ==
  LET ready == {p \in unbound[t] : Ready(p)}
      lone == {n \in ToSet(Roots[t]) \cap Natives :
                 ~Bound(n) /\ \A p \in unbound[t] : NativeOf[p] # n}
  IN  {{Unit(o) : o \in chosen \cup lone} : chosen \in
         {s \in SUBSET ready : /\ \A p, q \in s : ~Conflict(p, q)
                               /\ \A p \in ready \ s : \E q \in s : Conflict(p, q)}}

Plan(t) ==
  /\ at[t] = "plan"
  /\ \E set \in Batches(t) :
       IF Cardinality(set) < 2
       THEN at' = [at EXCEPT ![t] = "walk"] /\ UNCHANGED units
       ELSE at' = [at EXCEPT ![t] = "claim"] /\ units' = [units EXCEPT ![t] = set]
  /\ unbound' = [unbound EXCEPT ![t] = {}]
  /\ UNCHANGED <<half, claimed, todo, stack, slots, catalog, failures>>

\* The pair of a unit, without waiting; a bound one needs no unit any more.
TryPair(t) ==
  /\ at[t] = "claim" /\ half[t] = None
  /\ \E u \in units[t] :
       /\ u.owner \in Pairs
       /\ units' = [units EXCEPT ![t] = @ \ {u}]
       /\ IF lock[u.owner] # None \/ value[u.owner] # None
          THEN UNCHANGED <<lock, half, claimed>>
          ELSE /\ lock' = [lock EXCEPT ![u.owner] = t]
               /\ half' = [half EXCEPT ![t] = IF u.native = None THEN None ELSE u]
               /\ claimed' = [claimed EXCEPT ![t] = IF u.native = None THEN @ \cup {u} ELSE @]
  /\ UNCHANGED <<at, unbound, todo, stack, value, catalog, failures>>

\* The unit whose native is claimed next.
Turn(t) == IF half[t] # None THEN {half[t]} ELSE {u \in units[t] : u.owner \in Natives}

\* Its native likewise; if it is not to be had, neither is the pair.
TryNative(t) ==
  /\ at[t] = "claim"
  /\ \E u \in Turn(t) :
       /\ units' = [units EXCEPT ![t] = @ \ {u}]
       /\ half' = [half EXCEPT ![t] = None]
       /\ IF lock[u.native] # None \/ value[u.native] # None
          THEN /\ lock' = [lock EXCEPT ![u.owner] = IF half[t] = u THEN None ELSE @]
               /\ UNCHANGED claimed
          ELSE /\ lock' = [lock EXCEPT ![u.native] = t]
               /\ claimed' = [claimed EXCEPT ![t] = @ \cup {u}]
  /\ UNCHANGED <<at, unbound, todo, stack, value, catalog, failures>>

Without(t) == [o \in Owners |-> IF lock[o] = t THEN None ELSE lock[o]]

\* Mutant of Claimed: a claim too few for a batch is kept during the walk.
Claimed_keeps(t) ==
  /\ at[t] = "claim" /\ units[t] = {} /\ half[t] = None
  /\ at' = [at EXCEPT ![t] = IF Cardinality(claimed[t]) < 2 THEN "walk" ELSE "finish"]
  /\ UNCHANGED <<batch, todo, stack, slots, catalog, failures>>

\* One reservation for the whole batch, or no batch at all.
Claimed(t) ==
  /\ at[t] = "claim" /\ units[t] = {} /\ half[t] = None
  /\ IF Cardinality(claimed[t]) < 2
     THEN /\ at' = [at EXCEPT ![t] = "walk"]
          /\ lock' = Without(t) /\ claimed' = [claimed EXCEPT ![t] = {}]
     ELSE at' = [at EXCEPT ![t] = "finish"] /\ UNCHANGED <<lock, claimed>>
  /\ UNCHANGED <<unbound, units, half, todo, stack, value, catalog, failures>>

-----------------------------------------------------------------------------
\* Calls.

Frame(o, place) == [owner |-> o, at |-> place, made |-> None]
Top(t) == Head(stack[t])
Runs(t, place) == stack[t] # <<>> /\ Top(t).at = place
Calls(t, frames) == stack' = [stack EXCEPT ![t] = frames \o Tail(@)]

\* finish_ready of one claimed unit: what ensure_pair does under its locks.
FinishReady(t) ==
  /\ at[t] = "finish" /\ stack[t] = <<>>
  /\ \E u \in claimed[t] :
       /\ claimed' = [claimed EXCEPT ![t] = @ \ {u}]
       /\ stack' = [stack EXCEPT ![t] =
            <<Frame(u.owner, IF u.owner \in Natives THEN "encode"
                             ELSE IF u.native = None THEN "index" ELSE "fused")>>]
  /\ UNCHANGED <<at, unbound, units, half, todo, slots, catalog, failures>>

EndBatch(t) ==
  /\ at[t] = "finish" /\ stack[t] = <<>> /\ claimed[t] = {}
  /\ at' = [at EXCEPT ![t] = "walk"]
  /\ UNCHANGED <<batch, todo, stack, slots, catalog, failures>>

\* persist: each root in turn, whatever the batch has already bound.
Walk(t) ==
  /\ at[t] = "walk" /\ stack[t] = <<>>
  /\ IF todo[t] = <<>>
     THEN at' = [at EXCEPT ![t] = "done"] /\ UNCHANGED <<todo, stack>>
     ELSE /\ stack' = [stack EXCEPT ![t] = <<Frame(Head(todo[t]), "lock")>>]
          /\ todo' = [todo EXCEPT ![t] = Tail(@)]
          /\ UNCHANGED at
  /\ UNCHANGED <<batch, slots, catalog, failures>>

\* get_or_create waits for the slot, and produces only if it is empty.
Lock(t) ==
  LET o == Top(t).owner IN
  /\ Runs(t, "lock") /\ lock[o] = None
  /\ IF Bound(o)
     THEN Calls(t, <<>>) /\ UNCHANGED lock
     ELSE /\ lock' = [lock EXCEPT ![o] = t]
          /\ Calls(t, <<[Top(t) EXCEPT !.at = IF o \in Natives THEN "encode" ELSE "main"]>>)
  /\ UNCHANGED <<at, batch, todo, value, catalog, failures>>

Resolve(t, place, dependency, next) ==
  /\ Runs(t, place)
  /\ Calls(t, (IF dependency = None THEN <<>> ELSE <<Frame(dependency, "lock")>>)
              \o <<[Top(t) EXCEPT !.at = next]>>)
  /\ UNCHANGED <<at, batch, todo, slots, catalog, failures>>

\* ensure_pair: main target and secondary before the pair's own native, which
\* may be one of theirs.
Dependencies(t) ==
  \/ Resolve(t, "main", Main[Top(t).owner], "secondary")
  \/ Resolve(t, "secondary", Secondary[Top(t).owner], "owner")

LockNative(t) ==
  LET n == NativeOf[Top(t).owner] IN
  /\ Runs(t, "owner") /\ lock[n] = None
  /\ IF Bound(n)
     THEN Calls(t, <<[Top(t) EXCEPT !.at = "index"]>>) /\ UNCHANGED lock
     ELSE Calls(t, <<[Top(t) EXCEPT !.at = "fused"]>>) /\ lock' = [lock EXCEPT ![n] = t]
  /\ UNCHANGED <<at, batch, todo, value, catalog, failures>>

-----------------------------------------------------------------------------
\* Objects: reserved, encoded, sealed and acknowledged under fresh identities.

New(o) == <<o, used[o] + 1>>
NativeObject(n) == [id |-> New(n)]
PairObject(p, native) ==
  [id |-> New(p), native |-> native, main |-> Id(Main[p]), secondary |-> Id(Secondary[p])]

Acknowledge(objects) ==
  /\ sealed' = sealed \cup objects
  /\ used' = [o \in Owners |-> IF \E x \in objects : x.id = New(o) THEN used[o] + 1 ELSE used[o]]
Installs(t, place, object) ==
  /\ Calls(t, <<[Top(t) EXCEPT !.at = place, !.made = object]>>)
  /\ UNCHANGED <<at, batch, todo, slots, failures>>

EncodeNative(t) ==
  LET object == NativeObject(Top(t).owner) IN
  /\ Runs(t, "encode")
  /\ Acknowledge({object}) /\ Installs(t, "install", object)

EncodeIndex(t) ==
  LET p == Top(t).owner
      object == PairObject(p, Id(NativeOf[p]))
  IN  /\ Runs(t, "index")
      /\ Acknowledge({object}) /\ Installs(t, "install", object)

\* Native and index in one transaction.
EncodeFused(t) ==
  LET p == Top(t).owner
      native == NativeObject(NativeOf[p])
      object == PairObject(p, native.id)
  IN  /\ Runs(t, "fused")
      /\ Acknowledge({native, object}) /\ Installs(t, "install native", object)

Bind(o, object) ==
  /\ value' = [value EXCEPT ![o] = object]
  /\ lock' = [lock EXCEPT ![o] = None]
  /\ UNCHANGED <<at, batch, todo, catalog, failures>>

InstallNative(t) ==
  /\ Runs(t, "install native")
  /\ Bind(NativeOf[Top(t).owner], [id |-> Top(t).made.native])
  /\ Calls(t, <<[Top(t) EXCEPT !.at = "install"]>>)

Install(t) ==
  /\ Runs(t, "install")
  /\ Bind(Top(t).owner, Top(t).made)
  /\ Calls(t, <<>>)

-----------------------------------------------------------------------------
\* An exception, from any I/O: claims and guards unlock, and empty slots stay
\* empty.  Another store may then be asked to seal the same roots.

Fail(t) ==
  /\ failures < MaxFailures /\ at[t] \in {"plan", "finish", "walk"}
  /\ failures' = failures + 1
  /\ at' = [at EXCEPT ![t] = "failed"]
  /\ lock' = Without(t)
  /\ unbound' = [unbound EXCEPT ![t] = {}]
  /\ claimed' = [claimed EXCEPT ![t] = {}] /\ stack' = [stack EXCEPT ![t] = <<>>]
  /\ UNCHANGED <<units, half, todo, value, catalog>>

Reopen(t) ==
  /\ at[t] = "failed"
  /\ at' = [at EXCEPT ![t] = "new"] /\ todo' = [todo EXCEPT ![t] = Roots[t]]
  /\ UNCHANGED <<batch, stack, slots, catalog, failures>>

Step(t) ==
  \/ Visit(t) \/ Plan(t) \/ TryPair(t) \/ TryNative(t) \/ Claimed(t) \/ FinishReady(t) \/ EndBatch(t)
  \/ Walk(t) \/ Lock(t) \/ Dependencies(t) \/ LockNative(t)
  \/ EncodeNative(t) \/ EncodeIndex(t) \/ EncodeFused(t) \/ InstallNative(t) \/ Install(t)

Next == \E t \in Stores : Step(t) \/ Fail(t) \/ Reopen(t)

\* Threads run, and a mutex is not withheld from the only thread that waits.
FairSpec == Init /\ [][Next]_vars /\ \A t \in Stores : WF_vars(Step(t))

-----------------------------------------------------------------------------
\* Properties.

(* A binding denotes exactly the graph of its owner, as the catalog has
   acknowledged it: the object its native, main target and secondary are bound
   to, however many stores and failures took part in binding them.  A store
   that returns has bound all its roots (pair_id and native_id would throw). *)
BindingsDenoteTheGraph ==
  /\ \A o \in Owners : value[o] # None => value[o] \in sealed
  /\ \A p \in Pairs : value[p] # None =>
       /\ value[NativeOf[p]] # None /\ value[p].native = Id(NativeOf[p])
       /\ Bound(Main[p]) /\ value[p].main = Id(Main[p])
       /\ Bound(Secondary[p]) /\ value[p].secondary = Id(Secondary[p])
  /\ \A t \in Stores : at[t] = "done" => \A o \in ToSet(Roots[t]) : Bound(o)

(* "Seals new runtime owners once": stores that meet at an owner agree on one
   durable object for it, and each failure wastes at most one per owner.    *)
OneObjectPerOwner == \A o \in Owners : used[o] <= 1 + failures

\* Each owner is sealed once, and as what its graph says.
OwnersAreSealedOnce == BindingsDenoteTheGraph /\ OneObjectPerOwner

(* Every call of persist returns or throws: stores wait for each other's
   producers, in walks and with batches claimed, but never in a cycle.      *)
SealingReturns == \A t \in Stores : at[t] = "new" ~> at[t] \in {"done", "failed"}
=============================================================================
