---------------------------- MODULE Construction ----------------------------
(***************************************************************************)
(* Private constructions of one directory: each takes a lease (a locked    *)
(* file name and a catalog scope), reserves an object, seals its file,     *)
(* records the seal and gives the lease back.  Processes die at any point, *)
(* the machine loses power, and recover() cleans up after them while other *)
(* constructions go on.                                                    *)
(*                                                                         *)
(* A file system has names and contents.  Either survives a loss of power  *)
(* for certain only once it was synced; until then a name may or may not   *)
(* have been written back, and a file may be torn.  Catalog transactions   *)
(* are atomic and durable (module Catalog).                                *)
(***************************************************************************)
EXTENDS Naturals, FiniteSets, Sequences, SequencesExt

CONSTANTS
  Owners,      \* constructions; each has one scope, one attempt and one object
  Shard,       \* [Owners -> <<first shard, leaf shard>>] of the object's path
  Target,      \* the object an owner's index refers to, or None
  Recoverers,  \* processes that call recover
  None,
  MaxLosses    \* how often the power fails (a bound of the model)

ASSUME ConstructionAssumption ==
  /\ None \notin Owners \cup Recoverers /\ Owners \cap Recoverers = {}
  /\ Target \in [Owners -> Owners \cup {None}]
  /\ \A o \in Owners : DOMAIN Shard[o] = {1, 2}
  /\ MaxLosses \in Nat

VARIABLES
  stage,    \* how far each owner has come
  names,    \* the directory entries there are
  unsynced, \* entries made or removed since their directory was last synced
  file,     \* the content of each owner's object file
  synced,   \* the owners whose content was synced
  lock,     \* who holds the flock on each owner's lease
  scope,    \* private_scopes and released_private_scopes
  row,      \* the objects table
  recovery, \* where each call of recover is
  losses    \* power failures so far

files == <<file, synced>>
directory == <<names, unsynced>>
catalog == <<scope, row>>
vars == <<stage, names, unsynced, file, synced, lock, scope, row, recovery, losses>>

-----------------------------------------------------------------------------
\* Directory entries, each with the directories it lies in, outermost first.

Lease(o) == <<"lease", o>>
First(o) == <<"first", Shard[o][1]>>
Leaf(o) == <<"leaf", Shard[o]>>
Private(o) == <<"private", o>>
Final(o) == <<"final", o>>

Root == <<"root">>
Entries == UNION {{Lease(o), First(o), Leaf(o), Private(o), Final(o)} : o \in Owners}

In(e) == CASE e[1] \in {"lease", "first"} -> Root
           [] e[1] = "leaf" -> <<"first", e[2][1]>>
           [] OTHER -> Leaf(e[2])

\* The entries of a set that a path of the set leads to.
Reachable(set) ==
  {e \in set : LET up == In(e) IN up = Root \/ (up \in set /\ (In(up) = Root \/ In(up) \in set))}

Make(e) == /\ names' = names \cup {e}
           /\ unsynced' = IF e \in names THEN unsynced ELSE unsynced \cup {e}
Unlink(e) == /\ names' = names \ {e}
             /\ unsynced' = IF e \in names THEN unsynced \cup {e} ELSE unsynced
SyncDirectory(d) == names' = names /\ unsynced' = {e \in unsynced : In(e) # d}

-----------------------------------------------------------------------------
\* The life of a construction: create, then one sealed object, then release.

Building == <<"reserved", "first", "leaf", "private", "body", "content", "named",
              "leaf synced", "first synced", "names synced", "removed",
              "removal synced", "complete">>
Leased == {"leased", "lease synced", "open", "sealed"} \cup ToSet(Building)
Stages == {"new", "opened", "releasing", "released", "unnamed", "ended"} \cup Leased

Step(o, from, to) == stage[o] = from /\ stage' = [stage EXCEPT ![o] = to]

Idle == [phase |-> "idle", at |-> None, step |-> "choose", todo |-> {}, stale |-> {}]

Init ==
  /\ stage = [o \in Owners |-> "new"]
  /\ names = {} /\ unsynced = {}
  /\ file = [o \in Owners |-> "none"] /\ synced = {}
  /\ lock = [o \in Owners |-> None]
  /\ scope = [o \in Owners |-> "missing"]
  /\ row = [o \in Owners |-> "none"]
  /\ recovery = [r \in Recoverers |-> Idle]
  /\ losses = 0

\* acquire with O_CREAT | O_EXCL under a fresh identity.
OpenLease(o) ==
  /\ Step(o, "new", "opened")
  /\ Make(Lease(o))
  /\ UNCHANGED <<files, lock, catalog, recovery, losses>>

\* flock without waiting, then the link count: a recovery may hold the name it
\* found, or have removed it.  In both cases create throws.
LockLease(o) ==
  /\ \/ Step(o, "opened", "leased") /\ lock[o] = None /\ Lease(o) \in names
        /\ lock' = [lock EXCEPT ![o] = o]
     \/ Step(o, "opened", "ended") /\ (lock[o] # None \/ Lease(o) \notin names)
        /\ UNCHANGED lock
  /\ UNCHANGED <<directory, files, catalog, recovery, losses>>

\* Mutant of SyncLease: the lease is synced, the directory with its name is not.
SyncLease_file(o) ==
  /\ Step(o, "leased", "lease synced")
  /\ UNCHANGED <<directory, files, lock, catalog, recovery, losses>>

SyncLease(o) ==
  /\ Step(o, "leased", "lease synced")
  /\ SyncDirectory(Root)
  /\ UNCHANGED <<files, lock, catalog, recovery, losses>>

BeginScope(o) ==
  /\ Step(o, "lease synced", "open")
  /\ scope' = [scope EXCEPT ![o] = "active"]
  /\ UNCHANGED <<directory, files, lock, row, recovery, losses>>

\* reserve, by a catalog handle opened for this scope.
Reserve(o) ==
  /\ Step(o, "open", "reserved")
  /\ scope[o] = "active"
  /\ row' = [row EXCEPT ![o] = "reserved"]
  /\ UNCHANGED <<directory, files, lock, scope, recovery, losses>>

-----------------------------------------------------------------------------
\* Sealing: object_writer, or an object_stream that ends in the same finish.

\* Each step of Building leads to the next.
Builds(o, to) == \E i \in 2..Len(Building) : Building[i] = to /\ Step(o, Building[i - 1], to)

Written(o, to) == Builds(o, to) /\ UNCHANGED <<lock, catalog, recovery, losses>>

\* open: both shards, whoever made them first, then an exclusive private file.
Open(o) ==
  /\ \/ Written(o, "first") /\ Make(First(o)) /\ UNCHANGED file
     \/ Written(o, "leaf") /\ Make(Leaf(o)) /\ UNCHANGED file
     \/ Written(o, "private") /\ Make(Private(o))
        /\ file' = [file EXCEPT ![o] = "partial"]
  /\ UNCHANGED synced

\* Chunks, prefix and header are all written.
WriteBody(o) ==
  /\ Written(o, "body")
  /\ file' = [file EXCEPT ![o] = "whole"]
  /\ UNCHANGED <<directory, synced>>

SyncContent(o) ==
  /\ Written(o, "content")
  /\ synced' = synced \cup {o}
  /\ UNCHANGED <<directory, file>>

Install(o) ==
  /\ Written(o, "named") /\ Make(Final(o)) /\ UNCHANGED files

\* Mutant of SyncNames: a shard that was already there is taken to be durable.
SyncNames_own(o) ==
  /\ \/ Written(o, "leaf synced") /\ SyncDirectory(Leaf(o))
     \/ Written(o, "first synced") /\ UNCHANGED directory
     \/ Written(o, "names synced") /\ UNCHANGED directory
  /\ UNCHANGED files

\* Leaf, first shard and root, although another creator may have made them.
SyncNames(o) ==
  /\ \/ Written(o, "leaf synced") /\ SyncDirectory(Leaf(o))
     \/ Written(o, "first synced") /\ SyncDirectory(First(o))
     \/ Written(o, "names synced") /\ SyncDirectory(Root)
  /\ UNCHANGED files

RemovePrivate(o) ==
  /\ \/ Written(o, "removed") /\ Unlink(Private(o))
     \/ Written(o, "removal synced") /\ SyncDirectory(Leaf(o))
     \/ Written(o, "complete") /\ UNCHANGED directory
  /\ UNCHANGED files

\* record_sealed, seal_pair: a pair's main target must have been registered;
\* the file's envelope is checked again.  Seal and pair are one transaction.
RecordSeal(o) ==
  /\ Step(o, "complete", "sealed")
  /\ Target[o] # None => row[Target[o]] = "sealed"
  /\ Final(o) \in names /\ file[o] = "whole"
  /\ row[o] = "reserved"
  /\ row' = [row EXCEPT ![o] = "sealed"]
  /\ UNCHANGED <<directory, files, lock, scope, recovery, losses>>

-----------------------------------------------------------------------------
\* The end: the destructor, after success or after any error.

\* The last owner of the lease goes, or a step above throws.
Finish(o) ==
  /\ stage[o] \in Leased
  /\ stage' = [stage EXCEPT ![o] = "releasing"]
  /\ UNCHANGED <<directory, files, lock, catalog, recovery, losses>>

\* release_private_scope, of a scope that was begun.
Release(o) ==
  /\ Step(o, "releasing", "released")
  /\ scope[o] # "missing"
  /\ scope' = [scope EXCEPT ![o] = "released"]
  /\ UNCHANGED <<directory, files, lock, row, recovery, losses>>

RemoveLease(o) ==
  /\ Step(o, "released", "unnamed")
  /\ Unlink(Lease(o))
  /\ UNCHANGED <<files, lock, catalog, recovery, losses>>

Unlock(o) == lock' = [lock EXCEPT ![o] = None]

SyncUnnamed(o) ==
  /\ Step(o, "unnamed", "ended")
  /\ SyncDirectory(Root)
  /\ Unlock(o)
  /\ UNCHANGED <<files, catalog, recovery, losses>>

\* The destructor swallows what its steps throw and closes the lease.
CloseLease(o) ==
  /\ stage[o] \in {"releasing", "released", "unnamed"}
  /\ stage' = [stage EXCEPT ![o] = "ended"]
  /\ Unlock(o)
  /\ UNCHANGED <<directory, files, catalog, recovery, losses>>

\* The process dies: its descriptors are closed and no destructor runs.
Die(o) ==
  /\ stage[o] \notin {"new", "ended"}
  /\ stage' = [stage EXCEPT ![o] = "ended"]
  /\ lock' = IF lock[o] = o THEN [lock EXCEPT ![o] = None] ELSE lock
  /\ UNCHANGED <<directory, files, catalog, recovery, losses>>

-----------------------------------------------------------------------------
\* recover: release the scopes nobody leases, then sweep the lease names.

Active == {o \in Owners : scope[o] = "active"}
Ended == {o \in Owners : stage[o] = "ended"}

Start(r) ==
  /\ recovery[r].phase = "idle"
  /\ recovery' = [recovery EXCEPT ![r] = [Idle EXCEPT !.phase = "scopes", !.todo = Active,
                                                      !.stale = Ended]]
  /\ UNCHANGED <<stage, directory, files, lock, catalog, losses>>

\* The directory is read name by name while others are made and removed.
Sweep(r) ==
  /\ recovery[r].phase = "scopes" /\ recovery[r].todo = {} /\ recovery[r].at = None
  /\ recovery' = [recovery EXCEPT ![r].phase = "names", ![r].todo = Owners]
  /\ UNCHANGED <<stage, directory, files, lock, catalog, losses>>

Return(r) ==
  /\ recovery[r].phase = "names" /\ recovery[r].todo = {} /\ recovery[r].at = None
  /\ recovery' = [recovery EXCEPT ![r] = Idle]
  /\ UNCHANGED <<stage, directory, files, lock, catalog, losses>>

Skip(r) == recovery' = [recovery EXCEPT ![r].at = None, ![r].step = "choose"]

Goes(r, from, to) == recovery[r].step = from /\ recovery' = [recovery EXCEPT ![r].step = to]

\* An absent name was removed by its owner or another recovery, after its
\* release; a scope that is still active without one is an error (Throw).
Find(r, o) ==
  /\ recovery[r].step = "choose" /\ o \in recovery[r].todo
  /\ Lease(o) \notin names => scope[o] # "active" \/ recovery[r].phase = "names"
  /\ recovery' = [recovery EXCEPT ![r].todo = @ \ {o},
                                  ![r].at = IF Lease(o) \in names THEN o ELSE None,
                                  ![r].step = IF Lease(o) \in names THEN "found" ELSE "choose"]
  /\ UNCHANGED <<stage, directory, files, lock, catalog, losses>>

\* The lease was held, or its name was removed after it was opened.
Missed(r) ==
  LET o == recovery[r].at IN
  /\ recovery[r].step = "found"
  /\ \/ lock[o] # None
     \/ Lease(o) \notin names /\ (scope[o] # "active" \/ recovery[r].phase = "names")
  /\ recovery' = [recovery EXCEPT ![r].at = None, ![r].step = "choose",
                                  ![r].stale = IF lock[o] # None THEN @ \ {o} ELSE @]
  /\ UNCHANGED lock

\* acquire without O_CREAT, and the scope's state read again under the lock.
Try(r) ==
  LET o == recovery[r].at IN
  /\ \/ /\ Goes(r, "found", "locked")
        /\ lock[o] = None /\ Lease(o) \in names
        /\ lock' = [lock EXCEPT ![o] = r]
     \/ Missed(r)
  /\ UNCHANGED <<stage, directory, files, catalog, losses>>

\* Mutant of Judge: the sweep is for names whose scope was never begun.
Judge_unregistered(r) ==
  LET o == recovery[r].at IN
  /\ recovery[r].step = "locked"
  /\ \/ scope[o] = "missing" /\ Goes(r, "locked", "unlink") /\ UNCHANGED lock
     \/ scope[o] = "active" /\ recovery[r].phase = "scopes"
        /\ Goes(r, "locked", "release") /\ UNCHANGED lock
     \/ scope[o] = "released" /\ Skip(r) /\ Unlock(o)
     \/ scope[o] = "active" /\ recovery[r].phase = "names" /\ Skip(r) /\ Unlock(o)
  /\ UNCHANGED <<stage, directory, files, catalog, losses>>

Judge(r) ==
  LET o == recovery[r].at IN
  /\ recovery[r].step = "locked"
  /\ \/ scope[o] # "active" /\ Goes(r, "locked", "unlink") /\ UNCHANGED lock
     \/ scope[o] = "active" /\ recovery[r].phase = "scopes"
        /\ Goes(r, "locked", "release") /\ UNCHANGED lock
     \/ scope[o] = "active" /\ recovery[r].phase = "names" /\ Skip(r) /\ Unlock(o)
  /\ UNCHANGED <<stage, directory, files, catalog, losses>>

ReleaseAbandoned(r) ==
  /\ Goes(r, "release", "unlink")
  /\ scope' = [scope EXCEPT ![recovery[r].at] = "released"]
  /\ UNCHANGED <<stage, directory, files, lock, row, losses>>

RemoveAbandoned(r) ==
  /\ Goes(r, "unlink", "sync")
  /\ Unlink(Lease(recovery[r].at))
  /\ UNCHANGED <<stage, files, lock, catalog, losses>>

SyncAbandoned(r) ==
  /\ recovery[r].step = "sync"
  /\ SyncDirectory(Root)
  /\ Skip(r) /\ Unlock(recovery[r].at)
  /\ UNCHANGED <<stage, files, catalog, losses>>

\* An error anywhere ends recover; its destructors close what it holds.
Throw(r) ==
  /\ recovery[r].phase # "idle"
  /\ recovery' = [recovery EXCEPT ![r] = Idle]
  /\ lock' = [o \in Owners |-> IF lock[o] = r THEN None ELSE lock[o]]
  /\ UNCHANGED <<stage, directory, files, catalog, losses>>

-----------------------------------------------------------------------------
\* All processes die, and what was not synced is kept or lost at random.

LosePower ==
  /\ losses < MaxLosses
  /\ losses' = losses + 1
  /\ stage' = [o \in Owners |-> IF stage[o] = "new" THEN "new" ELSE "ended"]
  /\ \E kept \in SUBSET unsynced : names' = Reachable((names \ unsynced) \cup kept)
  /\ unsynced' = {}
  /\ \E torn \in SUBSET (Owners \ synced) :
       file' = [o \in Owners |-> IF o \in torn /\ file[o] # "none" THEN "torn" ELSE file[o]]
  /\ lock' = [o \in Owners |-> None]
  /\ recovery' = [r \in Recoverers |-> Idle]
  /\ UNCHANGED <<synced, catalog>>

Construct(o) ==
  \/ OpenLease(o) \/ LockLease(o) \/ SyncLease(o) \/ BeginScope(o) \/ Reserve(o)
  \/ Open(o) \/ WriteBody(o) \/ SyncContent(o) \/ Install(o) \/ SyncNames(o)
  \/ RemovePrivate(o) \/ RecordSeal(o)
  \/ Finish(o) \/ Release(o) \/ RemoveLease(o) \/ SyncUnnamed(o) \/ CloseLease(o) \/ Die(o)

Recover(r) ==
  \/ Start(r) \/ Sweep(r) \/ Return(r)
  \/ \E o \in Owners : Find(r, o)
  \/ Try(r) \/ Judge(r) \/ ReleaseAbandoned(r) \/ RemoveAbandoned(r) \/ SyncAbandoned(r)
  \/ Throw(r)

Next == (\E o \in Owners : Construct(o)) \/ (\E r \in Recoverers : Recover(r)) \/ LosePower

Spec == Init /\ [][Next]_vars

-----------------------------------------------------------------------------
\* Properties.

(* An object the catalog calls sealed, or whose writer was given a receipt, has
   its final name and its whole content, also after the power has failed, and
   so has every object that its pair refers to.                            *)
ReceiptsAreDurable ==
  \A o \in Owners :
    /\ stage[o] = "complete" \/ row[o] = "sealed" =>
         /\ Final(o) \in Reachable(names) /\ file[o] = "whole"
         /\ Private(o) \notin names
    /\ row[o] = "sealed" /\ Target[o] # None => row[Target[o]] = "sealed"

(* A construction that is under way keeps its lease: its name, its lock, and,
   once begun, its scope, whatever recoveries run beside it.  A scope is never
   active without a name, so no recovery is stopped by a missing lease.     *)
LeasesAreExact ==
  \A o \in Owners :
    /\ stage[o] \in Leased \cup {"releasing"} => Lease(o) \in names /\ lock[o] = o
    /\ stage[o] \in {"open", "sealed"} \cup ToSet(Building) => scope[o] = "active"
    /\ scope[o] = "active" => Lease(o) \in names

(* A recovery that returns has released the scope and removed the name of every
   construction that had ended when it began, at whatever step it ended, but
   for those whose lease it found locked by another recovery.              *)
RecoveryIsComplete ==
  \A r \in Recoverers :
    recovery[r].phase = "names" /\ recovery[r].todo = {} /\ recovery[r].at = None =>
      \A o \in recovery[r].stale : scope[o] # "active" /\ Lease(o) \notin names

(* So recovery takes neither too much nor too little: what lives keeps its lease,
   and what has ended keeps nothing (recover, create, ~private_construction).  *)
RecoveryIsExact == LeasesAreExact /\ RecoveryIsComplete

-----------------------------------------------------------------------------
\* An instance: every object lies in one leaf shard, and one of them is indexed
\* by the others.

Indexed == CHOOSE o \in Owners : TRUE
OneShard == [o \in Owners |-> <<"ab", "cd">>]
OneTarget == [o \in Owners |-> IF o = Indexed THEN None ELSE Indexed]

(* Either a second construction or a second recovery runs beside the first of
   each, and only without the second construction does power fail twice.    *)
Second == CHOOSE r \in Recoverers : TRUE
Scenario ==
  \/ \A o \in Owners \ {Indexed} : stage[o] = "new"
  \/ recovery[Second].phase = "idle" /\ losses <= 1
=============================================================================
