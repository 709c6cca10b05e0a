---------------------------- MODULE MergeOutputs ----------------------------
(***************************************************************************)
(* What a merge does with its outputs.                                     *)
(*                                                                         *)
(* output_budget: an allowance of bytes that builders on several threads   *)
(* acquire, shrink and hand on to the outputs they finish.                 *)
(*                                                                         *)
(* merge_publication: a resumable merge publishes its output under a new   *)
(* manifest.  A write whose outcome is unknown leaves it uncertain; it goes *)
(* on only with evidence of what recovery found or made durable.           *)
(*                                                                         *)
(* The store below it is external: it verifies what it reports as durable, *)
(* but a manifest whose flush has failed may become the selected root at   *)
(* any time until recovery settles it.                                     *)
(***************************************************************************)
EXTENDS Naturals, FiniteSets, FiniteSetsExt

CONSTANTS
  Generations,    \* numbers that name output generations
  Manifests,      \* manifests besides the one the merge starts from
  Checkpoints,    \* names of checkpoints
  MaxRecords      \* records of the complete output (a bound of the model)

None == "none"
OldManifest == "old manifest"
NoCheckpoint == [id |-> None, generation |-> 0, records |-> 0]
Results == {"durable_verified", "failure"}

ASSUME PublicationAssumption == OldManifest \notin Manifests /\ None \notin Manifests

VARIABLES
  stage, durable_manifest, generation, pending_manifest,
  generations,        \* used so far
  manifests,          \* used so far
  checkpoint,         \* the last that was completed, or NoCheckpoint
  old_pins_retained,
  root,               \* the manifest the store selects
  afloat,             \* manifests that may still become the root by themselves
  whole,              \* generations whose output is durable
  content             \* the generation each manifest was prepared over

protocol == <<stage, durable_manifest, generation, pending_manifest, generations, manifests,
              checkpoint, old_pins_retained>>
store == <<root, afloat, whole, content>>
publicationVars == <<protocol, store>>

PublicationInit ==
  /\ stage = "building" /\ durable_manifest = OldManifest /\ generation = 0
  /\ pending_manifest = None /\ generations = {0} /\ manifests = {} /\ checkpoint = NoCheckpoint
  /\ old_pins_retained = TRUE
  /\ root = OldManifest /\ afloat = {} /\ whole = {}
  /\ content = [m \in Manifests |-> None]

Advances(candidate) ==
  /\ candidate.generation = generation
  /\ candidate.id # checkpoint.id
  /\ candidate.records >= checkpoint.records

complete_checkpoint(candidate, result) ==
  /\ stage = "building" /\ Advances(candidate)
  /\ IF result = "failure"
     THEN stage' = "uncertain" /\ UNCHANGED checkpoint
     ELSE checkpoint' = candidate /\ UNCHANGED stage
  /\ UNCHANGED <<durable_manifest, generation, pending_manifest, generations, manifests,
                 old_pins_retained, root, afloat, whole, content>>

complete_output(result) ==
  /\ stage = "building"
  /\ IF result = "failure"
     THEN stage' = "uncertain" /\ UNCHANGED whole
     ELSE stage' = "output_durable" /\ whole' = whole \cup {generation}
  /\ UNCHANGED <<durable_manifest, generation, pending_manifest, generations, manifests, checkpoint,
                 old_pins_retained, root, afloat, content>>

prepare_manifest(m) ==
  /\ stage = "output_durable" /\ m \notin manifests
  /\ stage' = "manifest_pending" /\ pending_manifest' = m /\ manifests' = manifests \cup {m}
  /\ content' = [content EXCEPT ![m] = generation]
  /\ afloat' = afloat \cup {m}
  /\ UNCHANGED <<durable_manifest, generation, generations, checkpoint, old_pins_retained,
                 root, whole>>

complete_manifest(result) ==
  /\ stage = "manifest_pending"
  /\ IF result = "failure"
     THEN stage' = "uncertain" /\ UNCHANGED <<durable_manifest, root, afloat>>
     ELSE /\ stage' = "published" /\ durable_manifest' = pending_manifest
          /\ root' = pending_manifest /\ afloat' = afloat \ {pending_manifest}
  /\ UNCHANGED <<generation, pending_manifest, generations, manifests, checkpoint,
                 old_pins_retained, whole, content>>

report_io_failure ==
  /\ stage # "published"
  /\ stage' = "uncertain"
  /\ UNCHANGED <<durable_manifest, generation, pending_manifest, generations, manifests,
                 checkpoint, old_pins_retained, store>>

\* External: a write of unknown outcome takes effect.
surface(m) ==
  /\ m \in afloat
  /\ root' = m /\ afloat' = afloat \ {m}
  /\ UNCHANGED <<protocol, whole, content>>

\* External: recovery durably selects the last published root and reconciles the candidates.
select_old_root ==
  /\ stage = "uncertain"
  /\ root' = durable_manifest /\ afloat' = {}
  /\ UNCHANGED <<protocol, whole, content>>

OldRootSelected == root = durable_manifest /\ afloat = {}

\* Mutant of Reconciled: a manifest in doubt is ignored.
Reconciled_ignored(selector) == TRUE

Reconciled(selector) == pending_manifest # None => selector = "old_root_selected"

\* The caller's evidence and selector are truthful.
resume(fresh, retained, selector) ==
  /\ stage = "uncertain"
  /\ selector = "old_root_selected" => OldRootSelected
  /\ Reconciled(selector)
  /\ fresh \notin generations
  /\ retained # NoCheckpoint => retained = checkpoint
  /\ stage' = "building" /\ generation' = fresh /\ generations' = generations \cup {fresh}
  /\ checkpoint' = retained /\ pending_manifest' = None
  /\ UNCHANGED <<durable_manifest, manifests, old_pins_retained, store>>

accept_recovered_publication ==
  /\ stage = "uncertain" /\ pending_manifest # None
  /\ root = pending_manifest /\ afloat = {} /\ content[pending_manifest] \in whole
  /\ durable_manifest' = pending_manifest /\ stage' = "published"
  /\ UNCHANGED <<generation, pending_manifest, generations, manifests, checkpoint,
                 old_pins_retained, store>>

release_old_pins ==
  /\ stage = "published"
  /\ old_pins_retained' = FALSE
  /\ UNCHANGED <<stage, durable_manifest, generation, pending_manifest, generations, manifests,
                 checkpoint, store>>

PublicationNext ==
  \/ \E id \in Checkpoints, g \in Generations, n \in 0..MaxRecords, r \in Results :
       complete_checkpoint([id |-> id, generation |-> g, records |-> n], r)
  \/ \E r \in Results : complete_output(r) \/ complete_manifest(r)
  \/ \E m \in Manifests : prepare_manifest(m) \/ surface(m)
  \/ report_io_failure \/ select_old_root \/ accept_recovered_publication \/ release_old_pins
  \/ \E g \in Generations, c \in {checkpoint, NoCheckpoint},
        s \in {"unresolved", "old_root_selected"} : resume(g, c, s)

-----------------------------------------------------------------------------
\* The store, opened now, finds everything its root needs.
RootIsComplete ==
  IF root = OldManifest THEN old_pins_retained ELSE content[root] \in whole

(* Whatever writes fail or take effect late, the root the store selects has all
   it refers to (the old inputs are let go only after the new root is durable
   with its output), and away from an attempt in doubt it is the manifest the
   protocol believes published (resume, accept_recovered_publication).  *)
RootSurvivesDoubt ==
  /\ RootIsComplete
  /\ stage \notin {"manifest_pending", "uncertain"} => root = durable_manifest /\ afloat = {}

PublicationSpec == PublicationInit /\ [][PublicationNext]_publicationVars

-----------------------------------------------------------------------------
\* output_budget.

CONSTANTS Threads, Limit

ASSUME BudgetAssumption == IsFiniteSet(Threads) /\ Limit \in Nat

Sizes == 0..(Limit + 1)
NoCall == [at |-> "idle", seen |-> 0, bytes |-> 0]

VARIABLES
  used,     \* state::used
  call,     \* each thread's try_acquire: what it has loaded and wants
  lease,    \* each thread's own lease: its bytes, and whether it has a state
  retained  \* the bytes of the lease each thread's last output holds
budgetVars == <<used, call, lease, retained>>

NoLease == [bytes |-> 0, state |-> FALSE]
BudgetInit ==
  /\ used = 0 /\ call = [t \in Threads |-> NoCall]
  /\ lease = [t \in Threads |-> NoLease] /\ retained = [t \in Threads |-> 0]

\* try_acquire, by a thread without a lease.
load(t, bytes) ==
  /\ call[t].at = "idle" /\ ~lease[t].state
  /\ call' = [call EXCEPT ![t] = [at |-> "loaded", seen |-> used, bytes |-> bytes]]
  /\ UNCHANGED <<used, lease, retained>>

\* A weak exchange may also fail without cause.
exchange_fails(t) ==
  /\ call[t].at = "loaded" /\ call[t].bytes <= Limit - call[t].seen
  /\ call' = [call EXCEPT ![t].seen = used]
  /\ UNCHANGED <<used, lease, retained>>

refuse(t) ==
  /\ call[t].at = "loaded" /\ call[t].bytes > Limit - call[t].seen
  /\ call' = [call EXCEPT ![t] = NoCall]
  /\ UNCHANGED <<used, lease, retained>>

\* Mutant of Unchanged: used is stored, not exchanged.
Unchanged_assumed(t) == TRUE

Unchanged(t) == call[t].seen = used

exchange(t) ==
  /\ call[t].at = "loaded" /\ call[t].bytes <= Limit - call[t].seen
  /\ Unchanged(t)
  /\ used' = call[t].seen + call[t].bytes
  /\ lease' = [lease EXCEPT ![t] = [bytes |-> call[t].bytes, state |-> TRUE]]
  /\ call' = [call EXCEPT ![t] = NoCall]
  /\ UNCHANGED retained

shrink(t, bytes) ==
  /\ call[t].at = "idle" /\ bytes <= lease[t].bytes
  /\ used' = IF lease[t].state THEN used - (lease[t].bytes - bytes) ELSE used
  /\ lease' = [lease EXCEPT ![t].bytes = bytes]
  /\ UNCHANGED <<call, retained>>

reset(t) ==
  /\ call[t].at = "idle"
  /\ used' = IF lease[t].state THEN used - lease[t].bytes ELSE used
  /\ lease' = [lease EXCEPT ![t] = NoLease]
  /\ UNCHANGED <<call, retained>>

\* The output takes the lease over; the output the thread held before is dropped.
attach(t) ==
  /\ call[t].at = "idle"
  /\ lease' = [lease EXCEPT ![t] = NoLease]
  /\ retained' = [retained EXCEPT ![t] = lease[t].bytes]
  /\ used' = used - retained[t]
  /\ UNCHANGED call

\* The last reference to an output goes, on any thread.
drop(t) ==
  /\ used' = used - retained[t]
  /\ retained' = [retained EXCEPT ![t] = 0]
  /\ UNCHANGED <<call, lease>>

BudgetNext ==
  \E t \in Threads :
    \/ \E bytes \in Sizes : load(t, bytes) \/ shrink(t, bytes)
    \/ exchange(t) \/ exchange_fails(t) \/ refuse(t) \/ reset(t) \/ attach(t) \/ drop(t)

BudgetSpec == BudgetInit /\ [][BudgetNext]_budgetVars

-----------------------------------------------------------------------------
(* However acquisitions race, the allowance charged is what leases and finished
   outputs hold between them, and never more than the limit (try_acquire's
   exchange loop, reset, shrink, attach).  *)
ChargesAreExact ==
  /\ used = MapThenSumSet(LAMBDA t : lease[t].bytes + retained[t], Threads)
  /\ used <= Limit
=============================================================================
