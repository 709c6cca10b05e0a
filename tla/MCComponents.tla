---------------------------- MODULE MCComponents ----------------------------
(***************************************************************************)
(* Small instances of the components that stand alone.  A behaviour is one *)
(* of the component `subject` names; the others do not move.               *)
(***************************************************************************)
EXTENDS Integers, Sequences, FiniteSets, MergeOutputs, CatalogObjects, PartitionRound, RuntimeRegistry, Transaction

CONSTANTS thread1, reader1

VARIABLES
  subject,
  nodes, transient, nursery_snapshot, denoted,
  binary, job, binaryCredit, failed, batch, admitted,
  frontier, published, credit, charged, recovery, checkpoint_pending, initializing,
  world, contribution, engineFailed, verdict

nurseryVars == <<nodes, transient, nursery_snapshot, denoted>>
runtimeVars == <<binary, job, binaryCredit, failed, batch, admitted>>
redundantVars == <<frontier, published, credit, charged, recovery, checkpoint_pending, initializing>>
typedVars == <<world, contribution, engineFailed, verdict>>

\* Four keys are enough for both rotations below a root, and for their mirrors.
Nursery == INSTANCE NurseryMap
  WITH snapshot <- nursery_snapshot,
       NurseryKeys <- 1..4, NurseryValues <- {0}, Transients <- {thread1}, Snapshots <- {reader1}, MaxNodes <- 12

\* n1b is a second owner of the identity of n1, so p3 disagrees with p1 and p2.
MCRegistryOwners == {"n1", "n2", "n1b", "p1", "p2", "p3"}
MCIdOf == [o \in MCRegistryOwners |-> IF o = "n1b" THEN "n1" ELSE o]
MCChildrenOf ==
  [o \in MCRegistryOwners |-> CASE o = "p1" -> <<"n1">>
                               [] o = "p2" -> <<"n2", "p1", "n1">>
                               [] o = "p3" -> <<"n2", "p1", "n1b">>
                               [] OTHER -> <<>>]
RootsOf(p, n) == [pairs |-> p, natives |-> n]
MCRootLists ==
  {RootsOf(<<>>, <<>>), RootsOf(<<"p1", "p2">>, <<>>), RootsOf(<<"p2", "p1">>, <<>>), RootsOf(<<"p2">>, <<"n1">>),
   RootsOf(<<"p2">>, <<"n1b">>), RootsOf(<<"p1", "p3">>, <<>>), RootsOf(<<"p2", "p2">>, <<"n2">>)}
  \cup {RootsOf(<<p>>, <<>>) : p \in {"p1", "p2", "p3"}} \cup {RootsOf(<<>>, <<n>>) : n \in {"n1", "n2", "n1b"}}

\* Two keys of one partition and one of another, hashes that collide modulo 4.
MCPartition == <<"a", "a", "b">>
MCKeyHash == <<1, 3, 2>>
MCValueHash == <<1, 2>>
MCBase == <<1, -1, 2>>
MCOtherBase == <<-1, 1, 1>>

Binary == INSTANCE ColaRuntime
  WITH published <- binary, credit <- binaryCredit,
       RecordKeys <- 1..2, Batches <- {<<1>>, <<2>>, <<1, 2>>, <<1, 1, 2>>}, Budgets <- {0, 9, 40},
       GroupSize <- 2, BlockSize <- 2, MaxAdmissions <- 5

Redundant == INSTANCE RedundantRuntime
  WITH Levels <- 4, MaxAdmissions <- 6, LocalBound <- 5, HalfRate <- 1, Allowances <- {1, 8}

\* Two keys of a sort of replacements and one whose records compose; two of the
\* hashes make different tables collide modulo 8.
Put(state) == [mult |-> 0, add |-> state]
Typed == INSTANCE TypedWorld
  WITH held <- contribution,
       TypedKeys <- 1..3, SortOf <- <<"w", "w", "c">>, Replacement <- {"w"},
       ArrowsOf <- <<{Put(0), Put(1), Put(2)}, {Put(0), Put(1)}, {[mult |-> 1, add |-> 1], [mult |-> 2, add |-> 0]}>>,
       KeyHashes <- <<1, 3, 5>>, ValueHashes <- <<1, 2>>, SignatureModulus <- 8, MaxRecords <- 3, MaxLayouts <- 3

\* A key of each kind of sort; a snapshot and two transactions are enough for a branch.
MCKindOf == <<"own_arrow", "replacement", "composed">>
MCArrows == [mult : 0..2, add : 0..2]
MCEdits == <<{Put(0), Put(1)}, {Put(0), Put(1)}, {[mult |-> 1, add |-> 1], [mult |-> 2, add |-> 0]}>>
MCApply(state, arrow) == Typed!Applied(state, arrow)
MCCompose(older, newer) == Typed!Composed(older, newer)
MCTxnBases == {<<0, 1, 1>>}

\* A root, an index of it with a secondary leaf, and one whose file miscounts its
\* main's samples; two outputs that may be recorded for one merge.
IndexFile(native, main, secondary, main_samples, secondary_samples) ==
  [native |-> native, main |-> main, secondary |-> secondary, main_samples |-> main_samples,
   secondary_samples |-> secondary_samples]
MCFileOf ==
  [n1 |-> [count |-> 2], n2 |-> [count |-> 1], n3 |-> [count |-> 3], n4 |-> [count |-> 3],
   i1 |-> IndexFile("n1", <<>>, "none", 0, 0), i2 |-> IndexFile("n2", <<"n1", "i1">>, "n3", 1, 2),
   i3 |-> IndexFile("n2", <<"n1", "i1">>, "none", 2, 0)]
MCOutputs == [a1 |-> {"n1", "i1"}, a2 |-> {"n2", "n3", "i2"}, a3 |-> {"n4", "i3"}]
MCInputs == [a1 |-> {}, a2 |-> {<<"n1", "i1">>}, a3 |-> {}]
MCScopeOf == [a1 |-> "", a2 |-> "s1", a3 |-> ""]
MCMergeKeys == {<<"n1", "n2">>}
MCMergedAs == [k \in MCMergeKeys |-> {"n3", "n4"}]

Init ==
  /\ subject \in {"nursery", "publication", "registry", "budget", "round", "binary", "redundant", "typed", "objects", "transactions"}
  /\ Nursery!NurseryInit /\ PublicationInit /\ RegistryInit
  /\ BudgetInit /\ RoundInit /\ Binary!RuntimeInit /\ Redundant!Init
  /\ Typed!TypedInit /\ ObjectsInit /\ TransactionInit

Next ==
  /\ UNCHANGED subject
  /\ IF subject = "nursery" THEN Nursery!NurseryNext ELSE UNCHANGED nurseryVars
  /\ IF subject = "publication" THEN PublicationNext ELSE UNCHANGED publicationVars
  /\ IF subject = "registry" THEN RegistryNext ELSE UNCHANGED registryVars
  /\ IF subject = "budget" THEN BudgetNext ELSE UNCHANGED budgetVars
  /\ IF subject = "round" THEN RoundNext ELSE UNCHANGED roundVars
  /\ IF subject = "binary" THEN Binary!RuntimeNext ELSE UNCHANGED runtimeVars
  /\ IF subject = "redundant" THEN Redundant!Next ELSE UNCHANGED redundantVars
  /\ IF subject = "typed" THEN Typed!TypedNext ELSE UNCHANGED typedVars
  /\ IF subject = "objects" THEN ObjectsNext ELSE UNCHANGED objectVars
  /\ IF subject = "transactions" THEN TransactionNext ELSE UNCHANGED transactionVars

Spec ==
  /\ Init /\ [][Next]_<<subject, nurseryVars, publicationVars, registryVars, budgetVars,
                        roundVars, runtimeVars, redundantVars, typedVars, objectVars, transactionVars>>
  /\ subject = "redundant" => Redundant!Fairness

-----------------------------------------------------------------------------
\* Properties.

(* nursery_map.h: snapshots never change, and maps that share nodes stay apart. *)
MapsStayApart == Nursery!MapsStayApart

(* cola_runtime.h: the published runs are the admissions callers rely on, whatever
   was cascaded, thrown away or reopened, and owe at most one merge.         *)
BinaryRunsAreExact == Binary!RunsDenoteTheAdmissions /\ Binary!OneDebt

(* typed_world.h, typed_scan.h: worlds have the metadata of their contents, scans
   return them, and a contribution is refused exactly if what it read has changed. *)
TypedWorldsAreExact == subject = "typed" => Typed!TypedWorldsAreExact

(* redundant_runtime.h: served by its owner, the executor becomes ready for the
   next record again, whatever was left undone and however often it was restored. *)
AdmissionReturns == subject = "redundant" => Redundant!AdmissionReturns
=============================================================================
