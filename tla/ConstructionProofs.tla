------------------------- MODULE ConstructionProofs -------------------------
(***************************************************************************)
(* The durability of receipts and the exactness of recovery, for any       *)
(* number of constructions, recoveries, shards and power failures.         *)
(***************************************************************************)
EXTENDS Construction, TLAPS

-----------------------------------------------------------------------------
(***************************************************************************)
(* The inductive invariant.                                                *)
(***************************************************************************)

\* The stages of a construction from each step on, to the end of its object.
Withdrawn == {"removal synced", "complete"}
RootSynced == {"names synced", "removed"} \cup Withdrawn
FirstSynced == {"first synced"} \cup RootSynced
LeafSynced == {"leaf synced"} \cup FirstSynced
Named == {"named"} \cup LeafSynced
ContentSynced == {"content"} \cup Named
BodyWritten == {"body"} \cup ContentSynced
LeafMade == {"leaf", "private"} \cup BodyWritten
FirstMade == {"first"} \cup LeafMade

Steps == {"choose", "found", "locked", "release", "unlink", "sync"}
Call == [phase : {"idle", "scopes", "names"}, at : Owners \cup {None}, step : Steps,
         todo : SUBSET Owners, stale : SUBSET Owners]

TypeOK ==
  /\ stage \in [Owners -> Stages]
  /\ file \in [Owners -> {"none", "partial", "whole", "torn"}]
  /\ lock \in [Owners -> Owners \cup Recoverers \cup {None}]
  /\ scope \in [Owners -> {"missing", "active", "released"}]
  /\ row \in [Owners -> {"none", "reserved", "sealed"}]
  /\ recovery \in [Recoverers -> Call]

\* No loss of power takes this entry from its directory.
Anchored(e) == e \in names /\ e \notin unsynced
Gone(e) == e \notin names /\ e \notin unsynced

\* What a receipt promises, with all that keeps it true through a loss of power.
Receipt(o) ==
  /\ Anchored(First(o)) /\ Anchored(Leaf(o)) /\ Anchored(Final(o)) /\ Gone(Private(o))
  /\ file[o] = "whole" /\ o \in synced

\* What a seal has reached at a stage, as far as a later stage relies on it.
Reached(o, at) ==
  /\ at \in FirstMade => First(o) \in names
  /\ at \in LeafMade => Leaf(o) \in names
  /\ at \in BodyWritten => file[o] = "whole"
  /\ at \in ContentSynced => o \in synced
  /\ at \in Named => Final(o) \in names
  /\ at \in LeafSynced => Anchored(Final(o))
  /\ at \in FirstSynced => Anchored(Leaf(o))
  /\ at \in RootSynced => Anchored(First(o))
  /\ at \in {"removed"} \cup Withdrawn => Private(o) \notin names
  /\ at \in Withdrawn => Gone(Private(o))

\* No seal is recorded before it is complete, and none before its target's.
SealIsSound(o) ==
  /\ Reached(o, stage[o])
  /\ row[o] = "sealed" =>
       /\ stage[o] \in {"sealed", "releasing", "released", "unnamed", "ended"}
       /\ Receipt(o)
       /\ Target[o] # None => row[Target[o]] = "sealed"

\* Who holds a lease, and when its name can no longer be lost.
LeaseIsSound(o) ==
  /\ stage[o] = "new" => Gone(Lease(o))
  /\ stage[o] \in Leased \cup {"releasing", "released"} => Lease(o) \in names
  /\ stage[o] \in Leased \cup {"releasing", "released", "unnamed"} => lock[o] = o
  /\ stage[o] \in {"new", "opened", "leased", "lease synced"} => scope[o] = "missing"
  /\ stage[o] \in {"open", "sealed"} \cup ToSet(Building) => scope[o] = "active"
  /\ stage[o] \in {"released", "unnamed"} => scope[o] = "released"
  /\ stage[o] = "lease synced" \/ scope[o] = "active" => Anchored(Lease(o))

\* A recovery works on one lease at a time, which it holds once it has judged it.
RecoveryIsSound(r) ==
  LET v == recovery[r] IN
  /\ v.phase = "idle" => v = Idle
  /\ v.at = None <=> v.step = "choose"
  /\ v.at # None => stage[v.at] # "new"
  /\ v.step \in {"locked", "release", "unlink", "sync"} => lock[v.at] = r
  /\ v.step = "release" => scope[v.at] = "active"
  /\ v.step \in {"unlink", "sync"} => scope[v.at] # "active"
  /\ v.step = "sync" => Lease(v.at) \notin names

\* What had ended when the recovery began is cleaned up, or still to be.
StaleIsSound(r) ==
  LET v == recovery[r] IN
  \A o \in v.stale :
    /\ stage[o] = "ended"
    /\ v.phase = "scopes" => scope[o] # "active" \/ o \in v.todo \/ o = v.at
    /\ v.phase = "names" => /\ scope[o] # "active"
                            /\ Lease(o) \notin names \/ o \in v.todo \/ o = v.at

IInv ==
  /\ TypeOK
  /\ \A o \in Owners : SealIsSound(o) /\ LeaseIsSound(o)
  /\ \A r \in Recoverers : RecoveryIsSound(r) /\ StaleIsSound(r)

-----------------------------------------------------------------------------
(***************************************************************************)
(* Stages and entries.                                                     *)
(***************************************************************************)

\* The steps of a seal, each from the one before it.
LEMMA SealOrder ==
  ASSUME TypeOK, NEW o \in Owners, NEW to, Builds(o, to)
  PROVE  /\ stage'[o] = to /\ to \in FirstMade /\ stage[o] \in {"reserved"} \cup FirstMade
         /\ to = "first" => stage[o] = "reserved"
         /\ to = "leaf" => stage[o] = "first"
         /\ to = "private" => stage[o] = "leaf"
         /\ to = "body" => stage[o] = "private"
         /\ to = "content" => stage[o] = "body"
         /\ to = "named" => stage[o] = "content"
         /\ to = "leaf synced" => stage[o] = "named"
         /\ to = "first synced" => stage[o] = "leaf synced"
         /\ to = "names synced" => stage[o] = "first synced"
         /\ to = "removed" => stage[o] = "names synced"
         /\ to = "removal synced" => stage[o] = "removed"
         /\ to = "complete" => stage[o] = "removal synced"
<1>1. Len(Building) = 13
  BY DEF Building
<1>2. PICK i \in 2..13 : Building[i] = to /\ Step(o, Building[i - 1], to)
  BY <1>1 DEF Builds
<1>3. \/ (i = 2 /\ i - 1 = 1) \/ (i = 3 /\ i - 1 = 2)
      \/ (i = 4 /\ i - 1 = 3) \/ (i = 5 /\ i - 1 = 4)
      \/ (i = 6 /\ i - 1 = 5) \/ (i = 7 /\ i - 1 = 6)
      \/ (i = 8 /\ i - 1 = 7) \/ (i = 9 /\ i - 1 = 8)
      \/ (i = 10 /\ i - 1 = 9) \/ (i = 11 /\ i - 1 = 10)
      \/ (i = 12 /\ i - 1 = 11) \/ (i = 13 /\ i - 1 = 12)
  OBVIOUS
<1>4. /\ Building[1] = "reserved" /\ Building[2] = "first" /\ Building[3] = "leaf"
      /\ Building[4] = "private" /\ Building[5] = "body" /\ Building[6] = "content"
      /\ Building[7] = "named" /\ Building[8] = "leaf synced" /\ Building[9] = "first synced"
      /\ Building[10] = "names synced" /\ Building[11] = "removed"
      /\ Building[12] = "removal synced" /\ Building[13] = "complete"
  BY DEF Building
<1>5. stage[o] = Building[i - 1] /\ stage' = [stage EXCEPT ![o] = to]
  BY <1>2 DEF Step
<1>6. stage'[o] = to
  BY <1>5 DEF TypeOK
<1>7. /\ to \in FirstMade /\ stage[o] \in {"reserved"} \cup FirstMade
  BY ZenonT(40), <1>2, <1>3, <1>4, <1>5 DEF FirstMade, LeafMade, BodyWritten, ContentSynced, Named, LeafSynced,
                                FirstSynced, RootSynced, Withdrawn
<1>8. QED
  BY ZenonT(40), <1>2, <1>3, <1>4, <1>5, <1>6, <1>7

\* The places of a seal as a set.
LEMMA BuildingStages ==
  ToSet(Building) = {"reserved"} \cup FirstMade
<1>1. DOMAIN Building = 1..13
  BY DEF Building
<1>2. \A i \in 1..13 : \/ i = 1 \/ i = 2 \/ i = 3 \/ i = 4 \/ i = 5 \/ i = 6 \/ i = 7
                       \/ i = 8 \/ i = 9 \/ i = 10 \/ i = 11 \/ i = 12 \/ i = 13
  OBVIOUS
<1>3. ToSet(Building) = {Building[1], Building[2], Building[3], Building[4], Building[5],
        Building[6], Building[7], Building[8], Building[9], Building[10], Building[11],
        Building[12], Building[13]}
  BY <1>1, <1>2 DEF ToSet
<1>4. QED
  BY <1>3 DEF Building, FirstMade, LeafMade, BodyWritten, ContentSynced, Named, LeafSynced,
              FirstSynced, RootSynced, Withdrawn

\* Where the entries of a construction lie, and that no two of them are one.
LEMMA EntryFacts ==
  ASSUME NEW o \in Owners, NEW q \in Owners
  PROVE  /\ In(Lease(o)) = Root /\ In(First(o)) = Root /\ In(Leaf(o)) = First(o)
         /\ In(Final(o)) = Leaf(o) /\ In(Private(o)) = Leaf(o)
         /\ Lease(o) = Lease(q) => o = q
         /\ Private(o) = Private(q) => o = q
         /\ Lease(o) \notin {First(q), Leaf(q), Private(q), Final(q)}
         /\ Private(o) \notin {First(q), Leaf(q), Lease(q), Final(q)}
         /\ Root # First(o) /\ Root # Leaf(o)
<1>1. ASSUME NEW e
      PROVE  /\ e[1] \in {"lease", "first"} => In(e) = Root
             /\ e[1] = "leaf" => In(e) = <<"first", e[2][1]>>
             /\ e[1] \notin {"lease", "first", "leaf"} => In(e) = Leaf(e[2])
  BY Zenon DEF In
<1>2. /\ Lease(o)[1] = "lease" /\ First(o)[1] = "first" /\ Leaf(o)[1] = "leaf"
      /\ Final(o)[1] = "final" /\ Private(o)[1] = "private"
      /\ Leaf(o)[2][1] = Shard[o][1] /\ Final(o)[2] = o /\ Private(o)[2] = o
  BY DEF Lease, First, Leaf, Private, Final
<1>3. QED
  <2>1. /\ In(Lease(o)) = Root /\ In(First(o)) = Root /\ In(Leaf(o)) = First(o)
        /\ In(Final(o)) = Leaf(o) /\ In(Private(o)) = Leaf(o)
    BY <1>1, <1>2 DEF First
  <2>2. /\ Lease(o) = Lease(q) => o = q
        /\ Private(o) = Private(q) => o = q
        /\ Lease(o) \notin {First(q), Leaf(q), Private(q), Final(q)}
        /\ Private(o) \notin {First(q), Leaf(q), Lease(q), Final(q)}
    BY DEF Lease, First, Leaf, Private, Final
  <2>3. Root # First(o) /\ Root # Leaf(o)
    BY DEF First, Leaf, Root
  <2>4. QED
    BY <2>1, <2>2, <2>3

-----------------------------------------------------------------------------
(***************************************************************************)
(* What a step does to an entry.                                           *)
(***************************************************************************)

\* An entry that is there stays, and stays safe if it was.
Holds(e) == (e \in names => e \in names') /\ (Anchored(e) => Anchored(e)')

\* An entry that is not there is not made.
Absent(e) == (e \notin names => e \notin names') /\ (Gone(e) => Gone(e)')

\* Making an entry takes none away; another one does not appear.
LEMMA MakeEffect ==
  ASSUME NEW d, Make(d)
  PROVE  /\ d \in names'
         /\ \A e : Holds(e) /\ (e # d => Absent(e))
  BY DEF Make, Holds, Absent, Anchored, Gone

\* Removing an entry leaves the others.
LEMMA UnlinkEffect ==
  ASSUME NEW d, Unlink(d)
  PROVE  /\ d \notin names'
         /\ \A e : Absent(e) /\ (e # d => Holds(e))
  BY DEF Unlink, Holds, Absent, Anchored, Gone

\* Syncing a directory settles what lies in it.
LEMMA SyncEffect ==
  ASSUME NEW d, SyncDirectory(d)
  PROVE  /\ \A e : Holds(e) /\ Absent(e)
         /\ \A e : In(e) = d => (e \in names => Anchored(e)') /\ (e \notin names => Gone(e)')
  BY DEF SyncDirectory, Holds, Absent, Anchored, Gone

\* So does leaving directories alone.
LEMMA NoEffect ==
  ASSUME UNCHANGED directory
  PROVE  \A e : Holds(e) /\ Absent(e)
  BY DEF directory, Holds, Absent, Anchored, Gone

-----------------------------------------------------------------------------
(***************************************************************************)
(* What a step of one construction leaves to the others.                   *)
(***************************************************************************)

\* It makes its own entries and shards, and removes only its lease and private file.
DirectoryStep(q) ==
  \/ \E d \in {Lease(q), First(q), Leaf(q), Private(q), Final(q)} : Make(d)
  \/ \E d \in {Lease(q), Private(q)} : Unlink(d)
  \/ \E d \in {Root, First(q), Leaf(q)} : SyncDirectory(d)
  \/ UNCHANGED directory

\* It changes nothing that is another's.
OthersKeep(q) ==
  \A o \in Owners \ {q} :
    /\ stage'[o] = stage[o] /\ file'[o] = file[o] /\ scope'[o] = scope[o]
    /\ row'[o] = row[o] /\ lock'[o] = lock[o]

\* Which is so for each of its steps.
LEMMA ConstructEffect ==
  ASSUME TypeOK, NEW q \in Owners, Construct(q)
  PROVE  DirectoryStep(q) /\ OthersKeep(q) /\ synced \subseteq synced' /\ UNCHANGED <<recovery, losses>>
<1> USE DEF TypeOK, DirectoryStep, OthersKeep, Step, files, catalog, Unlock
<1>1. CASE OpenLease(q)
  BY <1>1 DEF OpenLease
<1>2. CASE LockLease(q)
  BY <1>2 DEF LockLease
<1>3. CASE SyncLease(q)
  BY <1>3 DEF SyncLease
<1>4. CASE BeginScope(q)
  BY <1>4 DEF BeginScope
<1>5. CASE Reserve(q)
  BY <1>5 DEF Reserve
<1>6. ASSUME NEW to, Written(q, to)
      PROVE  /\ \A o \in Owners \ {q} : stage'[o] = stage[o]
             /\ UNCHANGED <<lock, scope, row, recovery, losses>>
  BY <1>6 DEF Written, Builds
<1>7. CASE Open(q)
  BY <1>6, <1>7 DEF Open
<1>8. CASE WriteBody(q)
  BY <1>6, <1>8 DEF WriteBody
<1>9. CASE SyncContent(q)
  BY <1>6, <1>9 DEF SyncContent
<1>10. CASE Install(q)
  BY <1>6, <1>10 DEF Install
<1>11. CASE SyncNames(q)
  BY <1>6, <1>11 DEF SyncNames
<1>12. CASE RemovePrivate(q)
  BY <1>6, <1>12 DEF RemovePrivate
<1>13. CASE RecordSeal(q)
  BY <1>13 DEF RecordSeal
<1>14. CASE Finish(q)
  BY <1>14 DEF Finish
<1>15. CASE Release(q)
  BY <1>15 DEF Release
<1>16. CASE RemoveLease(q)
  BY <1>16 DEF RemoveLease
<1>17. CASE SyncUnnamed(q)
  BY <1>17 DEF SyncUnnamed
<1>18. CASE CloseLease(q)
  BY <1>18 DEF CloseLease
<1>19. CASE Die(q)
  BY <1>19 DEF Die
<1>20. QED
  BY <1>1, <1>2, <1>3, <1>4, <1>5, <1>7, <1>8, <1>9, <1>10, <1>11, <1>12, <1>13, <1>14,
     <1>15, <1>16, <1>17, <1>18, <1>19 DEF Construct

\* So the others' entries, shards included, stay, and none of theirs appears.
LEMMA OthersEntries ==
  ASSUME NEW q \in Owners, DirectoryStep(q), NEW o \in Owners, o # q
  PROVE  /\ Holds(First(o)) /\ Holds(Leaf(o)) /\ Holds(Final(o)) /\ Holds(Lease(o))
         /\ Absent(Private(o)) /\ Absent(Lease(o))
<1>1. /\ {Lease(o), Private(o)} \cap {Lease(q), First(q), Leaf(q), Private(q), Final(q)} = {}
      /\ {First(o), Leaf(o), Final(o)} \cap {Lease(q), Private(q)} = {}
  BY EntryFacts
<1>2. CASE \E d \in {Lease(q), First(q), Leaf(q), Private(q), Final(q)} : Make(d)
  BY <1>1, <1>2, MakeEffect
<1>3. CASE \E d \in {Lease(q), Private(q)} : Unlink(d)
  BY <1>1, <1>3, UnlinkEffect
<1>4. CASE \E d \in {Root, First(q), Leaf(q)} : SyncDirectory(d)
  BY <1>4, SyncEffect
<1>5. CASE UNCHANGED directory
  BY <1>5, NoEffect
<1>6. QED
  BY <1>2, <1>3, <1>4, <1>5 DEF DirectoryStep

-----------------------------------------------------------------------------
(***************************************************************************)
(* Sealing.                                                                *)
(***************************************************************************)

\* After it, no seal is under way, and one that was recorded stays.
Later == {"sealed", "releasing", "released", "unnamed", "ended"}

\* What has been reached is not lost while its entries and its file stay.
LEMMA ReachedStays ==
  ASSUME NEW o \in Owners, NEW at, Reached(o, at),
         Holds(First(o)), Holds(Leaf(o)), Holds(Final(o)), Absent(Private(o)),
         file'[o] = file[o], synced \subseteq synced'
  PROVE  Reached(o, at)'
  BY DEF Reached, Holds, Absent

\* A step that leaves the object's file and entries alone, or ends its making.
LEMMA SealKept ==
  ASSUME NEW o \in Owners, SealIsSound(o),
         Holds(First(o)), Holds(Leaf(o)), Holds(Final(o)), Absent(Private(o)),
         file'[o] = file[o], synced \subseteq synced', row'[o] = row[o],
         \A x \in Owners : row[x] = "sealed" => row'[x] = "sealed",
         Target \in [Owners -> Owners \cup {None}],
         \/ stage'[o] = stage[o]
         \/ stage'[o] \notin FirstMade /\ (row[o] = "sealed" => stage'[o] \in Later)
  PROVE  SealIsSound(o)'
<1>1. PICK at : at = stage'[o]
  OBVIOUS
<1>5. Reached(o, at)'
  <2>1. CASE at = stage[o]
    BY <2>1, ReachedStays DEF SealIsSound
  <2>2. CASE at \notin FirstMade
    BY <2>2 DEF Reached, FirstMade, LeafMade, BodyWritten, ContentSynced, Named, LeafSynced,
                FirstSynced, RootSynced, Withdrawn
  <2>3. QED
    BY <1>1, <2>1, <2>2
<1>2. row[o] = "sealed" => Receipt(o)' /\ stage'[o] \in Later
  BY DEF SealIsSound, Receipt, Holds, Absent, Later
<1>3. row[o] = "sealed" /\ Target[o] # None => row'[Target[o]] = "sealed"
  BY DEF SealIsSound
<1>4. QED
  BY <1>1, <1>2, <1>3, <1>5 DEF SealIsSound, Reached, Later

\* A seal that advances has reached what its new stage relies on.
LEMMA Advanced ==
  ASSUME TypeOK, NEW o \in Owners, SealIsSound(o), NEW to, Written(o, to), Reached(o, to)'
  PROVE  SealIsSound(o)'
<1>1. Builds(o, to) /\ row' = row
  BY DEF Written, catalog
<1>2. stage'[o] = to /\ stage[o] \in {"reserved"} \cup FirstMade
  BY <1>1, SealOrder
<1>3. row'[o] # "sealed"
  BY <1>1, <1>2 DEF SealIsSound, FirstMade, LeafMade, BodyWritten, ContentSynced, Named, LeafSynced,
              FirstSynced, RootSynced, Withdrawn
<1>4. QED
  BY <1>2, <1>3 DEF SealIsSound, Reached

\* The steps of the seal itself.
LEMMA SealOwn ==
  ASSUME TypeOK, NEW o \in Owners, SealIsSound(o),
         Open(o) \/ WriteBody(o) \/ SyncContent(o) \/ Install(o) \/ SyncNames(o) \/ RemovePrivate(o)
  PROVE  SealIsSound(o)'
<1> USE DEF FirstMade, LeafMade, BodyWritten, ContentSynced, Named, LeafSynced, FirstSynced,
            RootSynced, Withdrawn
<1>1. ASSUME NEW to, Written(o, to)
      PROVE  /\ Reached(o, stage[o])
             /\ to = "leaf" => stage[o] = "first"
             /\ to = "private" => stage[o] = "leaf"
             /\ to = "body" => stage[o] = "private"
             /\ to = "content" => stage[o] = "body"
             /\ to = "named" => stage[o] = "content"
             /\ to = "leaf synced" => stage[o] = "named"
             /\ to = "first synced" => stage[o] = "leaf synced"
             /\ to = "names synced" => stage[o] = "first synced"
             /\ to = "removed" => stage[o] = "names synced"
             /\ to = "removal synced" => stage[o] = "removed"
             /\ to = "complete" => stage[o] = "removal synced"
  BY <1>1, SealOrder DEF Written, SealIsSound
<1>2. CASE Written(o, "first") /\ Make(First(o))
  <2>1. First(o) \in names'
    BY <1>2, MakeEffect
  <2>2. Reached(o, "first")'
    BY <2>1 DEF Reached
  <2>3. QED
    BY <1>2, <2>2, Advanced
<1>3. CASE Written(o, "leaf") /\ Make(Leaf(o))
  <2>1. Leaf(o) \in names' /\ Holds(First(o)) /\ Reached(o, "first")
    BY <1>1, <1>3, MakeEffect
  <2>2. Reached(o, "leaf")'
    BY <2>1 DEF Reached, Holds
  <2>3. QED
    BY <1>3, <2>2, Advanced
<1>4. CASE Written(o, "private") /\ Make(Private(o))
  <2>1. Holds(Leaf(o)) /\ Holds(First(o)) /\ Reached(o, "leaf")
    BY <1>1, <1>4, MakeEffect
  <2>2. Reached(o, "private")'
    BY <2>1 DEF Reached, Holds
  <2>3. QED
    BY <1>4, <2>2, Advanced
<1>5. CASE WriteBody(o)
  <2>1. Reached(o, "private") /\ Written(o, "body")
    BY <1>1, <1>5 DEF WriteBody
  <2>2. Holds(Leaf(o)) /\ Holds(First(o)) /\ file'[o] = "whole"
    BY <1>5, NoEffect DEF WriteBody, TypeOK
  <2>3. Reached(o, "body")'
    BY <2>1, <2>2 DEF Reached, Holds
  <2>4. QED
    BY <2>1, <2>3, Advanced
<1>6. CASE SyncContent(o)
  <2>1. Reached(o, "body") /\ Written(o, "content")
    BY <1>1, <1>6 DEF SyncContent
  <2>2. Holds(Leaf(o)) /\ Holds(First(o)) /\ file'[o] = file[o] /\ o \in synced'
    BY <1>6, NoEffect DEF SyncContent
  <2>3. Reached(o, "content")'
    BY <2>1, <2>2 DEF Reached, Holds
  <2>4. QED
    BY <2>1, <2>3, Advanced
<1>7. CASE Install(o)
  <2>1. Reached(o, "content") /\ Written(o, "named")
    BY <1>1, <1>7 DEF Install
  <2>2. /\ Holds(Leaf(o)) /\ Holds(First(o)) /\ Final(o) \in names'
        /\ file' = file /\ synced' = synced
    BY <1>7, MakeEffect DEF Install, files
  <2>3. Reached(o, "named")'
    BY <2>1, <2>2 DEF Reached, Holds
  <2>4. QED
    BY <2>1, <2>3, Advanced
<1>8. ASSUME NEW d, SyncDirectory(d), UNCHANGED files
      PROVE  /\ \A at : Reached(o, at) => Reached(o, at)'
             /\ \A e : In(e) = d => (e \in names => Anchored(e)') /\ (e \notin names => Gone(e)')
  <2>1. \A e : Holds(e) /\ Absent(e)
    BY <1>8, SyncEffect
  <2>2. file' = file /\ synced' = synced
    BY <1>8 DEF files
  <2>3. QED
    BY <1>8, <2>1, <2>2, SyncEffect, ReachedStays
<1>9. CASE Written(o, "leaf synced") /\ SyncDirectory(Leaf(o)) /\ UNCHANGED files
  <2>1. Reached(o, "named") /\ Reached(o, "named")'
    BY <1>1, <1>8, <1>9
  <2>2. Final(o) \in names
    BY <2>1 DEF Reached
  <2>3. Anchored(Final(o))'
    BY <1>8, <1>9, <2>2, EntryFacts
  <2>4. Reached(o, "leaf synced")'
    BY <2>1, <2>3 DEF Reached
  <2>5. QED
    BY <1>9, <2>4, Advanced
<1>10. CASE Written(o, "first synced") /\ SyncDirectory(First(o)) /\ UNCHANGED files
  <2>1. Reached(o, "leaf synced") /\ Reached(o, "leaf synced")'
    BY <1>1, <1>8, <1>10
  <2>2. Leaf(o) \in names
    BY <2>1 DEF Reached
  <2>3. Anchored(Leaf(o))'
    BY <1>8, <1>10, <2>2, EntryFacts
  <2>4. Reached(o, "first synced")'
    BY <2>1, <2>3 DEF Reached
  <2>5. QED
    BY <1>10, <2>4, Advanced
<1>11. CASE Written(o, "names synced") /\ SyncDirectory(Root) /\ UNCHANGED files
  <2>1. Reached(o, "first synced") /\ Reached(o, "first synced")'
    BY <1>1, <1>8, <1>11
  <2>2. First(o) \in names
    BY <2>1 DEF Reached
  <2>3. Anchored(First(o))'
    BY <1>8, <1>11, <2>2, EntryFacts
  <2>4. Reached(o, "names synced")'
    BY <2>1, <2>3 DEF Reached
  <2>5. QED
    BY <1>11, <2>4, Advanced
<1>12. CASE Written(o, "removed") /\ Unlink(Private(o)) /\ UNCHANGED files
  <2>1. Reached(o, "names synced")
    BY <1>1, <1>12
  <2>2. /\ Holds(First(o)) /\ Holds(Leaf(o)) /\ Holds(Final(o)) /\ Absent(Private(o))
        /\ Private(o) \notin names'
    BY <1>12, UnlinkEffect, EntryFacts
  <2>3. file' = file /\ synced' = synced
    BY <1>12 DEF files
  <2>4. Reached(o, "names synced")'
    BY <2>1, <2>2, <2>3, ReachedStays
  <2>5. Reached(o, "removed")'
    BY <2>2, <2>4 DEF Reached
  <2>6. QED
    BY <1>12, <2>5, Advanced
<1>13. CASE Written(o, "removal synced") /\ SyncDirectory(Leaf(o)) /\ UNCHANGED files
  <2>1. Reached(o, "removed") /\ Reached(o, "removed")'
    BY <1>1, <1>8, <1>13
  <2>2. Private(o) \notin names
    BY <2>1 DEF Reached
  <2>3. Gone(Private(o))'
    BY <1>8, <1>13, <2>2, EntryFacts
  <2>4. Reached(o, "removal synced")'
    BY <2>1, <2>3 DEF Reached
  <2>5. QED
    BY <1>13, <2>4, Advanced
<1>14. CASE Written(o, "complete") /\ UNCHANGED directory /\ UNCHANGED files
  <2>1. Reached(o, "removal synced")
    BY <1>1, <1>14
  <2>2. \A e : Holds(e) /\ Absent(e)
    BY <1>14, NoEffect
  <2>3. file' = file /\ synced' = synced
    BY <1>14 DEF files
  <2>4. Reached(o, "removal synced")'
    BY <2>1, <2>2, <2>3, ReachedStays
  <2>5. Reached(o, "complete")'
    BY <2>4 DEF Reached
  <2>6. QED
    BY <1>14, <2>5, Advanced
<1>15. QED
  BY <1>2, <1>3, <1>4, <1>5, <1>6, <1>7, <1>9, <1>10, <1>11, <1>12, <1>13, <1>14
  DEF Open, SyncNames, RemovePrivate

\* A row that says sealed is not written again.
LEMMA RowsKept ==
  ASSUME TypeOK, NEW q \in Owners, SealIsSound(q), Construct(q)
  PROVE  \A x \in Owners : row[x] = "sealed" => row'[x] = "sealed"
<1>1. ASSUME NEW x \in Owners, x # q PROVE row'[x] = row[x]
  BY <1>1, ConstructEffect DEF OthersKeep
<1>2. ASSUME row[q] = "sealed" PROVE row'[q] = "sealed"
  <2>1. ~Reserve(q)
    BY <1>2 DEF Reserve, Step, SealIsSound
  <2>2. CASE RecordSeal(q)
    BY <2>2 DEF RecordSeal, TypeOK
  <2>3. ASSUME NEW to, Written(q, to) PROVE row' = row
    BY <2>3 DEF Written, catalog
  <2>4. QED
    BY <1>2, <2>1, <2>2, <2>3 DEF Construct, OpenLease, LockLease, SyncLease, BeginScope, Open, WriteBody,
       SyncContent, Install, SyncNames, RemovePrivate, Finish, Release, RemoveLease, SyncUnnamed,
       CloseLease, Die, catalog
<1>3. QED
  BY <1>1, <1>2

\* The other steps of a construction leave its object alone.
LEMMA RestOwn ==
  ASSUME TypeOK, ConstructionAssumption, NEW o \in Owners, SealIsSound(o), Construct(o),
         \A x \in Owners : SealIsSound(x)
  PROVE  SealIsSound(o)'
<1> DEFINE Kept == /\ Holds(First(o)) /\ Holds(Leaf(o)) /\ Holds(Final(o)) /\ Absent(Private(o))
                   /\ file' = file /\ synced' = synced
<1>1. Target \in [Owners -> Owners \cup {None}]
  BY DEF ConstructionAssumption
<1>2. \A x \in Owners : row[x] = "sealed" => row'[x] = "sealed"
  BY RowsKept
<1>3. ASSUME Kept, row' = row, stage'[o] \notin FirstMade, row[o] = "sealed" => stage'[o] \in Later
      PROVE  SealIsSound(o)'
  BY <1>1, <1>2, <1>3, SealKept
<1>4. /\ (UNCHANGED directory \/ SyncDirectory(Root) \/ Make(Lease(o)) \/ Unlink(Lease(o))) /\ UNCHANGED files
      => Kept
  <2>1. Lease(o) \notin {First(o), Leaf(o), Final(o), Private(o)}
    BY EntryFacts
  <2>2. UNCHANGED files => file' = file /\ synced' = synced
    BY DEF files
  <2>3. QED
    BY <2>1, <2>2, NoEffect, SyncEffect, MakeEffect, UnlinkEffect
<1> HIDE DEF Kept
<1> USE DEF TypeOK, Step, catalog, SealIsSound, Later, FirstMade, LeafMade, BodyWritten, ContentSynced, Named,
            LeafSynced, FirstSynced, RootSynced, Withdrawn
<1>5. CASE OpenLease(o)
  BY <1>3, <1>4, <1>5 DEF OpenLease
<1>6. CASE LockLease(o)
  <2>1. stage[o] = "opened" /\ row' = row /\ UNCHANGED directory /\ UNCHANGED files
    BY <1>6 DEF LockLease
  <2>2. stage'[o] \in {"leased", "ended"}
    BY <1>6 DEF LockLease
  <2>3. QED
    BY <1>3, <1>4, <2>1, <2>2
<1>7. CASE SyncLease(o)
  BY <1>3, <1>4, <1>7 DEF SyncLease
<1>8. CASE BeginScope(o)
  BY <1>3, <1>4, <1>8 DEF BeginScope
<1>9. CASE Reserve(o)
  <2>1. Kept /\ row[o] # "sealed" /\ row'[o] = "reserved" /\ stage'[o] = "reserved"
    BY <1>4, <1>9 DEF Reserve, directory
  <2>2. QED
    BY <2>1 DEF Reached
<1>17. CASE RecordSeal(o)
  <2>1. /\ Reached(o, "complete") /\ stage'[o] = "sealed" /\ row'[o] = "sealed"
        /\ Target[o] # None => row[Target[o]] = "sealed"
    BY <1>17 DEF RecordSeal
  <2>2. Kept
    BY <1>4, <1>17 DEF RecordSeal, directory
  <2>3. Reached(o, "complete")'
    BY <2>1, <2>2, ReachedStays DEF Kept
  <2>4. Receipt(o)'
    BY <2>3 DEF Reached, Receipt
  <2>5. Target[o] # None => row'[Target[o]] = "sealed"
    BY <2>1, <1>1, <1>2
  <2>6. QED
    BY <2>1, <2>4, <2>5 DEF Reached
<1>10. CASE Finish(o)
  BY <1>3, <1>4, <1>10 DEF Finish, Leased
<1>11. CASE Release(o)
  BY <1>3, <1>4, <1>11 DEF Release
<1>12. CASE RemoveLease(o)
  BY <1>3, <1>4, <1>12 DEF RemoveLease
<1>13. CASE SyncUnnamed(o)
  BY <1>3, <1>4, <1>13 DEF SyncUnnamed
<1>14. CASE CloseLease(o)
  BY <1>3, <1>4, <1>14 DEF CloseLease
<1>15. CASE Die(o)
  BY <1>3, <1>4, <1>15 DEF Die
<1>16. QED
  BY <1>5, <1>6, <1>7, <1>8, <1>9, <1>10, <1>11, <1>12, <1>13, <1>14, <1>15, <1>17, SealOwn DEF Construct

-----------------------------------------------------------------------------
(***************************************************************************)
(* Recoveries and losses of power.                                         *)
(***************************************************************************)

\* A recovery touches no object: it removes at most the name of the lease it works on.
RecoverStep(r) ==
  /\ UNCHANGED <<stage, files, row, losses>>
  /\ \/ UNCHANGED directory
     \/ Unlink(Lease(recovery[r].at)) /\ recovery[r].step = "unlink"
     \/ SyncDirectory(Root)
  /\ \A s \in Recoverers \ {r} : recovery'[s] = recovery[s]

\* Which is so for each of its steps.
LEMMA RecoverEffect ==
  ASSUME TypeOK, NEW r \in Recoverers, Recover(r)
  PROVE  RecoverStep(r)
<1> USE DEF TypeOK, RecoverStep, files, catalog, Goes, Skip
<1>1. CASE Start(r)
  BY <1>1 DEF Start
<1>2. CASE Sweep(r)
  BY <1>2 DEF Sweep
<1>3. CASE Return(r)
  BY <1>3 DEF Return
<1>4. ASSUME NEW o \in Owners, Find(r, o) PROVE RecoverStep(r)
  BY <1>4 DEF Find
<1>5. CASE Try(r)
  BY <1>5 DEF Try, Missed
<1>6. CASE Judge(r)
  BY <1>6 DEF Judge
<1>7. CASE ReleaseAbandoned(r)
  BY <1>7 DEF ReleaseAbandoned
<1>8. CASE RemoveAbandoned(r)
  BY <1>8 DEF RemoveAbandoned
<1>9. CASE SyncAbandoned(r)
  BY <1>9 DEF SyncAbandoned
<1>10. CASE Throw(r)
  BY <1>10 DEF Throw
<1>11. QED
  BY <1>1, <1>2, <1>3, <1>4, <1>5, <1>6, <1>7, <1>8, <1>9, <1>10 DEF Recover

\* What is anchored with the directories it lies in survives; what is gone stays gone.
LEMMA PowerEffect ==
  ASSUME NEW o \in Owners, LosePower
  PROVE  /\ Anchored(Lease(o)) => Anchored(Lease(o))'
         /\ Anchored(First(o)) => Anchored(First(o))'
         /\ Anchored(First(o)) /\ Anchored(Leaf(o)) => Anchored(Leaf(o))'
         /\ Anchored(First(o)) /\ Anchored(Leaf(o)) /\ Anchored(Final(o)) => Anchored(Final(o))'
         /\ \A e : Gone(e) => Gone(e)'
<1>1. PICK kept \in SUBSET unsynced : names' = Reachable((names \ unsynced) \cup kept)
  BY DEF LosePower
<1> DEFINE left == (names \ unsynced) \cup kept
<1>2. unsynced' = {}
  BY DEF LosePower
<1>3. \A e : Anchored(e) => e \in left
  BY DEF Anchored
<1>4. \A e : Gone(e) => e \notin left
  BY DEF Gone
<1>5. \A e : e \in names' <=> e \in left /\ (In(e) = Root \/ (In(e) \in left /\ (In(In(e)) = Root \/ In(In(e)) \in left)))
  BY <1>1 DEF Reachable
<1> HIDE DEF left
<1>6. /\ In(Lease(o)) = Root /\ In(First(o)) = Root /\ In(Leaf(o)) = First(o) /\ In(Final(o)) = Leaf(o)
  BY EntryFacts
<1>7. \A e : e \notin unsynced'
  BY <1>2
<1>8. /\ Anchored(Lease(o)) => Lease(o) \in names'
      /\ Anchored(First(o)) => First(o) \in names'
      /\ Anchored(First(o)) /\ Anchored(Leaf(o)) => Leaf(o) \in names'
      /\ Anchored(First(o)) /\ Anchored(Leaf(o)) /\ Anchored(Final(o)) => Final(o) \in names'
  BY <1>3, <1>5, <1>6
<1>9. \A e : Gone(e) => e \notin names'
  BY <1>4, <1>5
<1>10. QED
  BY <1>7, <1>8, <1>9 DEF Anchored, Gone

\* Every seal stays sound.
LEMMA SealStep ==
  ASSUME IInv, ConstructionAssumption, [Next]_vars, NEW o \in Owners
  PROVE  SealIsSound(o)'
<1>1. Target \in [Owners -> Owners \cup {None}]
  BY DEF ConstructionAssumption
<1>2. TypeOK /\ SealIsSound(o) /\ \A x \in Owners : SealIsSound(x)
  BY DEF IInv
<1>3. ASSUME NEW q \in Owners, Construct(q) PROVE SealIsSound(o)'
  <2>1. CASE q = o
    BY <2>1, <1>2, <1>3, RestOwn
  <2>2. CASE q # o
    <3>1. /\ Holds(First(o)) /\ Holds(Leaf(o)) /\ Holds(Final(o)) /\ Absent(Private(o))
      BY <2>2, <1>2, <1>3, ConstructEffect, OthersEntries
    <3>2. /\ stage'[o] = stage[o] /\ file'[o] = file[o] /\ row'[o] = row[o] /\ synced \subseteq synced'
      BY <2>2, <1>2, <1>3, ConstructEffect DEF OthersKeep
    <3>3. \A x \in Owners : row[x] = "sealed" => row'[x] = "sealed"
      BY <1>2, <1>3, RowsKept
    <3>4. QED
      BY <1>1, <1>2, <3>1, <3>2, <3>3, SealKept
  <2>3. QED
    BY <2>1, <2>2
<1>4. ASSUME NEW r \in Recoverers, Recover(r) PROVE SealIsSound(o)'
  <2>1. RecoverStep(r)
    BY <1>2, <1>4, RecoverEffect
  <2>2. recovery[r].step = "unlink" => recovery[r].at \in Owners
    <3>1. recovery[r].at \in Owners \cup {None}
      BY <1>2 DEF TypeOK, Call
    <3>2. RecoveryIsSound(r)
      BY DEF IInv
    <3>3. QED
      BY <3>1, <3>2 DEF RecoveryIsSound
  <2>3. /\ Holds(First(o)) /\ Holds(Leaf(o)) /\ Holds(Final(o)) /\ Absent(Private(o))
    <3>1. CASE UNCHANGED directory
      BY <3>1, NoEffect
    <3>2. CASE SyncDirectory(Root)
      BY <3>2, SyncEffect
    <3>3. CASE Unlink(Lease(recovery[r].at)) /\ recovery[r].step = "unlink"
      BY <3>3, <2>2, UnlinkEffect, EntryFacts
    <3>4. QED
      BY <2>1, <3>1, <3>2, <3>3 DEF RecoverStep
  <2>4. stage' = stage /\ file' = file /\ synced' = synced /\ row' = row
    BY <2>1 DEF RecoverStep, files
  <2>5. QED
    BY <1>1, <1>2, <2>3, <2>4, SealKept
<1>5. CASE LosePower
  <2>1. row' = row /\ synced' = synced
    BY <1>5 DEF LosePower, catalog
  <2>2. stage'[o] \in {"new", "ended"} /\ (stage[o] # "new" => stage'[o] = "ended")
    BY <1>5 DEF LosePower
  <2>3. o \in synced => file'[o] = file[o]
    BY <1>5 DEF LosePower
  <2>4. Receipt(o) => Receipt(o)'
    BY <1>5, <2>1, <2>3, PowerEffect DEF Receipt
  <2>5. row[o] = "sealed" => stage[o] # "new" /\ Receipt(o) /\ (Target[o] # None => row[Target[o]] = "sealed")
    BY <1>2 DEF SealIsSound
  <2>6. QED
    BY <2>1, <2>2, <2>4, <2>5 DEF SealIsSound, Reached, FirstMade, LeafMade, BodyWritten,
       ContentSynced, Named, LeafSynced, FirstSynced, RootSynced, Withdrawn
<1>6. CASE UNCHANGED vars
  <2>1. /\ stage' = stage /\ row' = row /\ file' = file /\ synced' = synced /\ UNCHANGED directory
    BY <1>6 DEF vars, directory
  <2>2. QED
    BY <1>1, <1>2, <2>1, NoEffect, SealKept
<1>7. QED
  BY <1>3, <1>4, <1>5, <1>6 DEF Next

-----------------------------------------------------------------------------
(***************************************************************************)
(* Leases.                                                                 *)
(***************************************************************************)

\* A step that leaves the lease, its lock and its scope alone, while the
\* construction stays under way or comes to an end.
LEMMA LeaseKept ==
  ASSUME NEW o \in Owners, LeaseIsSound(o), Holds(Lease(o)), Absent(Lease(o)),
         lock'[o] = lock[o], scope'[o] = scope[o],
         \/ stage'[o] = stage[o]
         \/ stage'[o] \in {"ended"}
         \/ stage'[o] \in {"releasing"} /\ stage[o] \in Leased
         \/ /\ stage'[o] \in {"sealed"} \cup ToSet(Building)
            /\ stage[o] \in {"open"} \cup ToSet(Building)
  PROVE  LeaseIsSound(o)'
<1> USE BuildingStages DEF Leased, FirstMade, LeafMade, BodyWritten, ContentSynced, Named,
        LeafSynced, FirstSynced, RootSynced, Withdrawn
<1>1. Lease(o) \in names => Lease(o) \in names'
  BY DEF Holds
<1>2. (Anchored(Lease(o)) => Anchored(Lease(o))') /\ (Gone(Lease(o)) => Gone(Lease(o))')
  BY DEF Holds, Absent
<1>3. CASE stage'[o] = stage[o]
  BY <1>1, <1>2, <1>3 DEF LeaseIsSound
<1>4. CASE stage'[o] = "ended"
  BY <1>1, <1>2, <1>4 DEF LeaseIsSound
<1>5. CASE stage'[o] = "releasing" /\ stage[o] \in Leased
  BY <1>1, <1>2, <1>5 DEF LeaseIsSound
<1>6. CASE /\ stage'[o] \in {"sealed"} \cup ToSet(Building)
           /\ stage[o] \in {"open"} \cup ToSet(Building)
  BY <1>1, <1>2, <1>6 DEF LeaseIsSound
<1>7. QED
  BY <1>3, <1>4, <1>5, <1>6

\* The steps of a construction keep its lease until it removes it.
LEMMA LeaseOwn ==
  ASSUME TypeOK, NEW o \in Owners, LeaseIsSound(o), Construct(o)
  PROVE  LeaseIsSound(o)'
<1> USE DEF TypeOK, Step, catalog
<1>1. UNCHANGED directory => Holds(Lease(o)) /\ Absent(Lease(o))
  BY NoEffect
<1>2. ASSUME NEW d, SyncDirectory(d) PROVE Holds(Lease(o)) /\ Absent(Lease(o))
  BY <1>2, SyncEffect
<1>3. /\ In(Lease(o)) = Root
      /\ Lease(o) \notin {First(o), Leaf(o), Private(o), Final(o)}
  BY EntryFacts
<1>4. /\ {"reserved"} \cup FirstMade = ToSet(Building)
      /\ \A s \in {"reserved"} \cup FirstMade : s \in Leased
  BY BuildingStages DEF Leased
<1>5. ASSUME NEW to, Written(o, to), Holds(Lease(o)), Absent(Lease(o)) PROVE LeaseIsSound(o)'
  <2>1. /\ stage'[o] \in ToSet(Building) /\ stage[o] \in ToSet(Building)
        /\ lock' = lock /\ scope' = scope
    BY <1>4, <1>5, SealOrder DEF Written
  <2>2. QED
    BY <1>5, <2>1, LeaseKept
<1>6. CASE OpenLease(o)
  BY <1>6, BuildingStages, MakeEffect DEF OpenLease, LeaseIsSound, Leased, FirstMade, LeafMade, BodyWritten, ContentSynced, Named,
        LeafSynced, FirstSynced, RootSynced, Withdrawn
<1>7. CASE LockLease(o)
  <2>1. stage[o] = "opened" /\ scope' = scope /\ Holds(Lease(o)) /\ Absent(Lease(o))
    BY <1>1, <1>7 DEF LockLease
  <2>2. scope[o] = "missing"
    BY <2>1 DEF LeaseIsSound
  <2>3. CASE stage'[o] = "ended"
    <3>1. lock' = lock
      BY <1>7, <2>3 DEF LockLease
    <3>2. QED
      BY <2>1, <2>3, <3>1, LeaseKept
  <2>4. CASE stage'[o] = "leased"
    <3>1. lock'[o] = o /\ Lease(o) \in names
      BY <1>7, <2>4 DEF LockLease
    <3>2. Lease(o) \in names'
      BY <2>1, <3>1 DEF Holds
    <3>3. QED
      BY <2>1, <2>2, <2>4, <3>1, <3>2, BuildingStages DEF LeaseIsSound, Leased, FirstMade, LeafMade,
         BodyWritten, ContentSynced, Named, LeafSynced, FirstSynced, RootSynced, Withdrawn
  <2>5. stage'[o] \in {"ended", "leased"}
    BY <1>7 DEF LockLease
  <2>6. QED
    BY <2>3, <2>4, <2>5
<1>8. CASE SyncLease(o)
  <2>1. /\ stage[o] = "leased" /\ stage'[o] = "lease synced" /\ scope' = scope /\ lock' = lock
        /\ SyncDirectory(Root)
    BY <1>8 DEF SyncLease
  <2>2. Lease(o) \in names /\ lock[o] = o /\ scope[o] = "missing"
    BY <2>1 DEF LeaseIsSound, Leased
  <2>3. Anchored(Lease(o))'
    BY <1>3, <2>1, <2>2, SyncEffect
  <2>4. QED
    BY <2>1, <2>2, <2>3, BuildingStages DEF LeaseIsSound, Anchored, FirstMade, LeafMade,
         BodyWritten, ContentSynced, Named, LeafSynced, FirstSynced, RootSynced, Withdrawn
<1>9. CASE BeginScope(o)
  <2>1. /\ stage[o] = "lease synced" /\ stage'[o] = "open" /\ scope'[o] = "active" /\ lock' = lock
        /\ Holds(Lease(o))
    BY <1>1, <1>9 DEF BeginScope
  <2>2. Anchored(Lease(o))' /\ lock[o] = o
    BY <2>1 DEF LeaseIsSound, Leased, Holds
  <2>3. QED
    BY <2>1, <2>2 DEF LeaseIsSound, Anchored
<1>10. CASE Reserve(o)
  <2>1. stage[o] = "open" /\ stage'[o] = "reserved" /\ scope' = scope /\ lock' = lock
    BY <1>10 DEF Reserve
  <2>2. QED
    BY <1>1, <1>4, <1>10, <2>1, LeaseKept DEF Reserve
<1>11. CASE Open(o)
  BY <1>3, <1>5, <1>11, MakeEffect DEF Open
<1>12. CASE WriteBody(o)
  BY <1>1, <1>5, <1>12 DEF WriteBody
<1>13. CASE SyncContent(o)
  BY <1>1, <1>5, <1>13 DEF SyncContent
<1>14. CASE Install(o)
  BY <1>3, <1>5, <1>14, MakeEffect DEF Install
<1>15. CASE SyncNames(o)
  BY <1>2, <1>5, <1>15 DEF SyncNames
<1>16. CASE RemovePrivate(o)
  BY <1>1, <1>2, <1>3, <1>5, <1>16, UnlinkEffect DEF RemovePrivate
<1>17. CASE RecordSeal(o)
  <2>1. /\ stage[o] = "complete" /\ stage'[o] = "sealed" /\ scope' = scope /\ lock' = lock
    BY <1>17 DEF RecordSeal
  <2>2. "complete" \in ToSet(Building)
    BY <1>4 DEF FirstMade, LeafMade, BodyWritten, ContentSynced, Named, LeafSynced, FirstSynced, RootSynced,
           Withdrawn
  <2>3. QED
    BY <1>1, <1>17, <2>1, <2>2, LeaseKept DEF RecordSeal
<1>18. CASE Finish(o)
  BY <1>1, <1>18, LeaseKept DEF Finish
<1>19. CASE Release(o)
  <2>1. /\ stage[o] = "releasing" /\ stage'[o] = "released" /\ scope'[o] = "released" /\ lock' = lock
        /\ Holds(Lease(o))
    BY <1>1, <1>19 DEF Release
  <2>2. Lease(o) \in names' /\ lock[o] = o
    BY <2>1 DEF LeaseIsSound, Holds
  <2>3. QED
    BY <2>1, <2>2, BuildingStages DEF LeaseIsSound, FirstMade, LeafMade,
         BodyWritten, ContentSynced, Named, LeafSynced, FirstSynced, RootSynced, Withdrawn
<1>20. CASE RemoveLease(o)
  <2>1. /\ stage[o] = "released" /\ stage'[o] = "unnamed" /\ scope' = scope /\ lock' = lock
    BY <1>20 DEF RemoveLease
  <2>2. scope[o] = "released" /\ lock[o] = o
    BY <2>1 DEF LeaseIsSound
  <2>3. QED
    BY <2>1, <2>2, BuildingStages DEF LeaseIsSound, Leased, FirstMade, LeafMade,
         BodyWritten, ContentSynced, Named, LeafSynced, FirstSynced, RootSynced, Withdrawn
<1>21. ASSUME stage'[o] = "ended", scope' = scope, Holds(Lease(o)) PROVE LeaseIsSound(o)'
  BY <1>21, BuildingStages DEF LeaseIsSound, Leased, Holds, FirstMade, LeafMade,
         BodyWritten, ContentSynced, Named, LeafSynced, FirstSynced, RootSynced, Withdrawn
<1>22. CASE SyncUnnamed(o)
  BY <1>2, <1>21, <1>22 DEF SyncUnnamed
<1>23. CASE CloseLease(o)
  BY <1>1, <1>21, <1>23 DEF CloseLease
<1>24. CASE Die(o)
  BY <1>1, <1>21, <1>24 DEF Die
<1>25. QED
  BY <1>6, <1>7, <1>8, <1>9, <1>10, <1>11, <1>12, <1>13, <1>14, <1>15, <1>16, <1>17, <1>18, <1>19,
     <1>20, <1>22, <1>23, <1>24 DEF Construct

\* Nor does a recovery hurt a lease that its owner holds: what it works on, it holds.
LEMMA LeaseLeft ==
  ASSUME NEW o \in Owners, LeaseIsSound(o), stage'[o] = stage[o],
         \/ lock[o] # o
         \/ lock'[o] = lock[o] /\ scope'[o] = scope[o] /\ Holds(Lease(o)),
         scope'[o] # scope[o] => scope[o] = "active" /\ scope'[o] = "released",
         Absent(Lease(o)), scope'[o] = "active" => Holds(Lease(o))
  PROVE  LeaseIsSound(o)'
<1> USE BuildingStages DEF Leased, FirstMade, LeafMade, BodyWritten, ContentSynced, Named,
        LeafSynced, FirstSynced, RootSynced, Withdrawn
<1>1. CASE lock[o] # o
  BY <1>1 DEF LeaseIsSound, Holds, Absent
<1>2. CASE lock'[o] = lock[o] /\ scope'[o] = scope[o] /\ Holds(Lease(o))
  BY <1>2, LeaseKept
<1>3. QED
  BY <1>1, <1>2

\* The lease a recovery works on is a construction's.
LEMMA WorkedOn ==
  ASSUME TypeOK, NEW r \in Recoverers, RecoveryIsSound(r), recovery[r].step # "choose"
  PROVE  recovery[r].at \in Owners
<1>1. recovery[r].at \in Owners \cup {None}
  BY DEF TypeOK, Call
<1>2. QED
  BY <1>1 DEF RecoveryIsSound

\* Every step of a recovery keeps every lease.
LEMMA LeaseRecovered ==
  ASSUME TypeOK, ConstructionAssumption, NEW r \in Recoverers, RecoveryIsSound(r), Recover(r),
         NEW o \in Owners, LeaseIsSound(o)
  PROVE  LeaseIsSound(o)'
<1> DEFINE at == recovery[r].at
<1> USE DEF catalog
<1>1. RecoverStep(r) /\ stage' = stage
  BY RecoverEffect DEF RecoverStep
<1>2. r # o /\ r # None /\ None # o
  BY DEF ConstructionAssumption
<1>3. recovery[r].step # "choose" => at \in Owners
  BY WorkedOn
<1>4. lock \in [Owners -> Owners \cup Recoverers \cup {None}] /\ scope \in [Owners -> {"missing", "active", "released"}]
  BY DEF TypeOK
<1>5. ASSUME UNCHANGED directory PROVE Holds(Lease(o)) /\ Absent(Lease(o))
  BY <1>5, NoEffect
<1>6. ASSUME UNCHANGED directory, UNCHANGED lock, UNCHANGED scope PROVE LeaseIsSound(o)'
  BY <1>1, <1>5, <1>6, LeaseKept
<1>7. CASE Start(r)
  BY <1>6, <1>7 DEF Start
<1>8. CASE Sweep(r)
  BY <1>6, <1>8 DEF Sweep
<1>9. CASE Return(r)
  BY <1>6, <1>9 DEF Return
<1>10. ASSUME NEW q \in Owners, Find(r, q) PROVE LeaseIsSound(o)'
  BY <1>6, <1>10 DEF Find
<1>11. CASE Try(r)
  <2>1. UNCHANGED directory /\ scope' = scope
    BY <1>11 DEF Try
  <2>2. CASE lock' = lock
    BY <1>6, <2>1, <2>2
  <2>3. CASE lock[at] = None /\ lock' = [lock EXCEPT ![at] = r]
    BY <1>1, <1>2, <1>4, <1>5, <2>1, <2>3, LeaseLeft
  <2>4. QED
    BY <1>11, <2>2, <2>3 DEF Try, Missed
<1>12. CASE Judge(r)
  <2>1. UNCHANGED directory /\ scope' = scope /\ lock[at] = r
    BY <1>12 DEF Judge, RecoveryIsSound
  <2>2. CASE lock' = lock
    BY <1>6, <2>1, <2>2
  <2>3. CASE Unlock(at)
    BY <1>1, <1>2, <1>4, <1>5, <2>1, <2>3, LeaseLeft DEF Unlock
  <2>4. QED
    BY <1>12, <2>2, <2>3 DEF Judge
<1>13. CASE ReleaseAbandoned(r)
  <2>1. /\ UNCHANGED directory /\ lock' = lock /\ scope' = [scope EXCEPT ![at] = "released"]
        /\ lock[at] = r /\ scope[at] = "active" /\ at \in Owners
    BY <1>3, <1>13 DEF ReleaseAbandoned, RecoveryIsSound, Goes
  <2>2. /\ o # at => scope'[o] = scope[o]
        /\ o = at => lock[o] # o /\ scope[o] = "active" /\ scope'[o] = "released"
    BY <1>2, <1>4, <2>1
  <2>3. stage'[o] = stage[o] /\ lock'[o] = lock[o] /\ Holds(Lease(o)) /\ Absent(Lease(o))
    BY <1>1, <1>5, <2>1
  <2>4. CASE o = at
    BY <2>2, <2>3, <2>4, LeaseLeft
  <2>5. CASE o # at
    BY <2>2, <2>3, <2>5, LeaseKept
  <2>6. QED
    BY <2>4, <2>5
<1>14. CASE RemoveAbandoned(r)
  <2>1. /\ Unlink(Lease(at)) /\ lock' = lock /\ scope' = scope
        /\ lock[at] = r /\ scope[at] # "active" /\ at \in Owners
    BY <1>3, <1>14 DEF RemoveAbandoned, RecoveryIsSound, Goes
  <2>2. Absent(Lease(o)) /\ (o # at => Holds(Lease(o)))
    BY <2>1, UnlinkEffect, EntryFacts
  <2>3. stage'[o] = stage[o] /\ lock'[o] = lock[o] /\ scope'[o] = scope[o]
    BY <1>1, <2>1
  <2>4. o = at => lock[o] # o /\ scope'[o] # "active"
    BY <1>2, <2>1
  <2>5. CASE o = at
    BY <2>2, <2>3, <2>4, <2>5, LeaseLeft
  <2>6. CASE o # at
    BY <2>2, <2>3, <2>6, LeaseKept
  <2>7. QED
    BY <2>5, <2>6
<1>15. CASE SyncAbandoned(r)
  <2>1. SyncDirectory(Root) /\ Unlock(at) /\ scope' = scope /\ lock[at] = r
    BY <1>15 DEF SyncAbandoned, RecoveryIsSound
  <2>2. Holds(Lease(o)) /\ Absent(Lease(o))
    BY <2>1, SyncEffect
  <2>3. QED
    BY <1>1, <1>2, <1>4, <2>1, <2>2, LeaseLeft DEF Unlock
<1>16. CASE Throw(r)
  <2>1. /\ UNCHANGED directory /\ scope' = scope
        /\ lock'[o] = IF lock[o] = r THEN None ELSE lock[o]
    BY <1>16 DEF Throw
  <2>2. QED
    BY <1>1, <1>2, <1>5, <2>1, LeaseLeft
<1>17. QED
  BY <1>7, <1>8, <1>9, <1>10, <1>11, <1>12, <1>13, <1>14, <1>15, <1>16 DEF Recover

\* Every lease stays sound.
LEMMA LeaseStep ==
  ASSUME IInv, ConstructionAssumption, [Next]_vars, NEW o \in Owners
  PROVE  LeaseIsSound(o)'
<1>1. TypeOK /\ LeaseIsSound(o)
  BY DEF IInv
<1>2. ASSUME NEW q \in Owners, Construct(q) PROVE LeaseIsSound(o)'
  <2>1. CASE q = o
    BY <2>1, <1>1, <1>2, LeaseOwn
  <2>2. CASE q # o
    <3>1. Holds(Lease(o)) /\ Absent(Lease(o))
      BY <2>2, <1>1, <1>2, ConstructEffect, OthersEntries
    <3>2. stage'[o] = stage[o] /\ scope'[o] = scope[o] /\ lock'[o] = lock[o]
      BY <2>2, <1>1, <1>2, ConstructEffect DEF OthersKeep
    <3>3. QED
      BY <1>1, <3>1, <3>2, LeaseKept
  <2>3. QED
    BY <2>1, <2>2
<1>3. ASSUME NEW r \in Recoverers, Recover(r) PROVE LeaseIsSound(o)'
  BY <1>1, <1>3, LeaseRecovered DEF IInv
<1>4. CASE LosePower
  <2>1. scope' = scope /\ (stage[o] = "new" => stage'[o] = "new") /\ (stage[o] # "new" => stage'[o] = "ended")
    BY <1>4 DEF LosePower, catalog
  <2>2. /\ Gone(Lease(o)) => Gone(Lease(o))'
        /\ Anchored(Lease(o)) => Anchored(Lease(o))'
    BY <1>4, PowerEffect
  <2>3. QED
    BY <1>1, <2>1, <2>2, BuildingStages DEF LeaseIsSound, Leased, FirstMade, LeafMade, BodyWritten,
       ContentSynced, Named, LeafSynced, FirstSynced, RootSynced, Withdrawn
<1>5. CASE UNCHANGED vars
  <2>1. /\ stage' = stage /\ scope' = scope /\ lock' = lock /\ UNCHANGED directory
    BY <1>5 DEF vars, directory
  <2>2. QED
    BY <1>1, <2>1, NoEffect, LeaseKept
<1>6. QED
  BY <1>2, <1>3, <1>4, <1>5 DEF Next

-----------------------------------------------------------------------------
(***************************************************************************)
(* Recovery.                                                               *)
(***************************************************************************)

\* What a construction's step means to a recovery: it is not of an ended one, and
\* a lease that a recovery holds is neither unlocked, nor its scope written.
LEMMA ConstructGuards ==
  ASSUME TypeOK, ConstructionAssumption, NEW q \in Owners, LeaseIsSound(q), Construct(q)
  PROVE  /\ stage[q] # "ended" /\ stage'[q] # "new"
         /\ \A r \in Recoverers : lock[q] = r => lock'[q] = r /\ scope'[q] = scope[q]
         /\ stage[q] # "new" => Absent(Lease(q))
<1> DEFINE Left == lock' = lock /\ scope' = scope
<1> USE DEF TypeOK, Step, catalog, Unlock
<1>1. \A r \in Recoverers : r # q /\ r # None
  BY DEF ConstructionAssumption
<1>2. /\ UNCHANGED directory => Absent(Lease(q))
      /\ \A d : SyncDirectory(d) \/ Unlink(d) => Absent(Lease(q))
      /\ \A d : Make(d) /\ d # Lease(q) => Absent(Lease(q))
  BY NoEffect, SyncEffect, UnlinkEffect, MakeEffect
<1>3. Lease(q) \notin {First(q), Leaf(q), Private(q), Final(q)}
  BY EntryFacts
<1>4. ASSUME NEW to, Written(q, to)
      PROVE  stage[q] # "ended" /\ stage'[q] # "new" /\ Left
  BY <1>4, SealOrder DEF Written, FirstMade, LeafMade, BodyWritten, ContentSynced, Named, LeafSynced,
     FirstSynced, RootSynced, Withdrawn
<1>5. CASE OpenLease(q)
  BY <1>5 DEF OpenLease
<1>6. CASE LockLease(q)
  <2>1. stage[q] = "opened" /\ stage'[q] \in {"leased", "ended"} /\ scope' = scope /\ Absent(Lease(q))
    BY <1>2, <1>6 DEF LockLease
  <2>2. lock' = lock \/ lock[q] = None
    BY <1>6 DEF LockLease
  <2>3. QED
    BY <1>1, <2>1, <2>2
<1>7. CASE SyncLease(q)
  BY <1>2, <1>7 DEF SyncLease
<1>8. CASE BeginScope(q)
  <2>1. stage[q] = "lease synced" /\ stage'[q] = "open" /\ Absent(Lease(q))
    BY <1>2, <1>8 DEF BeginScope
  <2>2. lock[q] = q
    BY <2>1 DEF LeaseIsSound, Leased
  <2>3. QED
    BY <1>1, <2>1, <2>2
<1>9. CASE Reserve(q)
  BY <1>2, <1>9 DEF Reserve
<1>10. CASE Open(q)
  BY <1>2, <1>3, <1>4, <1>10 DEF Open
<1>11. CASE WriteBody(q)
  BY <1>2, <1>4, <1>11 DEF WriteBody
<1>12. CASE SyncContent(q)
  BY <1>2, <1>4, <1>12 DEF SyncContent
<1>13. CASE Install(q)
  BY <1>2, <1>3, <1>4, <1>13 DEF Install
<1>14. CASE SyncNames(q)
  BY <1>2, <1>4, <1>14 DEF SyncNames
<1>15. CASE RemovePrivate(q)
  BY <1>2, <1>4, <1>15 DEF RemovePrivate
<1>16. CASE RecordSeal(q)
  BY <1>2, <1>16 DEF RecordSeal
<1>17. CASE Finish(q)
  <2>1. stage[q] \in Leased /\ stage'[q] = "releasing" /\ Left /\ Absent(Lease(q))
    BY <1>2, <1>17 DEF Finish
  <2>2. "ended" \notin Leased
    BY BuildingStages DEF Leased, FirstMade, LeafMade, BodyWritten, ContentSynced, Named, LeafSynced,
       FirstSynced, RootSynced, Withdrawn
  <2>3. QED
    BY <2>1, <2>2
<1>18. ASSUME stage[q] \in {"releasing", "released", "unnamed"}, stage'[q] # "new", Absent(Lease(q))
       PROVE  /\ stage[q] # "ended" /\ stage'[q] # "new"
              /\ \A r \in Recoverers : lock[q] = r => lock'[q] = r /\ scope'[q] = scope[q]
              /\ stage[q] # "new" => Absent(Lease(q))
  BY <1>1, <1>18 DEF LeaseIsSound
<1>19. CASE Release(q)
  BY <1>2, <1>18, <1>19 DEF Release
<1>20. CASE RemoveLease(q)
  BY <1>2, <1>18, <1>20 DEF RemoveLease
<1>21. CASE SyncUnnamed(q)
  BY <1>2, <1>18, <1>21 DEF SyncUnnamed
<1>22. CASE CloseLease(q)
  BY <1>2, <1>18, <1>22 DEF CloseLease
<1>23. CASE Die(q)
  <2>1. /\ stage[q] # "ended" /\ stage'[q] = "ended" /\ scope' = scope /\ Absent(Lease(q))
        /\ lock' = IF lock[q] = q THEN [lock EXCEPT ![q] = None] ELSE lock
    BY <1>2, <1>23 DEF Die
  <2>2. QED
    BY <1>1, <2>1
<1>24. QED
  BY <1>5, <1>6, <1>7, <1>8, <1>9, <1>10, <1>11, <1>12, <1>13, <1>14, <1>15, <1>16, <1>17, <1>19,
     <1>20, <1>21, <1>22, <1>23 DEF Construct

\* What a recovery relies on stays while nobody touches the leases it holds.
LEMMA RecoveryKept ==
  ASSUME TypeOK, NEW r \in Recoverers, RecoveryIsSound(r), StaleIsSound(r),
         recovery'[r] = recovery[r],
         \A o \in Owners :
           /\ stage[o] # "new" => stage'[o] # "new" /\ Absent(Lease(o))
           /\ stage[o] = "ended" => stage'[o] = "ended"
           /\ stage[o] = "ended" /\ scope[o] # "active" => scope'[o] # "active"
           /\ lock[o] = r => lock'[o] = r /\ scope'[o] = scope[o]
  PROVE  RecoveryIsSound(r)' /\ StaleIsSound(r)'
<1>1. recovery[r].at \in Owners \cup {None} /\ recovery[r].stale \subseteq Owners
  BY DEF TypeOK, Call
<1>2. RecoveryIsSound(r)'
  BY <1>1 DEF RecoveryIsSound, Absent
<1>3. StaleIsSound(r)'
  <2> SUFFICES ASSUME NEW o \in recovery[r].stale
               PROVE  /\ stage'[o] = "ended"
                      /\ recovery[r].phase = "scopes" =>
                           scope'[o] # "active" \/ o \in recovery[r].todo \/ o = recovery[r].at
                      /\ recovery[r].phase = "names" =>
                           /\ scope'[o] # "active"
                           /\ Lease(o) \notin names' \/ o \in recovery[r].todo \/ o = recovery[r].at
    BY DEF StaleIsSound
  <2>1. o \in Owners
    BY <1>1
  <2>2. stage[o] = "ended" /\ Absent(Lease(o))
    BY <2>1 DEF StaleIsSound
  <2>3. QED
    BY <2>1, <2>2 DEF StaleIsSound, Absent
<1>4. QED
  BY <1>2, <1>3

\* Where a call of recover is after its own step.
Works(r, phase, at, step, todo, stale) ==
  recovery'[r] = [phase |-> phase, at |-> at, step |-> step, todo |-> todo, stale |-> stale]

\* The call's record after each of its steps, field by field.
LEMMA RecoverFields ==
  ASSUME TypeOK, NEW r \in Recoverers
  PROVE  LET v == recovery[r]
         IN  /\ Start(r) => Works(r, "scopes", None, "choose", Active, Ended)
             /\ Sweep(r) => Works(r, "names", v.at, v.step, Owners, v.stale)
             /\ Return(r) \/ Throw(r) => recovery'[r] = Idle
             /\ \A o \in Owners : Find(r, o) =>
                  IF Lease(o) \in names
                    THEN Works(r, v.phase, o, "found", v.todo \ {o}, v.stale)
                    ELSE Works(r, v.phase, None, "choose", v.todo \ {o}, v.stale)
             /\ Missed(r) => Works(r, v.phase, None, "choose", v.todo,
                                   IF lock[v.at] # None THEN v.stale \ {v.at} ELSE v.stale)
             /\ Skip(r) => Works(r, v.phase, None, "choose", v.todo, v.stale)
<1> DEFINE v == recovery[r]
<1>1. /\ recovery \in [Recoverers -> Call]
      /\ v = [phase |-> v.phase, at |-> v.at, step |-> v.step, todo |-> v.todo, stale |-> v.stale]
  BY DEF TypeOK, Call
<1>2. Start(r) => Works(r, "scopes", None, "choose", Active, Ended)
  BY <1>1 DEF Start, Works, Idle
<1>3. Sweep(r) => Works(r, "names", v.at, v.step, Owners, v.stale)
  BY <1>1 DEF Sweep, Works
<1>4. Return(r) \/ Throw(r) => recovery'[r] = Idle
  BY <1>1 DEF Return, Throw
<1>5. ASSUME NEW o \in Owners, Find(r, o)
      PROVE  IF Lease(o) \in names
               THEN Works(r, v.phase, o, "found", v.todo \ {o}, v.stale)
               ELSE Works(r, v.phase, None, "choose", v.todo \ {o}, v.stale)
  BY <1>1, <1>5 DEF Find, Works
<1>6. Missed(r) => Works(r, v.phase, None, "choose", v.todo,
                         IF lock[v.at] # None THEN v.stale \ {v.at} ELSE v.stale)
  BY <1>1 DEF Missed, Works
<1>7. Skip(r) => Works(r, v.phase, None, "choose", v.todo, v.stale)
  BY <1>1 DEF Skip, Works
<1>8. QED
  BY <1>2, <1>3, <1>4, <1>5, <1>6, <1>7

\* The same for the steps that only go on to another one.
LEMMA GoesFields ==
  ASSUME TypeOK, NEW r \in Recoverers, NEW from, NEW to, Goes(r, from, to)
  PROVE  /\ recovery[r].step = from
         /\ Works(r, recovery[r].phase, recovery[r].at, to, recovery[r].todo, recovery[r].stale)
<1> DEFINE v == recovery[r]
<1>1. /\ recovery \in [Recoverers -> Call]
      /\ v = [phase |-> v.phase, at |-> v.at, step |-> v.step, todo |-> v.todo, stale |-> v.stale]
  BY DEF TypeOK, Call
<1>2. QED
  BY <1>1 DEF Goes, Works

\* Each step of a recovery keeps what the recovery relies on.
LEMMA RecoveryOwn ==
  ASSUME TypeOK, ConstructionAssumption, NEW r \in Recoverers, RecoveryIsSound(r), Recover(r),
         \A o \in Owners : LeaseIsSound(o)
  PROVE  RecoveryIsSound(r)' /\ recovery' \in [Recoverers -> Call]
<1> DEFINE v == recovery[r]
<1> SUFFICES RecoveryIsSound(r)' /\ recovery'[r] \in Call
  <2>1. \E x : recovery' = [recovery EXCEPT ![r] = x]
    BY DEF Recover, Start, Sweep, Return, Find, Try, Missed, Judge, ReleaseAbandoned, RemoveAbandoned,
           SyncAbandoned, Throw, Goes, Skip
  <2>2. PICK x : recovery' = [recovery EXCEPT ![r] = x]
    BY <2>1
  <2>3. recovery \in [Recoverers -> Call]
    BY DEF TypeOK
  <2>4. QED
    BY <2>2, <2>3
<1> USE DEF Works, Call, catalog
<1>1. /\ v.at \in Owners \cup {None} /\ v.phase \in {"idle", "scopes", "names"} /\ v.step \in Steps
      /\ v.todo \in SUBSET Owners /\ v.stale \in SUBSET Owners /\ None \notin Owners
  BY DEF TypeOK, ConstructionAssumption
<1>2. /\ v.phase = "idle" => v.step = "choose" /\ v.todo = {}
      /\ v.at = None <=> v.step = "choose"
      /\ v.at # None => stage[v.at] # "new"
      /\ v.step \in {"locked", "release", "unlink", "sync"} => lock[v.at] = r
      /\ v.step = "release" => scope[v.at] = "active"
      /\ v.step \in {"unlink", "sync"} => scope[v.at] # "active"
      /\ v.step = "sync" => Lease(v.at) \notin names
  BY DEF RecoveryIsSound, Idle
<1>3. stage' = stage
  BY RecoverEffect DEF RecoverStep
<1>4. lock \in [Owners -> Owners \cup Recoverers \cup {None}] /\ scope \in [Owners -> {"missing", "active", "released"}]
  BY DEF TypeOK
<1>5. ASSUME recovery'[r] \in Call,
             recovery'[r].phase # "idle" \/ recovery'[r] = Idle,
             recovery'[r].at = None <=> recovery'[r].step = "choose",
             recovery'[r].at # None => stage[recovery'[r].at] # "new",
             recovery'[r].step \in {"locked", "release", "unlink", "sync"} => lock'[recovery'[r].at] = r,
             recovery'[r].step = "release" => scope'[recovery'[r].at] = "active",
             recovery'[r].step \in {"unlink", "sync"} => scope'[recovery'[r].at] # "active",
             recovery'[r].step = "sync" => Lease(recovery'[r].at) \notin names'
      PROVE  RecoveryIsSound(r)' /\ recovery'[r] \in Call
  BY <1>3, <1>5 DEF RecoveryIsSound
<1>6. CASE recovery'[r] = Idle
  BY <1>5, <1>6 DEF Idle, Steps
<1>7. CASE Start(r)
  <2>1. Works(r, "scopes", None, "choose", Active, Ended)
    BY <1>7, RecoverFields
  <2>2. Active \in SUBSET Owners /\ Ended \in SUBSET Owners
    BY DEF Active, Ended
  <2>3. QED
    BY <1>5, <2>1, <2>2 DEF Steps
<1>8. CASE Sweep(r)
  <2>1. Works(r, "names", v.at, v.step, Owners, v.stale) /\ v.at = None
    BY <1>8, RecoverFields DEF Sweep
  <2>2. QED
    BY <1>1, <1>2, <1>5, <2>1 DEF Steps
<1>9. ASSUME NEW o \in Owners, Find(r, o) PROVE RecoveryIsSound(r)' /\ recovery'[r] \in Call
  <2>1. v.phase # "idle"
    BY <1>2, <1>9 DEF Find
  <2>2. CASE Lease(o) \in names
    <3>1. Works(r, v.phase, o, "found", v.todo \ {o}, v.stale)
      BY <1>9, <2>2, RecoverFields
    <3>2. stage[o] # "new"
      BY <2>2 DEF LeaseIsSound, Gone
    <3>3. QED
      BY <1>1, <1>5, <2>1, <3>1, <3>2 DEF Steps
  <2>3. CASE Lease(o) \notin names
    <3>1. Works(r, v.phase, None, "choose", v.todo \ {o}, v.stale)
      BY <1>9, <2>3, RecoverFields
    <3>2. QED
      BY <1>1, <1>5, <2>1, <3>1 DEF Steps
  <2>4. QED
    BY <2>2, <2>3
<1>10. CASE v.step # "choose" /\ (Missed(r) \/ Skip(r))
  <2>1. v.phase # "idle"
    BY <1>2, <1>10
  <2>2. PICK stale \in SUBSET Owners : Works(r, v.phase, None, "choose", v.todo, stale)
    BY <1>1, <1>10, RecoverFields
  <2>3. QED
    BY <1>1, <1>5, <2>1, <2>2 DEF Steps
<1>11. ASSUME NEW to \in {"locked", "release", "unlink", "sync"}, v.step # "choose",
              Works(r, v.phase, v.at, to, v.todo, v.stale),
              lock'[v.at] = r,
              to = "release" => scope'[v.at] = "active",
              to \in {"unlink", "sync"} => scope'[v.at] # "active",
              to = "sync" => Lease(v.at) \notin names'
       PROVE  RecoveryIsSound(r)' /\ recovery'[r] \in Call
  BY <1>1, <1>2, <1>5, <1>11 DEF Steps
<1>12. CASE Try(r)
  <2>1. CASE Missed(r)
    BY <1>10, <2>1 DEF Missed
  <2>2. CASE Goes(r, "found", "locked") /\ lock' = [lock EXCEPT ![v.at] = r]
    <3>1. v.step = "found" /\ Works(r, v.phase, v.at, "locked", v.todo, v.stale)
      BY <2>2, GoesFields
    <3>2. lock'[v.at] = r
      BY <1>1, <1>2, <1>4, <2>2, <3>1
    <3>3. QED
      BY <1>11, <3>1, <3>2
  <2>3. QED
    BY <1>12, <2>1, <2>2 DEF Try
<1>13. CASE Judge(r)
  <2>1. v.step = "locked" /\ scope' = scope /\ lock[v.at] = r
    BY <1>2, <1>13 DEF Judge
  <2>2. CASE scope[v.at] # "active" /\ Goes(r, "locked", "unlink") /\ UNCHANGED lock
    <3>1. Works(r, v.phase, v.at, "unlink", v.todo, v.stale)
      BY <2>2, GoesFields
    <3>2. QED
      BY <1>11, <2>1, <2>2, <3>1
  <2>3. CASE scope[v.at] = "active" /\ Goes(r, "locked", "release") /\ UNCHANGED lock
    <3>1. Works(r, v.phase, v.at, "release", v.todo, v.stale)
      BY <2>3, GoesFields
    <3>2. QED
      BY <1>11, <2>1, <2>3, <3>1
  <2>4. CASE Skip(r)
    BY <1>10, <2>1, <2>4
  <2>5. QED
    BY <1>13, <2>2, <2>3, <2>4 DEF Judge
<1>14. CASE ReleaseAbandoned(r)
  <2>1. /\ Goes(r, "release", "unlink")
        /\ lock' = lock /\ scope' = [scope EXCEPT ![v.at] = "released"]
    BY <1>14 DEF ReleaseAbandoned
  <2>4. v.step = "release" /\ Works(r, v.phase, v.at, "unlink", v.todo, v.stale)
    BY <2>1, GoesFields
  <2>2. lock'[v.at] = r /\ scope'[v.at] # "active"
    BY <1>1, <1>2, <1>4, <2>1, <2>4
  <2>3. QED
    BY <1>11, <2>1, <2>2, <2>4
<1>15. CASE RemoveAbandoned(r)
  <2>1. Goes(r, "unlink", "sync") /\ lock' = lock /\ scope' = scope
    BY <1>15 DEF RemoveAbandoned
  <2>4. v.step = "unlink" /\ Works(r, v.phase, v.at, "sync", v.todo, v.stale)
    BY <2>1, GoesFields
  <2>2. lock'[v.at] = r /\ scope'[v.at] # "active" /\ Lease(v.at) \notin names'
    BY <1>2, <1>15, <2>1, <2>4, UnlinkEffect DEF RemoveAbandoned
  <2>3. QED
    BY <1>11, <2>2, <2>4
<1>16. CASE SyncAbandoned(r)
  BY <1>10, <1>16 DEF SyncAbandoned
<1>17. QED
  BY <1>6, <1>7, <1>8, <1>9, <1>12, <1>13, <1>14, <1>15, <1>16, RecoverFields DEF Recover

\* Each step of a recovery keeps account of what it has still to clean up.
LEMMA StaleOwn ==
  ASSUME TypeOK, ConstructionAssumption, NEW r \in Recoverers, RecoveryIsSound(r), StaleIsSound(r),
         Recover(r)
  PROVE  StaleIsSound(r)'
<1> DEFINE v == recovery[r]
<1> USE DEF Works, catalog
<1>1. v.at \in Owners \cup {None} /\ v.todo \subseteq Owners /\ v.stale \subseteq Owners /\ None \notin Owners
  BY DEF TypeOK, Call, ConstructionAssumption
<1>2. /\ v.at = None <=> v.step = "choose"
      /\ v.step \in {"unlink", "sync"} => scope[v.at] # "active"
      /\ v.step = "sync" => Lease(v.at) \notin names
  BY DEF RecoveryIsSound
<1>3. stage' = stage
  BY RecoverEffect DEF RecoverStep
<1>4. \A o \in v.stale :
        /\ stage[o] = "ended"
        /\ v.phase = "scopes" => scope[o] # "active" \/ o \in v.todo \/ o = v.at
        /\ v.phase = "names" => /\ scope[o] # "active"
                                /\ Lease(o) \notin names \/ o \in v.todo \/ o = v.at
  BY DEF StaleIsSound
<1>5. scope \in [Owners -> {"missing", "active", "released"}]
  BY DEF TypeOK
<1>6. CASE recovery'[r] = Idle
  BY <1>6 DEF StaleIsSound, Idle
<1>7. CASE Start(r)
  <2>1. Works(r, "scopes", None, "choose", Active, Ended) /\ scope' = scope
    BY <1>7, RecoverFields DEF Start
  <2>2. \A o \in Ended : stage[o] = "ended" /\ (scope[o] # "active" \/ o \in Active)
    BY DEF Active, Ended
  <2>3. QED
    BY <1>3, <2>1, <2>2 DEF StaleIsSound
<1>8. CASE Sweep(r)
  <2>1. /\ Works(r, "names", v.at, v.step, Owners, v.stale)
        /\ v.at = None /\ v.todo = {} /\ v.phase = "scopes" /\ scope' = scope
    BY <1>8, RecoverFields DEF Sweep
  <2>2. QED
    BY <1>1, <1>3, <1>4, <2>1 DEF StaleIsSound
<1>9. ASSUME NEW q \in Owners, Find(r, q) PROVE StaleIsSound(r)'
  <2>1. /\ v.at = None /\ names' = names /\ scope' = scope
        /\ Lease(q) \notin names => scope[q] # "active" \/ v.phase = "names"
    BY <1>2, <1>9 DEF Find, directory
  <2>2. CASE Lease(q) \in names
    <3>1. Works(r, v.phase, q, "found", v.todo \ {q}, v.stale)
      BY <1>9, <2>2, RecoverFields
    <3>2. QED
      BY <1>1, <1>3, <1>4, <2>1, <3>1 DEF StaleIsSound
  <2>3. CASE Lease(q) \notin names
    <3>1. Works(r, v.phase, None, "choose", v.todo \ {q}, v.stale)
      BY <1>9, <2>3, RecoverFields
    <3>2. QED
      BY <1>1, <1>3, <1>4, <2>1, <2>3, <3>1 DEF StaleIsSound
  <2>4. QED
    BY <2>2, <2>3
<1>10. CASE Try(r)
  <2>1. names' = names /\ scope' = scope
    BY <1>10 DEF Try, directory
  <2>2. CASE Missed(r)
    <3>1. Works(r, v.phase, None, "choose", v.todo,
                IF lock[v.at] # None THEN v.stale \ {v.at} ELSE v.stale)
      BY <2>2, RecoverFields
    <3>2. \/ lock[v.at] # None
          \/ Lease(v.at) \notin names /\ (scope[v.at] # "active" \/ v.phase = "names")
      BY <2>2 DEF Missed
    <3>3. CASE lock[v.at] # None
      BY <1>1, <1>3, <1>4, <2>1, <3>1, <3>3 DEF StaleIsSound
    <3>4. CASE lock[v.at] = None
      BY <1>1, <1>3, <1>4, <2>1, <3>1, <3>2, <3>4 DEF StaleIsSound
    <3>5. QED
      BY <3>3, <3>4
  <2>3. CASE Goes(r, "found", "locked")
    <3>1. Works(r, v.phase, v.at, "locked", v.todo, v.stale)
      BY <2>3, GoesFields
    <3>2. QED
      BY <1>3, <1>4, <2>1, <3>1 DEF StaleIsSound
  <2>4. QED
    BY <1>10, <2>2, <2>3 DEF Try
<1>11. CASE Judge(r)
  <2>1. names' = names /\ scope' = scope
    BY <1>11 DEF Judge, directory
  <2>2. ASSUME NEW to, Goes(r, "locked", to) PROVE StaleIsSound(r)'
    <3>1. Works(r, v.phase, v.at, to, v.todo, v.stale)
      BY <2>2, GoesFields
    <3>2. QED
      BY <1>3, <1>4, <2>1, <3>1 DEF StaleIsSound
  <2>3. CASE scope[v.at] = "active" /\ v.phase = "names" /\ Skip(r)
    <3>1. Works(r, v.phase, None, "choose", v.todo, v.stale)
      BY <2>3, RecoverFields
    <3>2. v.at \notin v.stale
      BY <1>4, <2>3
    <3>3. QED
      BY <1>3, <1>4, <2>1, <2>3, <3>1, <3>2 DEF StaleIsSound
  <2>4. QED
    BY <1>11, <2>2, <2>3 DEF Judge
<1>12. CASE ReleaseAbandoned(r)
  <2>1. Goes(r, "release", "unlink") /\ names' = names /\ scope' = [scope EXCEPT ![v.at] = "released"]
    BY <1>12 DEF ReleaseAbandoned, directory
  <2>2. Works(r, v.phase, v.at, "unlink", v.todo, v.stale)
    BY <2>1, GoesFields
  <2>3. \A o \in Owners : scope[o] # "active" => scope'[o] # "active"
    BY <1>5, <2>1
  <2>4. QED
    BY <1>1, <1>3, <1>4, <2>1, <2>2, <2>3 DEF StaleIsSound
<1>13. CASE RemoveAbandoned(r)
  <2>1. Goes(r, "unlink", "sync") /\ scope' = scope /\ Unlink(Lease(v.at))
    BY <1>13 DEF RemoveAbandoned
  <2>2. Works(r, v.phase, v.at, "sync", v.todo, v.stale)
    BY <2>1, GoesFields
  <2>3. names' \subseteq names
    BY <2>1 DEF Unlink
  <2>4. QED
    BY <1>3, <1>4, <2>1, <2>2, <2>3 DEF StaleIsSound
<1>14. CASE SyncAbandoned(r)
  <2>1. v.step = "sync" /\ Skip(r) /\ scope' = scope /\ names' = names
    BY <1>14 DEF SyncAbandoned, SyncDirectory
  <2>2. Works(r, v.phase, None, "choose", v.todo, v.stale)
    BY <2>1, RecoverFields
  <2>3. scope[v.at] # "active" /\ Lease(v.at) \notin names
    BY <1>2, <2>1
  <2>4. QED
    BY <1>1, <1>3, <1>4, <2>1, <2>2, <2>3 DEF StaleIsSound
<1>15. QED
  BY <1>6, <1>7, <1>8, <1>9, <1>10, <1>11, <1>12, <1>13, <1>14, RecoverFields DEF Recover

\* What another recovery does touches no lease that this one holds.
LEMMA RecoverGuards ==
  ASSUME TypeOK, ConstructionAssumption, NEW s \in Recoverers, RecoveryIsSound(s), Recover(s),
         NEW r \in Recoverers, r # s, NEW o \in Owners
  PROVE  /\ Absent(Lease(o)) /\ (scope[o] # "active" => scope'[o] # "active")
         /\ lock[o] = r => lock'[o] = r /\ scope'[o] = scope[o]
<1> DEFINE at == recovery[s].at
<1> USE DEF catalog
<1>1. r # None /\ lock \in [Owners -> Owners \cup Recoverers \cup {None}]
      /\ scope \in [Owners -> {"missing", "active", "released"}]
  BY DEF TypeOK, ConstructionAssumption
<1>2. Absent(Lease(o))
  BY RecoverEffect, NoEffect, SyncEffect, UnlinkEffect DEF RecoverStep
<1>3. recovery[s].step \in {"locked", "release", "unlink", "sync"} => lock[at] = s
  BY DEF RecoveryIsSound
<1>4. scope' = scope \/ ReleaseAbandoned(s)
  BY DEF Recover, Start, Sweep, Return, Find, Try, Judge, RemoveAbandoned, SyncAbandoned, Throw
<1>5. ReleaseAbandoned(s) => lock[at] = s /\ scope' = [scope EXCEPT ![at] = "released"]
  BY <1>3 DEF ReleaseAbandoned, Goes
<1>6. /\ scope[o] # "active" => scope'[o] # "active"
      /\ lock[o] = r => scope'[o] = scope[o]
  BY <1>1, <1>4, <1>5
<1>7. lock[o] = r => lock'[o] = r
  <2>1. CASE lock' = lock
    BY <2>1
  <2>2. CASE Unlock(at) /\ lock[at] = s
    BY <1>1, <2>2 DEF Unlock
  <2>3. CASE lock[at] = None /\ lock' = [lock EXCEPT ![at] = s]
    BY <1>1, <2>3
  <2>4. CASE Throw(s)
    BY <1>1, <2>4 DEF Throw
  <2>5. CASE Try(s)
    BY <2>1, <2>3, <2>5 DEF Try, Missed
  <2>6. CASE Judge(s)
    BY <1>3, <2>1, <2>2, <2>6 DEF Judge
  <2>7. CASE SyncAbandoned(s)
    BY <1>3, <2>2, <2>7 DEF SyncAbandoned
  <2>8. QED
    BY <2>1, <2>4, <2>5, <2>6, <2>7 DEF Recover, Start, Sweep, Return, Find, ReleaseAbandoned,
       RemoveAbandoned
<1>8. QED
  BY <1>2, <1>6, <1>7

\* Every recovery stays sound.
LEMMA RecoveryStep ==
  ASSUME IInv, ConstructionAssumption, [Next]_vars, NEW r \in Recoverers
  PROVE  RecoveryIsSound(r)' /\ StaleIsSound(r)'
<1>1. TypeOK /\ RecoveryIsSound(r) /\ StaleIsSound(r) /\ \A o \in Owners : LeaseIsSound(o)
  BY DEF IInv
<1>2. ASSUME NEW q \in Owners, Construct(q) PROVE RecoveryIsSound(r)' /\ StaleIsSound(r)'
  <2>1. recovery' = recovery
    BY <1>1, <1>2, ConstructEffect
  <2>2. ASSUME NEW o \in Owners
        PROVE  /\ stage[o] # "new" => stage'[o] # "new" /\ Absent(Lease(o))
               /\ stage[o] = "ended" => stage'[o] = "ended"
               /\ stage[o] = "ended" /\ scope[o] # "active" => scope'[o] # "active"
               /\ lock[o] = r => lock'[o] = r /\ scope'[o] = scope[o]
    <3>1. CASE o = q
      BY <1>1, <1>2, <3>1, ConstructGuards
    <3>2. CASE o # q
      <4>1. stage'[o] = stage[o] /\ scope'[o] = scope[o] /\ lock'[o] = lock[o]
        BY <1>1, <1>2, <3>2, ConstructEffect DEF OthersKeep
      <4>2. Absent(Lease(o))
        BY <1>1, <1>2, <3>2, ConstructEffect, OthersEntries
      <4>3. QED
        BY <4>1, <4>2
    <3>3. QED
      BY <3>1, <3>2
  <2>3. QED
    BY <1>1, <2>1, <2>2, RecoveryKept
<1>3. ASSUME NEW s \in Recoverers, Recover(s) PROVE RecoveryIsSound(r)' /\ StaleIsSound(r)'
  <2>1. CASE s = r
    BY <1>1, <1>3, <2>1, RecoveryOwn, StaleOwn
  <2>2. CASE s # r
    <3>1. RecoverStep(s) /\ RecoveryIsSound(s)
      BY <1>1, <1>3, RecoverEffect DEF IInv
    <3>2. recovery'[r] = recovery[r] /\ stage' = stage
      BY <2>2, <3>1 DEF RecoverStep
    <3>3. ASSUME NEW o \in Owners
          PROVE  /\ Absent(Lease(o)) /\ (scope[o] # "active" => scope'[o] # "active")
                 /\ lock[o] = r => lock'[o] = r /\ scope'[o] = scope[o]
      BY <1>1, <1>3, <2>2, <3>1, RecoverGuards
    <3>4. QED
      BY <1>1, <3>2, <3>3, RecoveryKept
  <2>3. QED
    BY <2>1, <2>2
<1>4. CASE LosePower
  <2>1. recovery'[r] = Idle
    BY <1>4 DEF LosePower
  <2>2. QED
    BY <2>1 DEF RecoveryIsSound, StaleIsSound, Idle
<1>5. CASE UNCHANGED vars
  BY <1>1, <1>5 DEF vars, RecoveryIsSound, StaleIsSound
<1>6. QED
  BY <1>2, <1>3, <1>4, <1>5 DEF Next

\* Every variable stays in its type.
LEMMA TypeStep ==
  ASSUME IInv, ConstructionAssumption, [Next]_vars
  PROVE  TypeOK'
<1>1. TypeOK
  BY DEF IInv
<1>2. ASSUME NEW q \in Owners, Construct(q) PROVE TypeOK'
  <2> DEFINE Changes(f, old, set) == f = old \/ \E x \in set : f = [old EXCEPT ![q] = x]
  <2> USE <1>1, <1>2 DEF Step, files, catalog, Unlock
  <2>1. FirstMade \subseteq Stages /\ "reserved" \in Stages
    BY BuildingStages DEF Stages, Leased
  <2>9. /\ Changes(scope', scope, {"missing", "active", "released"})
        /\ Changes(row', row, {"none", "reserved", "sealed"})
        /\ Changes(file', file, {"none", "partial", "whole", "torn"})
    BY DEF Construct, OpenLease, LockLease, SyncLease, BeginScope, Reserve, Written, Open, WriteBody,
       SyncContent, Install, SyncNames, RemovePrivate, RecordSeal, Finish, Release, RemoveLease,
       SyncUnnamed, CloseLease, Die
  <2>10. Changes(lock', lock, Owners \cup Recoverers \cup {None})
    BY DEF Construct, OpenLease, LockLease, SyncLease, BeginScope, Reserve, Written, Open, WriteBody,
       SyncContent, Install, SyncNames, RemovePrivate, RecordSeal, Finish, Release, RemoveLease,
       SyncUnnamed, CloseLease, Die
  <2>11. recovery' = recovery
    BY ConstructEffect
  <2>2. /\ recovery' = recovery /\ scope' \in [Owners -> {"missing", "active", "released"}]
        /\ row' \in [Owners -> {"none", "reserved", "sealed"}]
        /\ lock' \in [Owners -> Owners \cup Recoverers \cup {None}]
        /\ file' \in [Owners -> {"none", "partial", "whole", "torn"}]
    BY <2>9, <2>10, <2>11 DEF TypeOK
  <2> HIDE DEF Changes
  <2>3. ASSUME NEW to, Written(q, to) PROVE stage' \in [Owners -> Stages]
    <3>1. to \in FirstMade /\ stage' = [stage EXCEPT ![q] = to]
      BY <2>3, SealOrder DEF Written, Builds
    <3>2. QED
      BY <2>1, <3>1 DEF TypeOK
  <2>4. Open(q) \/ WriteBody(q) \/ SyncContent(q) \/ Install(q) \/ SyncNames(q) \/ RemovePrivate(q)
        => stage' \in [Owners -> Stages]
    BY <2>3 DEF Open, WriteBody, SyncContent, Install, SyncNames, RemovePrivate
  <2>5. {"opened", "leased", "lease synced", "open", "reserved", "sealed", "releasing", "released",
         "unnamed", "ended"} \subseteq Stages
    BY <2>1 DEF Stages, Leased
  <2>6. \/ Open(q) \/ WriteBody(q) \/ SyncContent(q) \/ Install(q) \/ SyncNames(q) \/ RemovePrivate(q)
        \/ \E to \in {"opened", "leased", "lease synced", "open", "reserved", "sealed", "releasing",
                      "released", "unnamed", "ended"} : stage' = [stage EXCEPT ![q] = to]
    BY DEF Construct, OpenLease, LockLease, SyncLease, BeginScope, Reserve, RecordSeal, Finish, Release,
       RemoveLease, SyncUnnamed, CloseLease, Die
  <2>12. \A to \in Stages : [stage EXCEPT ![q] = to] \in [Owners -> Stages]
    BY DEF TypeOK
  <2>7. stage' \in [Owners -> Stages]
    BY <2>4, <2>5, <2>6, <2>12
  <2>8. QED
    BY <2>2, <2>7 DEF TypeOK
<1>3. ASSUME NEW r \in Recoverers, Recover(r) PROVE TypeOK'
  <2>1. recovery' \in [Recoverers -> Call]
    BY <1>1, <1>3, RecoveryOwn DEF IInv
  <2>2. stage' = stage /\ file' = file /\ row' = row
    BY <1>1, <1>3, RecoverEffect DEF RecoverStep, files
  <2>5. scope' = scope \/ scope' = [scope EXCEPT ![recovery[r].at] = "released"]
    BY <1>3 DEF catalog, Recover, Start, Sweep, Return, Find, Try, Judge, ReleaseAbandoned,
       RemoveAbandoned, SyncAbandoned, Throw
  <2>6. \/ lock' = lock \/ lock' = [lock EXCEPT ![recovery[r].at] = r]
        \/ Unlock(recovery[r].at) \/ Throw(r)
    BY <1>3 DEF Recover, Start, Sweep, Return, Find, Try, Missed, Judge, ReleaseAbandoned,
       RemoveAbandoned, SyncAbandoned
  <2>3. /\ scope' \in [Owners -> {"missing", "active", "released"}]
        /\ lock' \in [Owners -> Owners \cup Recoverers \cup {None}]
    BY <1>1, <2>5, <2>6 DEF TypeOK, Unlock, Throw
  <2>4. QED
    BY <1>1, <2>1, <2>2, <2>3 DEF TypeOK
<1>4. CASE LosePower
  <2>1. Idle \in Call
    BY DEF Idle, Call, Steps
  <2>2. /\ scope' = scope /\ row' = row /\ lock' = [o \in Owners |-> None]
        /\ recovery' = [r \in Recoverers |-> Idle]
        /\ stage' = [o \in Owners |-> IF stage[o] = "new" THEN "new" ELSE "ended"]
        /\ \E torn \in SUBSET (Owners \ synced) :
             file' = [o \in Owners |-> IF o \in torn /\ file[o] # "none" THEN "torn" ELSE file[o]]
    BY <1>4 DEF LosePower, catalog
  <2>3. file' \in [Owners -> {"none", "partial", "whole", "torn"}]
    BY <1>1, <2>2 DEF TypeOK
  <2>4. stage' \in [Owners -> Stages]
    BY <2>2 DEF Stages
  <2>5. QED
    BY <1>1, <2>1, <2>2, <2>3, <2>4 DEF TypeOK
<1>5. CASE UNCHANGED vars
  BY <1>1, <1>5 DEF vars, TypeOK
<1>6. QED
  BY <1>2, <1>3, <1>4, <1>5 DEF Next

-----------------------------------------------------------------------------
(***************************************************************************)
(* The theorems.                                                           *)
(***************************************************************************)

\* At first nothing is made, and nothing is expected of anything.
LEMMA InitSound ==
  ASSUME Init, ConstructionAssumption
  PROVE  IInv
<1>1. TypeOK
  BY DEF Init, TypeOK, Stages, Idle, Call, Steps
<1>2. ASSUME NEW o \in Owners PROVE SealIsSound(o) /\ LeaseIsSound(o)
  BY BuildingStages DEF Init, SealIsSound, LeaseIsSound, Reached, Gone, Leased, FirstMade, LeafMade,
     BodyWritten, ContentSynced, Named, LeafSynced, FirstSynced, RootSynced, Withdrawn
<1>3. ASSUME NEW r \in Recoverers PROVE RecoveryIsSound(r) /\ StaleIsSound(r)
  BY DEF Init, RecoveryIsSound, StaleIsSound, Idle
<1>4. QED
  BY <1>1, <1>2, <1>3 DEF IInv

\* The invariant says what is promised of receipts.
LEMMA ReceiptsFollow ==
  ASSUME IInv
  PROVE  ReceiptsAreDurable
<1> SUFFICES ASSUME NEW o \in Owners
             PROVE  /\ stage[o] = "complete" \/ row[o] = "sealed" =>
                         /\ Final(o) \in Reachable(names) /\ file[o] = "whole"
                         /\ Private(o) \notin names
                    /\ row[o] = "sealed" /\ Target[o] # None => row[Target[o]] = "sealed"
  BY DEF ReceiptsAreDurable
<1>1. SealIsSound(o)
  BY DEF IInv
<1>2. stage[o] = "complete" \/ row[o] = "sealed" => Receipt(o)
  BY <1>1 DEF SealIsSound, Reached, Receipt, FirstMade, LeafMade, BodyWritten, ContentSynced, Named,
     LeafSynced, FirstSynced, RootSynced, Withdrawn
<1>3. Receipt(o) => Final(o) \in Reachable(names)
  <2>1. /\ In(First(o)) = Root /\ In(Leaf(o)) = First(o) /\ In(Final(o)) = Leaf(o)
    BY EntryFacts
  <2>2. QED
    BY <2>1 DEF Receipt, Anchored, Reachable
<1>4. QED
  BY <1>1, <1>2, <1>3 DEF SealIsSound, Receipt, Gone

\* And what is promised of leases and of recovery.
LEMMA RecoveryFollows ==
  ASSUME IInv, ConstructionAssumption
  PROVE  RecoveryIsExact
<1>1. LeasesAreExact
  <2> SUFFICES ASSUME NEW o \in Owners
               PROVE  /\ stage[o] \in Leased \cup {"releasing"} => Lease(o) \in names /\ lock[o] = o
                      /\ stage[o] \in {"open", "sealed"} \cup ToSet(Building) => scope[o] = "active"
                      /\ scope[o] = "active" => Lease(o) \in names
    BY DEF LeasesAreExact
  <2>1. QED
    BY DEF IInv, LeaseIsSound, Anchored
<1>2. RecoveryIsComplete
  <2> SUFFICES ASSUME NEW r \in Recoverers, recovery[r].phase = "names", recovery[r].todo = {},
                      recovery[r].at = None, NEW o \in recovery[r].stale
               PROVE  scope[o] # "active" /\ Lease(o) \notin names
    BY DEF RecoveryIsComplete
  <2>1. o \in Owners /\ o # None
    BY DEF IInv, TypeOK, Call, ConstructionAssumption
  <2>2. StaleIsSound(r)
    BY DEF IInv
  <2>3. QED
    BY <2>1, <2>2 DEF StaleIsSound
<1>3. QED
  BY <1>1, <1>2 DEF RecoveryIsExact

(* The invariant holds: every seal has reached what its stage relies on, every
   lease is held and anchored as long as it must be, and every recovery works
   on a lease it holds, with all that it has still to clean up on its list
   (object_writer::finish, private_construction::create and recover).       *)
THEOREM InvariantHolds == Spec => []IInv
<1> USE ConstructionAssumption
<1>1. Init => IInv
  BY InitSound
<1>2. IInv /\ [Next]_vars => IInv'
  <2> SUFFICES ASSUME IInv, [Next]_vars PROVE IInv'
    OBVIOUS
  <2>1. TypeOK'
    BY TypeStep
  <2>2. \A o \in Owners : SealIsSound(o)' /\ LeaseIsSound(o)'
    BY SealStep, LeaseStep
  <2>3. \A r \in Recoverers : RecoveryIsSound(r)' /\ StaleIsSound(r)'
    BY RecoveryStep
  <2>4. QED
    BY <2>1, <2>2, <2>3 DEF IInv
<1>3. QED
  BY <1>1, <1>2, PTL DEF Spec

(* For any number of constructions, whatever shards they share, an object whose
   receipt was given keeps its name, its whole content and its sealed target
   through every death, recovery and loss of power (object_writer::finish,
   private_construction::record_sealed).                                    *)
THEOREM ReceiptsHold == Spec => []ReceiptsAreDurable
  BY InvariantHolds, ReceiptsFollow, PTL

(* For any number of constructions and recoveries at once, what lives keeps its
   lease and what had ended is cleaned up when a recovery returns
   (private_construction::recover).                                         *)
THEOREM RecoveryHolds == Spec => []RecoveryIsExact
  BY ConstructionAssumption, InvariantHolds, RecoveryFollows, PTL

=============================================================================
