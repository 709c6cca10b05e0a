-------------------------- MODULE ReplacementRebuild --------------------------
(***************************************************************************)
(* The executor of a replacement table that forgets its history            *)
(* (replacement_rebuild.h).  The foreground is the table that is written.  *)
(* When it holds too many obsolete records a rebuild freezes a snapshot,   *)
(* scans it into a private candidate, replays on the candidate what was    *)
(* written since, and puts the candidate in the foreground's place.  The   *)
(* rebuild runs on credit: each later write grants its share of a bound    *)
(* reserved at the freeze, and must find the candidate installed before    *)
(* the horizon.                                                            *)
(*                                                                         *)
(* One worker owns the executor, so its calls do not interleave, but       *)
(* readers, a failure and a restart come between any two of the steps      *)
(* below; what they find is `published`.  An engine is its resolved table, *)
(* the native occurrences of each key and its admission mass; the module   *)
(* RedundantRuntime is what is inside.  A signature and a live count are   *)
(* those of the table, so equal metadata is an equal table.                *)
(***************************************************************************)
EXTENDS Integers, Sequences, FiniteSets, Functions, TLC

CONSTANTS
  Keys, Values, NoValue, MaxBatch,
  SmallLimit,       \* small_limit: 64
  HistoryDivisor,   \* a rebuild starts at mutations >= base / 4
  HorizonDivisor,   \* and ends within live / 8 mutations
  TinyRecords,      \* tiny_record_limit: 256, when the family owns its cleanups; else 0
  Setup, ScanPrice, ActionBound, \* the prices of a rebuild's actions
  Foldings,         \* whether a carry folds a key's earlier occurrences
  CarryBound,       \* most maintenance one admission leaves: (c + 32) * (height + 1)
  Carries,          \* what it may leave
  Budgets,          \* what callers of advance offer
  Openings,         \* live records of the tables an executor is opened on
  MaxAccepted,      \* records the first executor accepts (a bound of the model)
  MaxAcceptedAgain, \* and one that was restored (a bound of the model)
  MaxRestarts       \* and how often it is restored (a bound of the model)

ASSUME RebuildAssumption ==
  /\ IsFiniteSet(Keys) /\ NoValue \notin Values /\ MaxBatch \in Nat \ {0}
  /\ SmallLimit \in Nat /\ HistoryDivisor \in Nat \ {0} /\ HorizonDivisor \in Nat
  /\ HorizonDivisor >= 2 * HistoryDivisor /\ SmallLimit >= HorizonDivisor
  /\ TinyRecords \in Nat /\ Budgets \subseteq Nat \ {0}
  /\ Setup \in Nat /\ ScanPrice \in Nat \ {0} /\ ActionBound \in Nat \ {0}
  /\ Foldings \subseteq BOOLEAN /\ Foldings # {}
  /\ Openings \subseteq Nat /\ CarryBound \in Nat /\ Carries \subseteq 0..CarryBound
  /\ MaxAccepted \in Nat /\ MaxAcceptedAgain \in Nat /\ MaxRestarts \in Nat

State == Values \cup {NoValue}
Change == [key : Keys, value : State]
Batch == {b \in UNION {[1..n -> Change] : n \in 1..MaxBatch} :
            \A i, j \in DOMAIN b : b[i].key = b[j].key => i = j}

-----------------------------------------------------------------------------
\* Engines: a table of states, the native occurrences behind it, their mass.

Live(table) == Cardinality({k \in Keys : table[k] # NoValue})
NoRecords == [k \in Keys |-> 0]
NewEngine == [table |-> [k \in Keys |-> NoValue], records |-> NoRecords, mass |-> 0]
CleanEngine(table) == [table |-> table, mass |-> Live(table),
                       records |-> [k \in Keys |-> IF table[k] = NoValue THEN 0 ELSE 1]]

\* contribute_validated: a carry may fold the key's earlier occurrences.
Admitted(engine, change, folded) ==
  [table |-> [engine.table EXCEPT ![change.key] = change.value],
   records |-> [engine.records EXCEPT ![change.key] = IF folded THEN 1 ELSE @ + 1],
   mass |-> engine.mass + 1]

-----------------------------------------------------------------------------
\* Generations: a clean base, and the mutations of it that have history.

Trigger(base) == base \div HistoryDivisor
Horizon(live) == live \div HorizonDivisor

\* replacement_metadata::validate, of every snapshot published or restored.
Validates(s) ==
  /\ s.mass = s.base + s.mutations
  /\ Live(s.table) <= s.mass
  /\ s.base <= Live(s.table) + s.mutations
  /\ IF s.rebuilding
     THEN /\ s.base >= SmallLimit
          /\ s.mutations >= Trigger(s.base)
          /\ s.mutations - Trigger(s.base) <= Horizon(s.base + Trigger(s.base))
     ELSE IF s.base < SmallLimit
          THEN s.mutations = 0 /\ Live(s.table) = s.base
          ELSE s.mutations < Trigger(s.base)

-----------------------------------------------------------------------------
\* The rebuild of a frozen engine.

Physical(engine) == SumFunction(engine.records)

\* Mutant of Reservation: merges of the candidate are left out.
Reservation_unmaintained(live, physical, horizon, small) ==
  LET limit == live + IF small THEN 0 ELSE horizon
  IN  Setup + (physical + live + 1) * ScanPrice
      + live * ActionBound + limit * ActionBound
      + horizon * ActionBound + ActionBound

\* Everything that the rebuild may cost if `horizon` mutations intervene, but
\* for the replay actions themselves, which those mutations pay for.
Reservation(live, physical, horizon, small) ==
  LET limit == live + IF small THEN 0 ELSE horizon
  IN  Setup + (physical + live + 1) * ScanPrice
      + live * ActionBound
      + limit * CarryBound + limit * ActionBound   \* maintenance, and its fragments
      + horizon * ActionBound + ActionBound        \* outer fragments and the handoff

CeilingOf(a, b) == a \div b + IF a % b # 0 THEN 1 ELSE 0

\* start(small)
Rebuild(source, small, ordinal) ==
  LET live == Live(source.table)
      physical == Physical(source)
      horizon == IF small THEN 1 ELSE Horizon(live)
      bound == Reservation(live, physical, horizon, small)
  IN  [active |-> TRUE, eager |-> small,
       tiny |-> small /\ live <= SmallLimit /\ physical <= TinyRecords,
       frozen |-> source, frozen_ordinal |-> ordinal, live |-> live, horizon |-> horizon,
       bound |-> bound, quantum |-> CeilingOf(bound, horizon),
       credit |-> 0, committed |-> 0,
       admitted |-> 0, replayed |-> 0, rows |-> 0, queue |-> <<>>,
       built |-> FALSE,     \* candidate and scan exist
       building |-> TRUE,   \* the scan has not been checked
       left |-> source.records,   \* occurrences that the scan has not consumed
       row |-> {},                \* the key whose row the scan holds
       candidate |-> NewEngine, owed |-> 0, unready |-> FALSE]

NoJob == [active |-> FALSE]

ScanDone(j) == Physical([records |-> j.left]) = 0 /\ j.row = {}

\* price() of the next action.
Price(j) == IF j.tiny THEN j.bound
            ELSE IF ~j.built THEN Setup
            ELSE IF j.building /\ j.row = {} /\ ~ScanDone(j) THEN ScanPrice
            ELSE ActionBound

-----------------------------------------------------------------------------
VARIABLES
  foreground,  \* the engine readers and writers use
  due,         \* its restored merges wait for service: ~admission_ready()
  base,        \* base_
  mutations,   \* mutations_
  accepted,    \* work_.mutations
  job,         \* job_
  recovering,  \* recovering_
  published,   \* published_
  control,     \* the call being executed
  restarts     \* counts Restart

engineVars == <<foreground, due, base, mutations>>
vars == <<engineVars, accepted, job, recovering, published, control, restarts>>

Idle == [at |-> "idle", input |-> <<>>, left |-> <<>>]
Failed == [Idle EXCEPT !.at = "failed"]

Goto(place) == control' = [control EXCEPT !.at = place]

\* publication()
Publication == [table |-> foreground.table, records |-> foreground.records,
                mass |-> foreground.mass, base |-> base, mutations |-> mutations,
                rebuilding |-> job.active]

\* A new executor, or one opened on a clean table (from_clean).
Init == /\ \E table \in [Keys -> State] :
             Live(table) \in Openings /\ foreground = CleanEngine(table)
        /\ base = foreground.mass /\ mutations = 0 /\ accepted = 0 /\ due = FALSE
        /\ job = NoJob /\ recovering = FALSE
        /\ published = Publication
        /\ control = Idle /\ restarts = 0

-----------------------------------------------------------------------------
\* contribute(input): validation, then one entry after another.

Contribute(batch) ==
  /\ control.at = "idle" /\ ~due /\ ~recovering
  /\ accepted + Len(batch) <= IF restarts = 0 THEN MaxAccepted ELSE MaxAcceptedAgain
  /\ \A i \in DOMAIN batch : batch[i].value = NoValue => foreground.table[batch[i].key] # NoValue
  /\ control' = [at |-> "apply", input |-> batch, left |-> batch]
  /\ UNCHANGED <<engineVars, accepted, job, recovering, published, restarts>>

\* The first batch of a pristine table becomes its base at once.
InitializeSorted ==
  LET batch == control.input
  IN  /\ control.at = "apply" /\ control.left = batch /\ Len(batch) >= 2
      /\ base = 0 /\ mutations = 0 /\ accepted = 0 /\ ~job.active /\ foreground.mass = 0
      /\ foreground' = [table |-> [k \in Keys |->
                                     IF \E i \in DOMAIN batch : batch[i].key = k
                                     THEN batch[CHOOSE i \in DOMAIN batch : batch[i].key = k].value
                                     ELSE NoValue],
                        records |-> [k \in Keys |-> Cardinality({i \in DOMAIN batch : batch[i].key = k})],
                        mass |-> Len(batch)]
      /\ base' = Len(batch) /\ accepted' = Len(batch)
      /\ control' = [control EXCEPT !.at = "settle", !.left = <<>>]
      /\ UNCHANGED <<due, mutations, job, recovering, published, restarts>>

Entry == Head(control.left)

\* A fresh key in a clean generation leaves no history.
ExtendsClean == /\ ~job.active /\ mutations = 0
                /\ foreground.table[Entry.key] = NoValue /\ Entry.value # NoValue

\* The part of apply() that every entry goes through.
AdmitEntry(folded) ==
  /\ ~due
  /\ foreground' = Admitted(foreground, Entry, folded)
  /\ accepted' = accepted + 1
  /\ UNCHANGED <<due, recovering, published, restarts>>

ApplyClean(folded) ==
  /\ ExtendsClean /\ AdmitEntry(folded)
  /\ base' = base + 1
  /\ control' = [control EXCEPT !.at = "settle", !.left = Tail(@)]
  /\ UNCHANGED <<mutations, job>>

\* No rebuild is running; this entry may start one, and a small one runs now.
ApplyTriggering(folded) ==
  LET source == foreground'
      small == base < SmallLimit \/ Live(source.table) < SmallLimit
      started == Rebuild(source, small, accepted + 1)
  IN  /\ ~job.active /\ ~ExtendsClean /\ AdmitEntry(folded)
      /\ mutations' = mutations + 1
      /\ IF small
         THEN /\ job' = [started EXCEPT !.credit = started.bound]
              /\ control' = [control EXCEPT !.at = "service", !.left = Tail(@)]
         ELSE /\ job' = IF mutations + 1 >= Trigger(base) THEN started ELSE NoJob
              /\ control' = [control EXCEPT !.at = "settle", !.left = Tail(@)]
      /\ UNCHANGED base

\* Mutant of ApplyQueued: before the scan has begun the entry is not queued.
ApplyQueued_unopened(folded) ==
  /\ job.active /\ job.admitted < job.horizon /\ AdmitEntry(folded)
  /\ mutations' = mutations + 1
  /\ job' = [job EXCEPT !.queue = IF job.built THEN Append(@, [ordinal |-> accepted + 1, change |-> Entry])
                                  ELSE @,
                        !.admitted = @ + 1,
                        !.credit = @ + job.quantum + ActionBound]
  /\ control' = [control EXCEPT !.at = "service", !.left = Tail(@)]
  /\ UNCHANGED base

\* A rebuild is running: the entry is queued for replay and grants its share.
ApplyQueued(folded) ==
  /\ job.active /\ job.admitted < job.horizon /\ AdmitEntry(folded)
  /\ mutations' = mutations + 1
  /\ job' = [job EXCEPT !.queue = Append(@, [ordinal |-> accepted + 1, change |-> Entry]),
                        !.admitted = @ + 1,
                        !.credit = @ + job.quantum + ActionBound]
  /\ control' = [control EXCEPT !.at = "service", !.left = Tail(@)]
  /\ UNCHANGED base

\* "foreground exhausted its admission service", "rebuild deadline exhausted".
RefusesEntry == /\ control.at = "apply"
                /\ due \/ (job.active /\ job.admitted >= job.horizon)

ApplyEntry == \E folded \in Foldings :
                /\ control.at = "apply"
                /\ folded => foreground.records[Entry.key] > 0
                /\ ApplyClean(folded) \/ ApplyTriggering(folded) \/ ApplyQueued(folded)

Overdue == job.active /\ (job.eager \/ job.admitted >= job.horizon)

\* Mutant of NextEntry: each entry is published as it is applied.
NextEntry_published ==
  /\ control.at = "settle" /\ control.left # <<>>
  /\ ~Overdue
  /\ Goto("apply")
  /\ published' = Publication
  /\ UNCHANGED <<engineVars, accepted, job, recovering, restarts>>

\* After an entry: the next one, or the whole batch becomes visible.
NextEntry ==
  /\ control.at = "settle" /\ control.left # <<>>
  /\ ~Overdue
  /\ Goto("apply")
  /\ UNCHANGED <<engineVars, accepted, job, recovering, published, restarts>>

Publish ==
  /\ control.at = "settle" /\ control.left = <<>>
  /\ control.input # <<>> => ~Overdue
  /\ Validates(Publication)
  /\ published' = Publication
  /\ control' = Idle
  /\ UNCHANGED <<engineVars, accepted, job, recovering, restarts>>

\* "small rebuild did not finish", "missed funded handoff horizon", or what
\* validate() says of the snapshot.
RefusesSettlement ==
  /\ control.at = "settle"
  /\ \/ control.input # <<>> /\ Overdue
     \/ control.left = <<>> /\ ~Validates(Publication)

-----------------------------------------------------------------------------
\* advance(budget): the foreground's restored merges first, then the rebuild.

AdvanceForeground ==
  /\ control.at = "idle" /\ due
  /\ due' = FALSE
  /\ UNCHANGED <<foreground, base, mutations, accepted, job, recovering, published, control, restarts>>

\* Mutant of Advance: it waits for admission_ready(), which waits for it.
Advance_admitting(budget) ==
  /\ control.at = "idle" /\ ~due /\ ~recovering /\ job.active
  /\ job' = [job EXCEPT !.credit = @ + budget]
  /\ control' = [Idle EXCEPT !.at = "service"]
  /\ UNCHANGED <<engineVars, accepted, recovering, published, restarts>>

Advance(budget) ==
  /\ control.at = "idle" /\ ~due /\ job.active
  /\ job' = [job EXCEPT !.credit = @ + budget]
  /\ control' = [Idle EXCEPT !.at = "service"]
  /\ UNCHANGED <<engineVars, accepted, recovering, published, restarts>>

-----------------------------------------------------------------------------
\* service(): one paid action after another.

CanService == control.at = "service" /\ job.active /\ job.credit >= Price(job)
WithinBound == job.committed + Price(job) <= job.bound + job.admitted * ActionBound

Paid == [job EXCEPT !.credit = @ - Price(job), !.committed = @ + Price(job)]

\* An action on the candidate alone.
Serviced(j) == /\ CanService /\ WithinBound
               /\ job' = j
               /\ UNCHANGED <<engineVars, accepted, recovering, published, control, restarts>>

\* A full candidate leaves up to CarryBound of its merges unpaid, and may be
\* unready for the next record until some are.
AdmitToCandidate(change, j) ==
  \E folded \in Foldings, carry \in Carries, unready \in BOOLEAN :
    /\ folded => j.candidate.records[change.key] > 0
    /\ unready => carry > 0
    /\ Serviced([j EXCEPT !.candidate = Admitted(@, change, folded),
                          !.owed = @ + carry, !.unready = unready])

\* candidate->advance(action)
CandidateAdvance ==
  LET owed == IF job.owed > ActionBound THEN job.owed - ActionBound ELSE 0
  IN  /\ job.active /\ ~job.tiny /\ job.built
      /\ \/ job.unready /\ (job.row # {} \/ (~job.building /\ job.queue # <<>>))
         \/ ~job.building /\ job.queue = <<>> /\ job.owed > 0
      /\ \E unready \in BOOLEAN :
           /\ unready => job.unready /\ owed > 0
           /\ Serviced([Paid EXCEPT !.owed = owed, !.unready = unready])

OpenCandidate == /\ job.active /\ ~job.tiny /\ ~job.built
                 /\ Serviced([Paid EXCEPT !.built = TRUE])

\* step(1): the occurrences of one key, then its row if the key is present.
ScanOne ==
  /\ job.active /\ job.built /\ job.building /\ job.row = {}
  /\ \E k \in Keys :
       LET left == job.left[k] IN
       /\ left > 0
       /\ left = job.frozen.records[k] =>
            \A other \in Keys : job.left[other] \in {0, job.frozen.records[other]}
       /\ Serviced([Paid EXCEPT
            !.left[k] = left - 1,
            !.row = IF left = 1 /\ job.frozen.table[k] # NoValue THEN {k} ELSE {}])

\* The row becomes a clean arrow of the candidate.
CopyRow ==
  /\ job.active /\ job.built /\ job.building /\ ~job.unready
  /\ \E k \in job.row :
       AdmitToCandidate([key |-> k, value |-> job.frozen.table[k]],
                        [Paid EXCEPT !.row = {}, !.rows = @ + 1])

\* "clean rebuild differs from frozen source"
ScanIsExact == /\ job.rows = job.live /\ job.candidate.mass = job.live
               /\ job.candidate.table = job.frozen.table
FinishScan ==
  /\ job.active /\ job.built /\ job.building /\ ScanDone(job) /\ ScanIsExact
  /\ Serviced([Paid EXCEPT !.building = FALSE])

\* "rebuild replay order changed"
ReplayInOrder == Head(job.queue).ordinal = job.frozen_ordinal + job.replayed + 1
Replay ==
  /\ job.active /\ job.built /\ ~job.building /\ ~job.unready /\ job.queue # <<>>
  /\ ReplayInOrder
  /\ AdmitToCandidate(Head(job.queue).change,
                      [Paid EXCEPT !.queue = Tail(@), !.replayed = @ + 1])

\* "rebuild handoff differs from foreground"
HandoffIsExact == /\ job.replayed = job.admitted
                  /\ job.candidate.mass = job.live + job.replayed
                  /\ job.candidate.table = foreground.table

Settled == job.built /\ ~job.building /\ job.queue = <<>> /\ job.owed = 0

Install(engine, replayed) ==
  /\ foreground' = engine
  /\ base' = job.live /\ mutations' = replayed
  /\ job' = NoJob /\ recovering' = FALSE
  /\ UNCHANGED <<due, accepted, published, control, restarts>>

Handoff == /\ CanService /\ WithinBound /\ ~job.tiny /\ Settled /\ HandoffIsExact
           /\ Install(job.candidate, job.replayed)

\* tiny_rebuild(): the whole of a small rebuild, as one action.
TinyIsExact == /\ job.queue = <<>> /\ job.admitted = 0
               /\ job.frozen.table = foreground.table
TinyRebuild ==
  /\ CanService /\ WithinBound /\ job.tiny /\ TinyIsExact
  /\ Install(CleanEngine(job.frozen.table), 0)

\* "rebuild exceeded its reserved work bound", and the checks above.
RefusesService ==
  /\ CanService
  /\ \/ ~WithinBound
     \/ job.tiny /\ ~TinyIsExact
     \/ ~job.tiny /\ job.built /\ job.building /\ ScanDone(job) /\ ~ScanIsExact
     \/ ~job.tiny /\ job.built /\ ~job.building /\ job.queue # <<>> /\ ~ReplayInOrder
     \/ ~job.tiny /\ Settled /\ ~HandoffIsExact

\* The credit does not reach the next action, or the rebuild is over.
EndService == /\ control.at = "service" /\ ~CanService
              /\ Goto("settle")
              /\ UNCHANGED <<engineVars, accepted, job, recovering, published, restarts>>

Service == \/ OpenCandidate \/ ScanOne \/ CopyRow \/ FinishScan \/ Replay
           \/ CandidateAdvance \/ Handoff \/ TinyRebuild \/ EndService

-----------------------------------------------------------------------------
\* An exception, from storage or from a check, poisons the executor; a restart restores what was
\* published, and a rebuild that was active begins again before any write.

Fail == /\ control.at \in {"apply", "service"}
        /\ control' = Failed
        /\ UNCHANGED <<engineVars, accepted, job, recovering, published, restarts>>

Restart ==
  LET engine == [table |-> published.table, records |-> published.records, mass |-> published.mass]
  IN  /\ restarts < MaxRestarts
      /\ restarts' = restarts + 1
      /\ foreground' = engine /\ due' \in BOOLEAN
      /\ base' = published.base /\ mutations' = published.mutations
      /\ accepted' = 0
      /\ recovering' = published.rebuilding
      /\ job' = IF published.rebuilding THEN Rebuild(engine, TRUE, 0) ELSE NoJob
      /\ control' = Idle
      /\ UNCHANGED published

Working == \/ InitializeSorted \/ ApplyEntry
           \/ NextEntry \/ Publish \/ Service

Next == \/ \E batch \in Batch : Contribute(batch)
        \/ AdvanceForeground
        \/ \E budget \in Budgets : Advance(budget)
        \/ Working
        \/ Fail
        \/ Restart

Spec == Init /\ [][Next]_vars

\* A call that runs goes on, and the session's worker serves while pending().
Fairness == /\ WF_vars(Working)
            /\ WF_vars(AdvanceForeground)
            /\ WF_vars(\E budget \in Budgets : Advance(budget))

FairSpec == Spec /\ Fairness
-----------------------------------------------------------------------------
\* Properties.

\* None of the executor's own checks ever fires: the reserved bound covers
\* every action of a rebuild, its deadline is never missed, the counts and the
\* tables agree at the end of the scan and at the handoff, and every snapshot
\* it publishes is one it would restore (the require()s of
\* replacement_rebuild.h:408-448, 632-698 and validate).
NeverRefuses ==
  /\ ~RefusesEntry /\ ~RefusesSettlement /\ ~RefusesService
  /\ foreground.mass = base + mutations

Changes(queue, table) ==
  [k \in Keys |-> LET hits == {i \in DOMAIN queue : queue[i].change.key = k}
                  IN  IF hits = {} THEN table[k]
                      ELSE queue[CHOOSE i \in hits : \A h \in hits : h <= i].change.value]

\* At any moment of a rebuild the candidate, what the scan has not yet handed
\* to it and the queue make up the foreground: no write is lost or applied out
\* of order whenever it comes (service() and apply()).
CandidateCatchesUp ==
  job.active /\ job.built /\ control.at # "apply" =>
    LET scanned == [k \in Keys |-> IF job.left[k] > 0 \/ k \in job.row
                                   THEN job.frozen.table[k] ELSE job.candidate.table[k]]
    IN  Changes(job.queue, scanned) = foreground.table

\* Obsolete records stay a bounded share of the generation, at every step: the
\* mutations that trigger a rebuild and those that fit before its horizon, and
\* each of them leaves at most two (apply(), the quote in reservation_work and
\* replacement-rebuild.md, "Generations and admission").
HistoryIsBounded ==
  /\ mutations <= IF base < SmallLimit THEN 1
                  ELSE Trigger(base) + Horizon(base + Trigger(base))
  /\ foreground.mass - Live(foreground.table) <= 2 * mutations

(* A rebuild keeps up: its candidate is the foreground but for the writes still
   queued, and its handoff resets the history that the trigger counts.      *)
CandidateKeepsUp == CandidateCatchesUp /\ HistoryIsBounded

Table == INSTANCE AtomicTable WITH
  table <- published.table,
  asked <- IF control.at \in {"apply", "service", "settle"} THEN control.input ELSE <<>>

\* Readers see whole batches, and neither a rebuild, its handoff, a failure nor
\* a restart changes what they read (contribute, advance, from_snapshot).
ImplementsTable == Table!Spec

\* Idle service finishes a rebuild even if writes stop, and a restored table
\* admits writes again (advance, initialize_restore).
RebuildsFinish == job.active ~> ~job.active \/ control.at = "failed"

-----------------------------------------------------------------------------
\* Keys are only compared: a symmetry.
Interchangeable == Permutations(Keys)
=============================================================================
