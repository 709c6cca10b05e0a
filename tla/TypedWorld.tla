----------------------------- MODULE TypedWorld -----------------------------
(***************************************************************************)
(* The typed engine (typed_world.h): a table of sorted keys whose records   *)
(* are arrows, changed by contributions that were prepared on an earlier    *)
(* snapshot, directly or by a scan (typed_scan.h, native_sweep.h), and are  *)
(* admitted only if that snapshot's values still hold.  A record's arrow    *)
(* is s -> (mult * s + add) % 3; a replacement has mult = 0 and a state of  *)
(* 0 is an absent key.                                                     *)
(*                                                                         *)
(* A runtime is its native runs, oldest first, and the identity of its      *)
(* layout; module RedundantRuntime is what is inside one.  Prefix limits of *)
(* tombstones are in module NativeMerge.                                   *)
(***************************************************************************)
EXTENDS Integers, Sequences, FiniteSets, FiniteSetsExt, SequencesExt

CONSTANTS
  TypedKeys,     \* 1..n, in the order of their encodings
  SortOf,        \* each key's sort; the keys of a sort follow one another
  Replacement,   \* the sorts that are replacements
  ArrowsOf,      \* the arrows of each key that occur
  KeyHashes, ValueHashes, SignatureModulus,
  MaxRecords,    \* admissions (a bound of the model)
  MaxLayouts     \* layouts (a bound of the model)

VARIABLES
  world,       \* current_
  held,        \* a contribution that was prepared and not submitted, or NoInput
  engineFailed, \* failed_
  verdict      \* history: the last submission, what it met and whether it was admitted
typedVars == <<world, held, engineFailed, verdict>>

-----------------------------------------------------------------------------
\* Arrows and states.

Initially == 0
Applied(state, arrow) == (arrow.mult * state + arrow.add) % 3
Composed(older, newer) == [mult |-> (newer.mult * older.mult) % 3,
                           add |-> (newer.mult * older.add + newer.add) % 3]
Present(state) == state # 0
Erase == [mult |-> 0, add |-> 0]
Replaces(k) == SortOf[k] \in Replacement

-----------------------------------------------------------------------------
\* Runs and worlds.

Holding(runs, k) == {i \in DOMAIN runs : k \in DOMAIN runs[i]}

\* A replacement is its newest record, any other state the fold of all of them.
get_encoded(runs, k) ==
  IF Replaces(k)
  THEN IF Holding(runs, k) = {} THEN Initially ELSE Applied(Initially, runs[Max(Holding(runs, k))][k])
  ELSE FoldLeft(LAMBDA s, i : IF k \in DOMAIN runs[i] THEN Applied(s, runs[i][k]) ELSE s,
                Initially, [i \in DOMAIN runs |-> i])

Contents(w) == [k \in TypedKeys |-> get_encoded(w.runs, k)]

Singleton(record) == [k \in {record.key} |-> record.arrow]
Sorted(records) == [k \in {records[i].key : i \in DOMAIN records} |->
                      records[CHOOSE i \in DOMAIN records : records[i].key = k].arrow]

MergedRuns(older, newer) ==
  [k \in DOMAIN older \cup DOMAIN newer |->
     IF k \notin DOMAIN older THEN newer[k] ELSE IF k \notin DOMAIN newer THEN older[k] ELSE Composed(older[k], newer[k])]
MergedAt(runs, i) ==
  SubSeq(runs, 1, i - 1) \o <<MergedRuns(runs[i], runs[i + 1])>> \o SubSeq(runs, i + 2, Len(runs))
Serviced(runs) == {MergedAt(runs, i) : i \in 1..(Len(runs) - 1)}

World(runs, layout, admissions, signature, live) ==
  [runs |-> runs, layout |-> layout, admissions |-> admissions, signature |-> signature, live |-> live]
same_layout(a, b) == a.layout = b.layout

HashOf(state) == IF Present(state) THEN ValueHashes[state] ELSE 0

\* delta: the signature and live count after one key's state changed.
delta(metadata, k, old, next) ==
  [signature |-> (metadata.signature + KeyHashes[k] * (HashOf(next) - HashOf(old))) % SignatureModulus,
   live |-> metadata.live + (IF Present(next) THEN 1 ELSE 0) - (IF Present(old) THEN 1 ELSE 0)]

-----------------------------------------------------------------------------
\* Scans: the runs' records from a lower bound on, by key and then by age.

Swept(runs, lower) ==
  SetToSortSeq({<<k, i>> \in (TypedKeys \X DOMAIN runs) : k >= lower /\ k \in DOMAIN runs[i]},
               LAMBDA x, y : x[1] < y[1] \/ (x[1] = y[1] /\ x[2] < y[2]))

KeysOf(sort) == {k \in TypedKeys : SortOf[k] = sort}
NoGroup == [key |-> 0, state |-> Initially]

\* A scan of the sort's keys in [lo, hi); a bound of 0 is open.
Scan(w, sort, lo, hi) ==
  [snapshot |-> w, sort |-> sort, lower |-> lo, upper |-> hi,
   left |-> IF lo # 0 /\ lo = hi THEN <<>> ELSE Swept(w.runs, IF lo # 0 THEN lo ELSE Min(KeysOf(sort))),
   group |-> NoGroup, last |-> Erase, row |-> NoGroup, group_key |-> 0, finished |-> lo # 0 /\ lo = hi]
HasRow(scan) == scan.row # NoGroup

\* finish_group: a key that is present is a row.
finish_group(scan) ==
  LET state == IF scan.sort \in Replacement THEN Applied(scan.group.state, scan.last) ELSE scan.group.state
  IN  IF scan.group = NoGroup THEN scan
      ELSE [scan EXCEPT !.group = NoGroup,
                        !.row = IF Present(state) THEN [key |-> scan.group.key, state |-> state] ELSE @]

Beyond(scan, k) == (scan.upper # 0 /\ k >= scan.upper) \/ SortOf[k] # scan.sort

\* The record at hand joins the group of its key, which may be a new one.
Consumed(scan) ==
  LET k == Head(scan.left)[1]
      arrow == scan.snapshot.runs[Head(scan.left)[2]][k]
      opened == IF scan.group = NoGroup THEN [key |-> k, state |-> Initially] ELSE scan.group
      next == [scan EXCEPT !.left = Tail(@), !.group_key = k,
                 !.last = IF scan.sort \in Replacement THEN arrow ELSE @,
                 !.group = IF scan.sort \in Replacement THEN opened
                           ELSE [opened EXCEPT !.state = Applied(@, arrow)]]
      closed == IF next.left = <<>> \/ Head(next.left)[1] # k THEN finish_group(next) ELSE next
  IN  [closed EXCEPT !.finished = next.left = <<>>]

scan_step(scan) ==
  CASE scan.finished \/ HasRow(scan) -> scan
    [] ~scan.finished /\ ~HasRow(scan) /\ scan.left = <<>> -> [finish_group(scan) EXCEPT !.finished = TRUE]
    [] ~scan.finished /\ ~HasRow(scan) /\ scan.left # <<>> /\ scan.group = NoGroup /\ Beyond(scan, Head(scan.left)[1]) ->
         [scan EXCEPT !.finished = TRUE]
    [] OTHER -> Consumed(scan)

\* The scan stopped at its next row, or at its end.
Settled(scan) == FoldLeft(LAMBDA c, i : scan_step(c), scan, [i \in 1..(Len(scan.left) + 1) |-> i])
take_row(scan) == [scan EXCEPT !.row = NoGroup]

Drained(scan) ==
  FoldLeft(LAMBDA c, i : LET next == Settled(c.scan) IN
                         IF HasRow(next) THEN [scan |-> take_row(next), rows |-> Append(c.rows, next)] ELSE [c EXCEPT !.scan = next],
           [scan |-> scan, rows |-> <<>>], [i \in 1..(Len(scan.left) + 1) |-> i]).rows
Rows(scan) == [i \in DOMAIN Drained(scan) |-> Drained(scan)[i].row]

-----------------------------------------------------------------------------
\* Contributions.

NoInput == [base |-> <<>>, records |-> <<>>, observed |-> <<>>]
Change(k, arrow) == [key |-> k, arrow |-> arrow]
Changes == UNION {{Change(k, a) : a \in ArrowsOf[k]} : k \in TypedKeys}

\* finish of a batch: sorted by key, no key twice.
Batches == {<<c>> : c \in Changes} \cup {<<c, d>> : c, d \in Changes}
BatchesInOrder == {b \in Batches : \A i, j \in DOMAIN b : i < j => b[i].key < b[j].key}

\* erase refuses a key its base does not have.
Admissible(w, records) ==
  \A i \in DOMAIN records :
    Replaces(records[i].key) /\ records[i].arrow = Erase => Present(get_encoded(w.runs, records[i].key))

\* erase_remaining: every row not yet returned, with the record it was resolved from.
erase_remaining(scan, taken) ==
  LET rows == SubSeq(Drained(scan), taken + 1, Len(Drained(scan)))
  IN  [base |-> <<scan.snapshot>>,
       records |-> [i \in DOMAIN rows |-> Change(rows[i].group_key, Erase)],
       observed |-> [i \in DOMAIN rows |-> rows[i].last]]

-----------------------------------------------------------------------------
\* visit_changes: the complete validation, before anything is changed.

Observes(input) == input.observed # <<>>
Based(input) == input.base # <<>>
SameLayout(input) == Observes(input) /\ same_layout(input.base[1], world)

OldState(input, i) ==
  LET k == input.records[i].key IN
  IF SameLayout(input) THEN Applied(Initially, input.observed[i]) ELSE get_encoded(world.runs, k)

\* Mutant of Stale: a range contribution trusts what it observed.
Stale_trusting(input, i) ==
  ~Observes(input) /\ Based(input)
    /\ OldState(input, i) # get_encoded(input.base[1].runs, input.records[i].key)

Stale(input, i) ==
  LET old == OldState(input, i) IN
  \/ Observes(input) /\ ~SameLayout(input) /\ old # Applied(Initially, input.observed[i])
  \/ ~Observes(input) /\ Based(input) /\ old # get_encoded(input.base[1].runs, input.records[i].key)

NextState(input, i) ==
  LET r == input.records[i] IN
  Applied(IF Replaces(r.key) THEN Initially ELSE OldState(input, i), r.arrow)

DeletesAbsent(input, i) ==
  Replaces(input.records[i].key) /\ ~Present(OldState(input, i)) /\ ~Present(NextState(input, i))

Refused(input) == \E i \in DOMAIN input.records : Stale(input, i) \/ DeletesAbsent(input, i)

prepare(input) ==
  FoldLeft(LAMBDA m, i : delta(m, input.records[i].key, OldState(input, i), NextState(input, i)),
           [signature |-> world.signature, live |-> world.live], [i \in DOMAIN input.records |-> i])

-----------------------------------------------------------------------------
\* Execution.

\* initialize: the largest power of two of the first batch is one sorted run.
BitFloor(n) == IF n >= 4 THEN 4 ELSE IF n >= 2 THEN 2 ELSE n
InitialRuns(records) ==
  IF Len(records) >= 2 /\ world.admissions = 0
  THEN {<<Sorted(SubSeq(records, 1, BitFloor(Len(records))))>>
          \o [i \in 1..(Len(records) - BitFloor(Len(records))) |-> Singleton(records[BitFloor(Len(records)) + i])]}
  ELSE {}

\* complete: each record becomes a run, and its service may merge others.
CompletedRuns(records) ==
  LET all == world.runs \o [i \in DOMAIN records |-> Singleton(records[i])]
  IN  {all} \cup Serviced(all)

TypedInit ==
  /\ world = World(<<>>, 0, 0, 0, 0)
  /\ held = NoInput /\ engineFailed = FALSE /\ verdict = <<>>

\* A caller takes a snapshot, reads it and prepares its changes.
PrepareBatch ==
  \E records \in BatchesInOrder :
    /\ held = NoInput /\ Admissible(world, records)
    /\ held' = [base |-> <<world>>, records |-> records, observed |-> <<>>]
    /\ verdict' = <<>> /\ UNCHANGED <<world, engineFailed>>

PrepareErasure ==
  \E sort \in Replacement : \E lo, hi \in KeysOf(sort) \cup {0}, taken \in 0..1 :
    /\ held = NoInput /\ (hi # 0 => lo <= hi)
    /\ LET scan == Scan(world, sort, lo, hi) IN
       /\ taken <= Len(Drained(scan))
       /\ held' = erase_remaining(scan, taken)
    /\ held' # NoInput
    /\ verdict' = <<>> /\ UNCHANGED <<world, engineFailed>>

contribute(input) ==
  /\ ~engineFailed
  /\ world.admissions + Len(input.records) <= MaxRecords /\ world.layout < MaxLayouts
  /\ verdict' = <<[based |-> IF Based(input) THEN Contents(input.base[1]) ELSE Contents(world),
                   changes |-> Sorted(input.records), before |-> Contents(world), refused |-> Refused(input)]>>
  /\ IF Refused(input) \/ input.records = <<>>
     THEN UNCHANGED <<world, engineFailed>>
     ELSE LET metadata == prepare(input) IN
          \/ /\ \E runs \in CompletedRuns(input.records) \cup InitialRuns(input.records) :
                  world' = World(runs, world.layout + 1, world.admissions + Len(input.records),
                                 metadata.signature, metadata.live)
             /\ UNCHANGED engineFailed
          \/ engineFailed' = TRUE /\ UNCHANGED world   \* complete threw: poisoned, nothing published

Submit == held # NoInput /\ contribute(held) /\ held' = NoInput

\* engine.change: no base, whatever the table holds.
ContributeBlindly == \E c \in Changes : contribute([NoInput EXCEPT !.records = <<c>>]) /\ UNCHANGED held

\* advance, or rebase onto an equivalent layout.
Republish ==
  /\ ~engineFailed /\ world.layout < MaxLayouts
  /\ \E runs \in Serviced(world.runs) \cup {world.runs} :
       world' = [world EXCEPT !.runs = runs, !.layout = @ + 1]
  /\ UNCHANGED <<held, engineFailed, verdict>>

TypedNext == PrepareBatch \/ PrepareErasure \/ Submit \/ ContributeBlindly \/ Republish

-----------------------------------------------------------------------------
\* Properties.

Live(w) == {k \in TypedKeys : Present(Contents(w)[k])}

\* A world's metadata is that of its contents, whatever was merged.
MetadataIsExact ==
  /\ world.live = Cardinality(Live(world))
  /\ world.signature = MapThenSumSet(LAMBDA k : KeyHashes[k] * HashOf(Contents(world)[k]), TypedKeys) % SignatureModulus

\* Scans of every sort and range return the present keys with their states, in order.
ScansAreExact ==
  \A sort \in {SortOf[k] : k \in TypedKeys} : \A lo, hi \in KeysOf(sort) \cup {0} :
    (hi # 0 => lo <= hi) =>
      LET keys == {k \in Live(world) \cap KeysOf(sort) : k >= lo /\ (hi # 0 => k < hi)} IN
      Rows(Scan(world, sort, lo, hi)) =
        [i \in 1..Cardinality(keys) |->
           LET k == SetToSortSeq(keys, <)[i] IN [key |-> k, state |-> Contents(world)[k]]]

\* A contribution is refused exactly if a value it was prepared on has changed, or if
\* it would delete what is not there; admitted, it is the change of what it read.
ValidationIsExact ==
  verdict # <<>> =>
    LET v == verdict[1]
        keys == DOMAIN v.changes
        after == [k \in TypedKeys |-> IF k \in keys THEN Applied(v.before[k], v.changes[k]) ELSE v.before[k]]
        stale == {k \in keys : v.before[k] # v.based[k]}
        absent == {k \in keys : Replaces(k) /\ ~Present(v.before[k]) /\ ~Present(after[k])}
    IN  /\ v.refused <=> stale \cup absent # {}
        /\ Contents(world) = IF v.refused \/ engineFailed THEN v.before ELSE after

TypedWorldsAreExact == MetadataIsExact /\ ScansAreExact /\ ValidationIsExact
=============================================================================
