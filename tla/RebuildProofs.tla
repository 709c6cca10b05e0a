--------------------------- MODULE RebuildProofs ---------------------------
(***************************************************************************)
(* Proofs about the replacement rebuild, for any tables, prices and        *)
(* limits; in the last parts, about the root that a merge publishes, the   *)
(* charges of an output budget and the convergence of a round of batches.  *)
(*                                                                         *)
(* The argument that no check of the executor ever fires is one of         *)
(* amortised cost.  What a rebuild may still have to pay, Remaining, and   *)
(* what it has paid stay within what was reserved and granted; each write  *)
(* grants its share, so that at the horizon everything is granted; and a   *)
(* service that stops has run out of credit, so it has stopped before the  *)
(* horizon or at the end.                                                  *)
(***************************************************************************)
EXTENDS ReplacementRebuild, MergeOutputs, PartitionRound, DataLemmas

Engines == [table : [Keys -> State], records : [Keys -> Nat], mass : Nat]
Snapshots == [table : [Keys -> State], records : [Keys -> Nat], mass : Nat,
              base : Nat, mutations : Nat, rebuilding : BOOLEAN]

Entries == [ordinal : Nat, change : Change]
Jobs == [active : {TRUE}, eager : BOOLEAN, tiny : BOOLEAN,
         frozen : Engines, frozen_ordinal : Nat, live : Nat, horizon : Nat,
         bound : Nat, quantum : Nat, credit : Nat, committed : Nat,
         admitted : Nat, replayed : Nat, rows : Nat, queue : Seq(Entries),
         built : BOOLEAN, building : BOOLEAN, left : [Keys -> Nat], row : SUBSET Keys,
         candidate : Engines, owed : Nat, unready : BOOLEAN]

Controls == [at : {"idle", "apply", "settle", "service", "failed"},
             input : Seq(Change), left : Seq(Change)]

TypeOK ==
  /\ foreground \in Engines /\ due \in BOOLEAN
  /\ base \in Nat /\ mutations \in Nat /\ accepted \in Nat
  /\ job = NoJob \/ job \in Jobs
  /\ recovering \in BOOLEAN /\ published \in Snapshots
  /\ control \in Controls /\ restarts \in Nat

\* A key that is present has an occurrence.
EngineIsSound(e) ==
  /\ Live(e.table) <= e.mass
  /\ \A k \in Keys : e.table[k] # NoValue => e.records[k] > 0

\* Where the call stands, and which rebuilds may be found there.
ControlIsSound ==
  /\ control.input \in Batch \cup {<<>>}
  /\ control.input = <<>> => control.left = <<>>
  /\ control.at \in {"idle", "failed"} => control.input = <<>>
  /\ control.at = "apply" => control.left # <<>>
  /\ control.at \in {"apply", "service", "settle"} => ~due
  /\ control.input # <<>> => ~recovering
  /\ recovering => job.active /\ job.eager
  /\ job.active /\ control.at \in {"idle", "apply", "settle"} =>
       IF job.eager THEN recovering ELSE job.admitted < job.horizon

\* The first entries of the batch are in the foreground and no others.
BatchIsApplied ==
  LET b == control.input
      n == Len(b) - Len(control.left)
      old == published.table
      new == foreground.table
  IN  /\ n >= 0
      /\ \A i \in 1..Len(control.left) : control.left[i] = b[n + i]
      /\ \A i \in 1..Len(b) : b[i].value = NoValue => old[b[i].key] # NoValue
      /\ control.at # "failed" =>
           /\ \A i \in 1..n : new[b[i].key] = b[i].value
           /\ \A k \in Keys : (\A i \in 1..n : b[i].key # k) => new[k] = old[k]

\* What the generation's counts say, with and without a rebuild.
GenerationIsSound ==
  /\ foreground.mass = base + mutations
  /\ base <= Live(foreground.table) + mutations
  /\ ~job.active =>
       IF base < SmallLimit THEN mutations = 0 /\ Live(foreground.table) = base
                            ELSE mutations < Trigger(base)
  /\ job.active =>
       /\ IF base < SmallLimit THEN mutations = 1 /\ job.eager /\ ~recovering
                               ELSE mutations <= Trigger(base) + Horizon(base + Trigger(base))
       /\ recovering => mutations >= Trigger(base)
       /\ ~job.eager => mutations = Trigger(base) + job.admitted /\ job.live <= base + Trigger(base)

\* What was fixed at the freeze.
FreezeIsSound(j) ==
  /\ EngineIsSound(j.frozen) /\ j.live = Live(j.frozen.table)
  /\ j.horizon = IF j.eager THEN 1 ELSE Horizon(j.live)
  /\ j.horizon > 0 /\ (~j.eager => j.live >= SmallLimit)
  /\ j.bound = Reservation(j.live, Physical(j.frozen), j.horizon, j.eager)
  /\ j.quantum = CeilingOf(j.bound, j.horizon)
  /\ j.tiny => j.eager /\ ~j.built /\ j.committed = 0

\* The keys whose rows the candidate has, and the table it makes up with the
\* rows that the scan has not handed to it.
Copied(j) == {k \in Keys : j.frozen.table[k] # NoValue /\ j.left[k] = 0 /\ k \notin j.row}
Scanned(j) == [k \in Keys |-> IF j.left[k] > 0 \/ k \in j.row THEN j.frozen.table[k]
                                                              ELSE j.candidate.table[k]]

ScanIsSound(j) ==
  /\ EngineIsSound(j.candidate) /\ j.candidate.mass = j.rows + j.replayed
  /\ \A k \in Keys : j.left[k] <= j.frozen.records[k]
  /\ \A k \in j.row : j.row = {k} /\ j.left[k] = 0 /\ j.frozen.table[k] # NoValue
  /\ j.rows = Cardinality(Copied(j))
  /\ j.building => j.replayed = 0 /\ \A k \in Keys :
                     j.candidate.table[k] = IF k \in Copied(j) THEN j.frozen.table[k] ELSE NoValue
  /\ ~j.building => j.row = {} /\ \A k \in Keys : j.left[k] = 0
  /\ ~j.built => j.building /\ j.row = {} /\ j.left = j.frozen.records

\* The queue is what was admitted and not yet replayed, and closes the gap.
QueueIsSound(j) ==
  /\ Len(j.queue) = j.admitted - j.replayed
  /\ accepted = j.frozen_ordinal + j.admitted
  /\ \A i \in 1..Len(j.queue) : j.queue[i].ordinal = j.frozen_ordinal + j.replayed + i
  /\ j.admitted <= j.horizon
  /\ j.eager => j.admitted = 0 /\ foreground.table = j.frozen.table
  /\ Changes(j.queue, Scanned(j)) = foreground.table
  /\ j.live <= Live(foreground.table) + j.admitted

\* What is left to pay: to open the candidate, for p occurrences to scan, for
\* the scan's check, for n records to read, for z records that the candidate
\* may still take with their merges, for merges owed, and for the handoff.
Opening(j) == IF j.built THEN 0 ELSE Setup
Scanning(p) == p * ScanPrice
Checking(j) == IF j.building THEN ActionBound ELSE 0
Reading(n) == n * ActionBound
Taking(z) == z * (CarryBound + ActionBound)
Owing(m) == m + IF m > 0 THEN ActionBound ELSE 0

RowLimit(j) == j.live + IF j.eager THEN 0 ELSE j.horizon
Remaining(j) == Opening(j) + Scanning(Physical([records |-> j.left])) + Checking(j)
                + Reading(j.live - j.rows) + Reading(j.admitted - j.replayed)
                + Taking(RowLimit(j) - j.rows - j.replayed) + Owing(j.owed) + ActionBound

WorkIsBounded(j) ==
  /\ j.unready => j.owed > 0
  /\ ~j.tiny => j.committed + Remaining(j) <= j.bound + j.admitted * ActionBound

\* What was granted reaches what is reserved at the horizon, or at once.
GrantsSuffice(j) ==
  /\ ~j.eager => j.credit + j.committed >= j.admitted * (j.quantum + ActionBound)
  /\ j.eager /\ ~recovering => j.credit + j.committed >= j.bound

JobIsSound(j) ==
  FreezeIsSound(j) /\ ScanIsSound(j) /\ QueueIsSound(j) /\ WorkIsBounded(j) /\ GrantsSuffice(j)

IInv ==
  /\ TypeOK
  /\ EngineIsSound(foreground) /\ EngineIsSound(published) /\ Validates(published)
  /\ ControlIsSound /\ BatchIsApplied /\ GenerationIsSound
  /\ job.active => JobIsSound(job)

-----------------------------------------------------------------------------
(***************************************************************************)
(* Sums, tables and divisions.                                             *)
(***************************************************************************)

\* The physical records of an engine, and of the scan's rest of it.
LEMMA PhysicalFacts ==
  ASSUME RebuildAssumption, NEW f \in [Keys -> Nat]
  PROVE  /\ Physical([records |-> f]) \in Nat
         /\ Physical([records |-> f]) = 0 <=> \A k \in Keys : f[k] = 0
         /\ \A k \in Keys : f[k] > 0 =>
              Physical([records |-> [f EXCEPT ![k] = f[k] - 1]]) = Physical([records |-> f]) - 1
<1>1. IsFiniteSet(Keys)
  BY DEF RebuildAssumption
<1>2. \A g \in [Keys -> Nat] : Physical([records |-> g]) = Total(g, Keys)
  BY <1>1, SumIsTotal DEF Physical
<1>3. Physical([records |-> f]) \in Nat
  BY <1>1, <1>2, TotalType
<1>4. Physical([records |-> f]) = 0 <=> \A k \in Keys : f[k] = 0
  BY <1>1, <1>2, TotalZero
<1>5. ASSUME NEW k \in Keys, f[k] > 0
      PROVE  Physical([records |-> [f EXCEPT ![k] = f[k] - 1]]) = Physical([records |-> f]) - 1
  <2> DEFINE g == [f EXCEPT ![k] = f[k] - 1]
  <2>1. g \in [Keys -> Nat] /\ f[k] \in Nat
    BY <1>5
  <2>2. g[k] = f[k] - 1 /\ \A x \in Keys \ {k} : f[x] = g[x]
    OBVIOUS
  <2> HIDE DEF g
  <2>3. Total(g, Keys) = Total(f, Keys) - f[k] + g[k] /\ Total(f, Keys) \in Nat
    BY <1>1, <2>1, <2>2, TotalChange
  <2>4. Total(g, Keys) = Total(f, Keys) - 1
    BY <2>1, <2>2, <2>3
  <2>5. Physical([records |-> g]) = Physical([records |-> f]) - 1
    BY <1>2, <2>1, <2>4
  <2> QED BY <2>5 DEF g
<1> QED BY <1>3, <1>4, <1>5

\* One change adds or removes at most one live record.
LEMMA LiveFacts ==
  ASSUME RebuildAssumption, NEW t \in [Keys -> State]
  PROVE  /\ Live(t) \in Nat
         /\ Live(t) = 0 <=> \A k \in Keys : t[k] = NoValue
         /\ \A k \in Keys, v \in State :
              /\ Live([t EXCEPT ![k] = v]) \in (Live(t) - 1)..(Live(t) + 1)
              /\ t[k] = NoValue /\ v # NoValue => Live([t EXCEPT ![k] = v]) = Live(t) + 1
<1>1. IsFiniteSet(Keys)
  BY DEF RebuildAssumption
<1> DEFINE Present(s) == {k \in Keys : s[k] # NoValue}
<1>2. \A s \in [Keys -> State] : IsFiniteSet(Present(s)) /\ Live(s) = Cardinality(Present(s))
                                 /\ Live(s) \in Nat
  BY <1>1, FS_Subset, FS_CardinalityType DEF Live
<1>3. Live(t) = 0 <=> \A k \in Keys : t[k] = NoValue
  <2>1. Cardinality(Present(t)) = 0 <=> Present(t) = {}
    BY <1>2, FS_EmptySet
  <2> QED BY <1>2, <2>1
<1>4. ASSUME NEW k \in Keys, NEW v \in State
      PROVE  /\ Live([t EXCEPT ![k] = v]) \in (Live(t) - 1)..(Live(t) + 1)
             /\ t[k] = NoValue /\ v # NoValue => Live([t EXCEPT ![k] = v]) = Live(t) + 1
  <2> DEFINE s == [t EXCEPT ![k] = v]
  <2>1. /\ s \in [Keys -> State] /\ s[k] = v /\ \A x \in Keys \ {k} : s[x] = t[x]
        /\ Live(t) = Cardinality(Present(t)) /\ Live(s) = Cardinality(Present(s))
        /\ IsFiniteSet(Present(t)) /\ Live(t) \in Nat /\ Live(s) \in Nat
    BY <1>2
  <2> HIDE DEF s
  <2> SUFFICES /\ Live(s) \in (Live(t) - 1)..(Live(t) + 1)
               /\ t[k] = NoValue /\ v # NoValue => Live(s) = Live(t) + 1
    BY DEF s
  <2>2. CASE v = NoValue
    <3>1. Present(s) = Present(t) \ {k}
      BY <2>1, <2>2
    <3>2. \/ Cardinality(Present(t) \ {k}) = Cardinality(Present(t)) - 1
          \/ Cardinality(Present(t) \ {k}) = Cardinality(Present(t))
      BY <2>1, FS_RemoveElement
    <3>3. Live(s) = Live(t) - 1 \/ Live(s) = Live(t)
      BY <2>1, <3>1, <3>2
    <3> QED BY <2>1, <2>2, <3>3
  <2>3. CASE v # NoValue
    <3>1. Present(s) = Present(t) \cup {k} /\ (k \in Present(t) <=> t[k] # NoValue)
      BY <2>1, <2>3
    <3>2. Cardinality(Present(t) \cup {k})
            = IF k \in Present(t) THEN Cardinality(Present(t)) ELSE Cardinality(Present(t)) + 1
      BY <2>1, FS_AddElement
    <3>3. Live(s) = IF t[k] # NoValue THEN Live(t) ELSE Live(t) + 1
      BY <2>1, <3>1, <3>2
    <3> QED BY <2>1, <3>3
  <2> QED BY <2>2, <2>3
<1> QED BY <1>2, <1>3, <1>4

\* Products.
LEMMA Products ==
  \A a, b \in Nat : a * b \in Nat /\ (a + 1) * b = a * b + b /\ (a > 0 => a * b >= b)
OBVIOUS

\* They grow with their factors.
LEMMA ProductsGrow ==
  \A a, b, c \in Nat : a <= b => a * c <= b * c
OBVIOUS

\* Rounding up loses nothing.
LEMMA CeilingFacts ==
  ASSUME NEW a \in Nat, NEW b \in Nat, b > 0
  PROVE  CeilingOf(a, b) \in Nat /\ b * CeilingOf(a, b) >= a
<1>1. a = b * (a \div b) + (a % b) /\ a \div b \in Nat /\ a % b \in Nat /\ a % b < b
  OBVIOUS
<1>2. PICK q, r \in Nat : q = a \div b /\ r = a % b
  BY <1>1
<1>3. a = b * q + r /\ r < b
  BY <1>1, <1>2
<1>4. b * (q + 1) = b * q + b
  OBVIOUS
<1> QED BY <1>1, <1>2, <1>3, <1>4 DEF CeilingOf

\* The horizon is over before the next trigger, and neither is ever empty.
LEMMA HorizonFacts ==
  ASSUME RebuildAssumption, NEW n \in Nat
  PROVE  /\ Trigger(n) \in Nat /\ Horizon(n) \in Nat
         /\ n >= SmallLimit => 0 < Horizon(n) /\ Horizon(n) < Trigger(n)
         /\ \A m \in Nat : n <= m => Horizon(n) <= Horizon(m)
<1> USE DEF RebuildAssumption, Trigger, Horizon
<1>1. PICK d, h \in Nat : d = HistoryDivisor /\ h = HorizonDivisor
  OBVIOUS
<1>2. d > 0 /\ h >= 2 * d /\ SmallLimit >= h
  BY <1>1
<1>3. \A a \in Nat, b \in Nat \ {0} :
        a \div b \in Nat /\ b * (a \div b) <= a /\ a < b * (a \div b) + b
  OBVIOUS
<1>4. PICK q, r \in Nat : q = n \div d /\ r = n \div h
  BY <1>2, <1>3
<1>5. d * q <= n /\ n < d * q + d /\ h * r <= n /\ n < h * r + h
  BY <1>2, <1>3, <1>4
<1>6. ASSUME n >= SmallLimit
      PROVE  0 < r /\ r < q
  <2>1. r > 0 /\ q > 0
    BY <1>2, <1>5, <1>6
  <2>2. h * r >= 2 * d * r
    BY <1>2
  <2>3. CASE r >= q
    <3>1. d * r >= d * q
      BY <2>3
    <3>2. d * r >= d
      BY <2>1
    <3>3. 2 * d * r = d * r + d * r
      OBVIOUS
    <3> QED BY <1>5, <2>2, <3>1, <3>2, <3>3
  <2> QED BY <2>1, <2>3
<1>7. ASSUME NEW m \in Nat, n <= m
      PROVE  r <= m \div h
  <2>1. PICK x \in Nat : x = m \div h
    BY <1>2, <1>3
  <2>2. m < h * x + h
    BY <1>2, <1>3, <2>1
  <2>3. CASE r > x
    <3>1. h * r >= h * (x + 1) /\ h * (x + 1) = h * x + h
      BY <2>3
    <3> QED BY <1>5, <1>7, <2>2, <3>1
  <2> QED BY <2>1, <2>3
<1> QED BY <1>1, <1>3, <1>4, <1>6, <1>7

-----------------------------------------------------------------------------
(***************************************************************************)
(* The queue of a rebuild, as changes to a table.                          *)
(***************************************************************************)

\* A nonempty set of places has a last one.
LEMMA LastPlace ==
  ASSUME NEW n \in Nat, NEW hits, hits \subseteq 1..n, hits # {}
  PROVE  \E i \in hits : \A h \in hits : h <= i
<1> DEFINE T == {x \in Nat : n - x \in hits}
<1>1. T \subseteq Nat /\ T # {}
  <2>1. PICK h \in hits : h \in 1..n
    OBVIOUS
  <2>2. n - h \in T
    BY <2>1
  <2> QED BY <2>2
<1>2. PICK x \in T : \A y \in T : ~(<<y, x>> \in OpToRel(<, Nat))
  <2> HIDE DEF T
  <2> QED BY <1>1, NatLessThanWellFounded, WFMin
<1>3. \A y \in T : ~(y < x)
  BY <1>1, <1>2 DEF OpToRel
<1>4. \A h \in hits : h <= n - x
  <2> SUFFICES ASSUME NEW h \in hits PROVE h <= n - x
    OBVIOUS
  <2>1. h \in 1..n /\ n - h \in Nat /\ n - (n - h) = h /\ x \in Nat
    BY <1>1
  <2>2. n - h \in T
    BY <2>1
  <2>3. ~(n - h < x)
    BY <1>3, <2>2
  <2> QED BY <2>1, <2>3
<1>5. n - x \in hits
  OBVIOUS
<1> HIDE DEF T
<1> QED BY <1>4, <1>5

\* A key has no change in the queue, or a last one.
LEMMA ChangesCases ==
  ASSUME NEW q \in Seq(Entries), NEW k \in Keys
  PROVE  \/ \A i \in 1..Len(q) : q[i].change.key # k
         \/ \E i \in 1..Len(q) :
              q[i].change.key = k /\ \A j \in 1..Len(q) : j > i => q[j].change.key # k
<1> DEFINE hits == {i \in 1..Len(q) : q[i].change.key = k}
<1> SUFFICES ASSUME hits # {}
             PROVE  \E i \in 1..Len(q) :
               q[i].change.key = k /\ \A j \in 1..Len(q) : j > i => q[j].change.key # k
  OBVIOUS
<1>1. hits \subseteq 1..Len(q) /\ Len(q) \in Nat
      /\ \A i \in 1..Len(q) : i \in hits <=> q[i].change.key = k
  OBVIOUS
<1> HIDE DEF hits
<1>2. PICK i \in hits : \A h \in hits : h <= i
  BY <1>1, LastPlace
<1>3. i \in 1..Len(q) /\ q[i].change.key = k
  BY <1>1
<1>4. \A j \in 1..Len(q) : j > i => j \notin hits
  BY <1>1, <1>2
<1> QED BY <1>1, <1>3, <1>4

\* A key that nothing queued changes keeps its state.
LEMMA ChangesNone ==
  ASSUME NEW q \in Seq(Entries), NEW t \in [Keys -> State], NEW k \in Keys,
         \A i \in 1..Len(q) : q[i].change.key # k
  PROVE  Changes(q, t)[k] = t[k]
<1> DEFINE hits == {i \in DOMAIN q : q[i].change.key = k}
<1>1. /\ DOMAIN q = 1..Len(q)
      /\ Changes(q, t)[k] = IF hits = {} THEN t[k]
                            ELSE q[CHOOSE i \in hits : \A h \in hits : h <= i].change.value
  BY DEF Changes
<1>2. hits = {}
  BY <1>1
<1> QED BY <1>1, <1>2

\* The last change to a key counts.
LEMMA ChangesLast ==
  ASSUME NEW q \in Seq(Entries), NEW t \in [Keys -> State], NEW k \in Keys,
         NEW i \in 1..Len(q), q[i].change.key = k,
         \A j \in 1..Len(q) : j > i => q[j].change.key # k
  PROVE  Changes(q, t)[k] = q[i].change.value
<1> DEFINE hits == {j \in DOMAIN q : q[j].change.key = k}
<1>1. /\ DOMAIN q = 1..Len(q) /\ Len(q) \in Nat
      /\ Changes(q, t)[k] = IF hits = {} THEN t[k]
                            ELSE q[CHOOSE c \in hits : \A h \in hits : h <= c].change.value
  BY DEF Changes
<1>2. i \in hits /\ \A h \in hits : h <= i
  BY <1>1
<1>3. \A c \in hits : (\A h \in hits : h <= c) => c = i
  BY <1>1, <1>2
<1> HIDE DEF hits
<1>4. (CHOOSE c \in hits : \A h \in hits : h <= c) = i
  BY <1>2, <1>3
<1> QED BY <1>1, <1>2, <1>4

\* The values of entries.
LEMMA EntryTypes ==
  \A e \in Entries : e.ordinal \in Nat /\ e.change.key \in Keys /\ e.change.value \in State
BY DEF Entries, Change

\* Changes make a table.
LEMMA ChangesType ==
  ASSUME NEW q \in Seq(Entries), NEW t \in [Keys -> State]
  PROVE  Changes(q, t) \in [Keys -> State] /\ (q = <<>> => Changes(q, t) = t)
<1>1. ASSUME NEW k \in Keys
      PROVE  Changes(q, t)[k] \in State /\ (q = <<>> => Changes(q, t)[k] = t[k])
  <2>1. CASE \A i \in 1..Len(q) : q[i].change.key # k
    BY <2>1, ChangesNone
  <2>2. CASE \E i \in 1..Len(q) :
               q[i].change.key = k /\ \A j \in 1..Len(q) : j > i => q[j].change.key # k
    <3>1. PICK i \in 1..Len(q) :
               q[i].change.key = k /\ \A j \in 1..Len(q) : j > i => q[j].change.key # k
      BY <2>2
    <3>2. Changes(q, t)[k] = q[i].change.value
      BY <3>1, ChangesLast
    <3>3. q[i] \in Entries /\ q # <<>>
      BY <3>1
    <3> QED BY <3>2, <3>3, EntryTypes
  <2> QED BY <2>1, <2>2, ChangesCases
<1>2. Changes(q, t) = [k \in Keys |-> Changes(q, t)[k]]
  BY DEF Changes
<1>3. Changes(q, t) \in [Keys -> State]
  BY <1>1, <1>2
<1>4. ASSUME q = <<>> PROVE Changes(q, t) = t
  BY <1>1, <1>3, <1>4
<1> QED BY <1>3, <1>4

\* An entry that is queued changes the outcome as it changes the foreground.
LEMMA ChangesAppend ==
  ASSUME NEW q \in Seq(Entries), NEW t \in [Keys -> State], NEW e \in Entries
  PROVE  Changes(Append(q, e), t) = [Changes(q, t) EXCEPT ![e.change.key] = e.change.value]
<1> DEFINE r == Append(q, e)
<1>1. r \in Seq(Entries)
  OBVIOUS
<1>2. /\ Len(q) \in Nat /\ Len(r) = Len(q) + 1 /\ r[Len(q) + 1] = e
      /\ \A i \in 1..Len(q) : r[i] = q[i]
  OBVIOUS
<1> HIDE DEF r
<1>3. Changes(q, t) \in [Keys -> State] /\ Changes(r, t) \in [Keys -> State]
  BY <1>1, ChangesType
<1>4. ASSUME NEW k \in Keys
      PROVE  Changes(r, t)[k] = IF k = e.change.key THEN e.change.value ELSE Changes(q, t)[k]
  <2>1. CASE k = e.change.key
    <3>1. Len(q) + 1 \in 1..Len(r) /\ r[Len(q) + 1].change.key = k
          /\ \A j \in 1..Len(r) : ~(j > Len(q) + 1)
      BY <1>2, <2>1
    <3>2. Changes(r, t)[k] = r[Len(q) + 1].change.value
      BY <1>1, <3>1, ChangesLast
    <3> QED BY <1>2, <2>1, <3>2
  <2>2. CASE k # e.change.key /\ \A i \in 1..Len(q) : q[i].change.key # k
    <3>1. \A i \in 1..Len(r) : r[i].change.key # k
      BY <1>2, <2>2
    <3>2. Changes(r, t)[k] = t[k]
      BY <1>1, <3>1, ChangesNone
    <3>3. Changes(q, t)[k] = t[k]
      BY <2>2, ChangesNone
    <3> QED BY <2>2, <3>2, <3>3
  <2>3. CASE k # e.change.key /\ \E i \in 1..Len(q) :
               q[i].change.key = k /\ \A j \in 1..Len(q) : j > i => q[j].change.key # k
    <3>1. PICK i \in 1..Len(q) :
               q[i].change.key = k /\ \A j \in 1..Len(q) : j > i => q[j].change.key # k
      BY <2>3
    <3>2. i \in 1..Len(r) /\ r[i].change.key = k /\ r[i] = q[i]
      BY <1>2, <3>1
    <3>3. \A j \in 1..Len(r) : j > i => r[j].change.key # k
      <4> SUFFICES ASSUME NEW j \in 1..Len(r), j > i PROVE r[j].change.key # k
        OBVIOUS
      <4>1. CASE j = Len(q) + 1
        BY <1>2, <2>3, <4>1
      <4>2. CASE j \in 1..Len(q)
        BY <1>2, <3>1, <4>2
      <4> QED BY <1>2, <4>1, <4>2
    <3>4. Changes(q, t)[k] = q[i].change.value
      BY <3>1, ChangesLast
    <3>5. Changes(r, t)[k] = r[i].change.value
      BY <1>1, <3>2, <3>3, ChangesLast
    <3> QED BY <2>3, <3>2, <3>4, <3>5
  <2>4. \/ \A i \in 1..Len(q) : q[i].change.key # k
        \/ \E i \in 1..Len(q) : q[i].change.key = k /\ \A j \in 1..Len(q) : j > i => q[j].change.key # k
    BY ChangesCases
  <2> QED BY <2>1, <2>2, <2>3, <2>4
<1>5. Changes(r, t) = [Changes(q, t) EXCEPT ![e.change.key] = e.change.value]
  BY <1>3, <1>4, EntryTypes
<1> QED BY <1>5 DEF r

\* The entry replayed next is taken from the queue into the table.
LEMMA ChangesTail ==
  ASSUME NEW q \in Seq(Entries), q # <<>>, NEW t \in [Keys -> State]
  PROVE  Changes(Tail(q), [t EXCEPT ![Head(q).change.key] = Head(q).change.value]) = Changes(q, t)
<1> DEFINE e == q[1]
           r == Tail(q)
           s == [t EXCEPT ![e.change.key] = e.change.value]
<1>1. e \in Entries /\ e = q[1] /\ e = Head(q)
  OBVIOUS
<1>2. r \in Seq(Entries)
  OBVIOUS
<1>3. /\ Len(q) \in Nat \ {0} /\ Len(r) = Len(q) - 1
      /\ \A i \in 1..Len(r) : r[i] = q[i + 1]
  OBVIOUS
<1> HIDE DEF e, r
<1>4. e.change.key \in Keys /\ e.change.value \in State
  BY <1>1, EntryTypes
<1>5. s \in [Keys -> State]
  BY <1>4
<1>6. \A k \in Keys : s[k] = IF k = e.change.key THEN e.change.value ELSE t[k]
  OBVIOUS
<1> HIDE DEF s
<1>7. Changes(q, t) \in [Keys -> State] /\ Changes(r, s) \in [Keys -> State]
  BY <1>2, <1>5, ChangesType
<1>8. ASSUME NEW k \in Keys
      PROVE  Changes(r, s)[k] = Changes(q, t)[k]
  <2>1. CASE \A i \in 1..Len(q) : q[i].change.key # k
    <3>1. \A i \in 1..Len(r) : r[i].change.key # k
      BY <1>3, <2>1
    <3>2. k # e.change.key
      BY <1>1, <1>3, <2>1
    <3>3. Changes(r, s)[k] = s[k]
      BY <1>2, <1>5, <3>1, ChangesNone
    <3>4. Changes(q, t)[k] = t[k]
      BY <2>1, ChangesNone
    <3> QED BY <1>6, <3>2, <3>3, <3>4
  <2>2. ASSUME NEW i \in 1..Len(q), q[i].change.key = k,
               \A j \in 1..Len(q) : j > i => q[j].change.key # k
        PROVE  Changes(r, s)[k] = Changes(q, t)[k]
    <3>1. Changes(q, t)[k] = q[i].change.value
      BY <2>2, ChangesLast
    <3>2. CASE i = 1
      <4>1. \A j \in 1..Len(r) : r[j].change.key # k
        BY <1>3, <2>2, <3>2
      <4>2. k = e.change.key
        BY <1>1, <2>2, <3>2
      <4>3. Changes(r, s)[k] = s[k]
        BY <1>2, <1>5, <4>1, ChangesNone
      <4> QED BY <1>1, <1>6, <3>1, <3>2, <4>2, <4>3
    <3>3. CASE i # 1
      <4>1. PICK h \in 1..Len(r) : h = i - 1
        BY <1>3, <2>2, <3>3
      <4>2. r[h] = q[i]
        BY <1>3, <4>1
      <4>3. \A j \in 1..Len(r) : j > h => r[j].change.key # k
        <5> SUFFICES ASSUME NEW j \in 1..Len(r), j > h
                     PROVE  r[j].change.key # k
          OBVIOUS
        <5>1. j + 1 \in 1..Len(q) /\ j + 1 > i /\ r[j] = q[j + 1]
          BY <1>3, <4>1
        <5> QED BY <2>2, <5>1
      <4>4. Changes(r, s)[k] = r[h].change.value
        BY <1>2, <1>5, <2>2, <4>2, <4>3, ChangesLast
      <4> QED BY <3>1, <4>2, <4>4
    <3> QED BY <3>2, <3>3
  <2> QED BY <2>1, <2>2, ChangesCases
<1>9. Changes(r, s) = Changes(q, t)
  BY <1>7, <1>8
<1> QED BY <1>1, <1>9 DEF r, s

-----------------------------------------------------------------------------
(***************************************************************************)
(* What the invariant says of the work that is left.                       *)
(***************************************************************************)

\* Prices and bounds are natural numbers.
LEMMA PriceTypes ==
  ASSUME RebuildAssumption
  PROVE  ActionBound \in Nat /\ CarryBound \in Nat /\ ScanPrice \in Nat /\ Setup \in Nat
BY DEF RebuildAssumption

\* Each action takes away its price from what is left.
LEMMA ScanningFacts ==
  ASSUME RebuildAssumption, NEW p \in Nat
  PROVE  Scanning(p) \in Nat /\ Scanning(p + 1) = Scanning(p) + ScanPrice
<1>1. PICK s \in Nat : s = ScanPrice
  BY PriceTypes
<1> QED BY <1>1 DEF Scanning

\* So does each record that is read.
LEMMA ReadingFacts ==
  ASSUME RebuildAssumption, NEW n \in Nat
  PROVE  Reading(n) \in Nat /\ Reading(n + 1) = Reading(n) + ActionBound
<1>1. PICK a \in Nat : a = ActionBound
  BY PriceTypes
<1> QED BY <1>1 DEF Reading

\* And each record that the candidate takes.
LEMMA TakingFacts ==
  ASSUME RebuildAssumption, NEW z \in Nat
  PROVE  Taking(z) \in Nat /\ Taking(z + 1) = Taking(z) + CarryBound + ActionBound
<1>1. PICK a, b \in Nat : a = ActionBound /\ b = CarryBound
  BY PriceTypes
<1> QED BY <1>1 DEF Taking

\* A record leaves at most CarryBound owed, and maintenance pays it off.
LEMMA OwingFacts ==
  ASSUME RebuildAssumption, NEW m \in Nat
  PROVE  /\ Owing(m) \in Nat
         /\ \A carry \in 0..CarryBound : Owing(m + carry) <= Owing(m) + CarryBound + ActionBound
         /\ \A n \in Nat : m > 0 /\ n = (IF m > ActionBound THEN m - ActionBound ELSE 0)
                              => Owing(n) + ActionBound <= Owing(m)
<1>1. PICK a, b \in Nat : a = ActionBound /\ b = CarryBound
  BY PriceTypes
<1>2. Owing(m) \in Nat
  BY <1>1 DEF Owing
<1>3. ASSUME NEW carry \in 0..CarryBound
      PROVE  Owing(m + carry) <= Owing(m) + CarryBound + ActionBound
  BY <1>1 DEF Owing
<1>4. ASSUME NEW n \in Nat, m > 0, n = IF m > ActionBound THEN m - ActionBound ELSE 0
      PROVE  Owing(n) + ActionBound <= Owing(m)
  <2>1. CASE m > a
    <3>1. n = m - a /\ n > 0
      BY <1>1, <1>4, <2>1
    <3>2. Owing(n) = n + a /\ Owing(m) = m + a
      BY <1>1, <1>4, <3>1 DEF Owing
    <3> QED BY <1>1, <3>1, <3>2
  <2>2. CASE ~(m > a)
    <3>1. n = 0
      BY <1>1, <1>4, <2>2
    <3>2. Owing(n) = 0 /\ Owing(m) = m + a
      BY <1>1, <1>4, <3>1 DEF Owing
    <3> QED BY <1>1, <3>2
  <2> QED BY <2>1, <2>2
<1> QED BY <1>2, <1>3, <1>4

\* Types of an engine's fields.
LEMMA EngineTypes ==
  \A e \in Engines : e.table \in [Keys -> State] /\ e.records \in [Keys -> Nat] /\ e.mass \in Nat
BY DEF Engines

\* Types of a rebuild's fields.
LEMMA JobTypes ==
  \A j \in Jobs :
    /\ j.active = TRUE /\ j.eager \in BOOLEAN /\ j.tiny \in BOOLEAN
    /\ j.frozen \in Engines /\ j.frozen_ordinal \in Nat /\ j.live \in Nat /\ j.horizon \in Nat
    /\ j.bound \in Nat /\ j.quantum \in Nat /\ j.credit \in Nat /\ j.committed \in Nat
    /\ j.admitted \in Nat /\ j.replayed \in Nat /\ j.rows \in Nat /\ j.queue \in Seq(Entries)
    /\ j.built \in BOOLEAN /\ j.building \in BOOLEAN /\ j.left \in [Keys -> Nat]
    /\ j.row \in SUBSET Keys /\ j.candidate \in Engines /\ j.owed \in Nat /\ j.unready \in BOOLEAN
BY DEF Jobs

\* A rebuild that runs is a rebuild.
LEMMA JobIsTyped ==
  ASSUME TypeOK, job.active
  PROVE  job \in Jobs
BY DEF TypeOK, NoJob

\* The rows that were copied are rows of the frozen table, and are all of
\* them when the scan is done.
LEMMA CopiedFacts ==
  ASSUME RebuildAssumption, NEW j \in Jobs, FreezeIsSound(j), ScanIsSound(j)
  PROVE  /\ IsFiniteSet(Copied(j)) /\ j.rows <= j.live
         /\ (\A k \in Keys : j.left[k] = 0) /\ j.row = {} => j.rows = j.live
<1> DEFINE Present == {k \in Keys : j.frozen.table[k] # NoValue}
<1>1. IsFiniteSet(Present) /\ Cardinality(Present) = j.live
  BY FS_Subset DEF RebuildAssumption, FreezeIsSound, Live
<1>2. Copied(j) \subseteq Present /\ j.rows = Cardinality(Copied(j))
  BY DEF Copied, ScanIsSound
<1>3. (\A k \in Keys : j.left[k] = 0) /\ j.row = {} => Copied(j) = Present
  BY DEF Copied
<1> HIDE DEF Present
<1> QED BY <1>1, <1>2, <1>3, FS_Subset

\* The arguments of what remains are natural numbers.
LEMMA WorkTypes ==
  ASSUME RebuildAssumption, NEW j \in Jobs, FreezeIsSound(j), ScanIsSound(j),
         Len(j.queue) = j.admitted - j.replayed, j.admitted <= j.horizon, j.eager => j.admitted = 0
  PROVE  /\ Physical([records |-> j.left]) \in Nat
         /\ j.live - j.rows \in Nat /\ j.admitted - j.replayed \in Nat
         /\ RowLimit(j) - j.rows - j.replayed \in Nat
         /\ RowLimit(j) - j.rows - j.replayed >= j.live - j.rows
         /\ RowLimit(j) - j.rows - j.replayed >= j.admitted - j.replayed
<1>1. /\ j.live \in Nat /\ j.rows \in Nat /\ j.admitted \in Nat /\ j.replayed \in Nat /\ j.horizon \in Nat
      /\ j.left \in [Keys -> Nat] /\ j.queue \in Seq(Entries) /\ j.eager \in BOOLEAN
  BY JobTypes
<1>2. PICK i, r, d, e, h \in Nat : /\ i = j.live /\ r = j.rows /\ d = j.admitted
                                   /\ e = j.replayed /\ h = j.horizon
  BY <1>1
<1>3. Physical([records |-> j.left]) \in Nat
  BY <1>1, PhysicalFacts
<1>4. r <= i
  BY <1>2, CopiedFacts
<1>5. e <= d /\ d <= h
  <2>1. Len(j.queue) \in Nat
    BY <1>1
  <2>2. PICK l \in Nat : l = Len(j.queue)
    BY <2>1
  <2>3. l = d - e
    BY <1>2, <2>2
  <2> QED BY <1>2, <2>3
<1>6. PICK z \in Nat : z = RowLimit(j) - r - e /\ z >= i - r /\ z >= d - e
  <2>1. CASE j.eager
    <3>1. RowLimit(j) = i
      BY <1>2, <2>1 DEF RowLimit
    <3>2. d = 0 /\ e = 0
      BY <1>2, <1>5, <2>1
    <3>3. i - r - e \in Nat /\ i - r - e >= i - r /\ i - r - e >= d - e
      BY <1>4, <3>2
    <3> QED BY <3>1, <3>3
  <2>2. CASE ~j.eager
    <3>1. RowLimit(j) = i + h
      BY <1>2, <2>2 DEF RowLimit
    <3>2. i + h - r - e \in Nat /\ i + h - r - e >= i - r /\ i + h - r - e >= d - e
      BY <1>4, <1>5
    <3> QED BY <3>1, <3>2
  <2> QED BY <1>1, <2>1, <2>2
<1>7. i - r \in Nat /\ d - e \in Nat
  BY <1>4, <1>5
<1>8. /\ i - r = j.live - j.rows /\ d - e = j.admitted - j.replayed
      /\ z = RowLimit(j) - j.rows - j.replayed
  BY <1>2, <1>6
<1> QED BY <1>3, <1>6, <1>7, <1>8

\* So what remains is one, and covers the handoff.
LEMMA RemainingType ==
  ASSUME RebuildAssumption, NEW j \in Jobs, FreezeIsSound(j), ScanIsSound(j),
         Len(j.queue) = j.admitted - j.replayed, j.admitted <= j.horizon, j.eager => j.admitted = 0
  PROVE  \E r \in Nat : Remaining(j) = Opening(j) + Scanning(Physical([records |-> j.left])) + r
                        /\ r >= ActionBound
<1>1. PICK x, y, z, m \in Nat :
         /\ x = j.live - j.rows /\ y = j.admitted - j.replayed
         /\ z = RowLimit(j) - j.rows - j.replayed /\ m = j.owed
  BY WorkTypes, JobTypes
<1>2. PICK c, d, e, f, a \in Nat : c = Checking(j) /\ d = Reading(x) /\ e = Reading(y) /\ f = Taking(z)
                                /\ a = ActionBound
  BY PriceTypes, ReadingFacts, TakingFacts DEF Checking
<1>3. PICK g \in Nat : g = Owing(m)
  BY OwingFacts
<1>4. PICK o, p \in Nat : o = Opening(j) /\ p = Scanning(Physical([records |-> j.left]))
  BY PriceTypes, WorkTypes, ScanningFacts DEF Opening
<1>5. Remaining(j) = o + p + c + d + e + f + g + a
  BY <1>1, <1>2, <1>3, <1>4 DEF Remaining
<1>6. PICK r \in Nat : r = c + d + e + f + g + a
  OBVIOUS
<1>7. o + p + c + d + e + f + g + a = o + p + r /\ r >= a
  BY <1>6
<1>8. Remaining(j) = Opening(j) + Scanning(Physical([records |-> j.left])) + r /\ r >= ActionBound
  BY <1>2, <1>4, <1>5, <1>7
<1> QED BY <1>8

\* Prices are natural.
LEMMA PriceType ==
  ASSUME RebuildAssumption, NEW j \in Jobs
  PROVE  Price(j) \in Nat
BY JobTypes DEF RebuildAssumption, Price

\* Whatever the next action is, the reserved bound covers it.
LEMMA NextIsCovered ==
  ASSUME RebuildAssumption, NEW j \in Jobs, FreezeIsSound(j), ScanIsSound(j), WorkIsBounded(j),
         Len(j.queue) = j.admitted - j.replayed, j.admitted <= j.horizon, j.eager => j.admitted = 0
  PROVE  j.committed + Price(j) <= j.bound + j.admitted * ActionBound
<1>1. /\ j.bound \in Nat /\ j.committed \in Nat /\ j.owed \in Nat /\ j.admitted \in Nat
      /\ j.left \in [Keys -> Nat] /\ j.tiny \in BOOLEAN /\ j.built \in BOOLEAN
      /\ j.building \in BOOLEAN /\ Price(j) \in Nat /\ ActionBound \in Nat
  BY JobTypes, PriceType DEF RebuildAssumption
<1>2. PICK w \in Nat : w = j.admitted * ActionBound
  BY <1>1
<1>3. CASE j.tiny
  <2>1. Price(j) = j.bound /\ j.committed = 0
    BY <1>3 DEF Price, FreezeIsSound
  <2> QED BY <1>1, <1>2, <2>1
<1>4. CASE ~j.tiny
  <2>1. PICK r \in Nat : Remaining(j) = Opening(j) + Scanning(Physical([records |-> j.left])) + r
                        /\ r >= ActionBound
    BY RemainingType
  <2>2. PICK o, p, s \in Nat : o = Opening(j) /\ p = Physical([records |-> j.left]) /\ s = Scanning(p)
    <3>1. PICK o, p \in Nat : o = Opening(j) /\ p = Physical([records |-> j.left])
      BY <1>1, PriceTypes, PhysicalFacts DEF Opening
    <3>2. PICK s \in Nat : s = Scanning(p)
      BY ScanningFacts
    <3> QED BY <3>1, <3>2
  <2>3. PICK a \in Nat : a = ActionBound
    BY PriceTypes
  <2>4. Remaining(j) = o + s + r /\ r >= a /\ o + s + r \in Nat
    BY <2>1, <2>2, <2>3
  <2>5. Price(j) <= Remaining(j) /\ Remaining(j) \in Nat
    <3>1. CASE ~j.built
      <4>1. Price(j) = o
        BY <1>4, <2>2, <3>1 DEF Price, Opening
      <4> QED BY <2>4, <4>1
    <3>2. CASE j.built /\ j.building /\ j.row = {} /\ ~ScanDone(j)
      <4>1. Price(j) = ScanPrice /\ p > 0
        BY <1>4, <2>2, <3>2 DEF Price, ScanDone
      <4>2. PICK q \in Nat : p = q + 1
        BY <4>1
      <4>3. s = Scanning(q) + ScanPrice /\ Scanning(q) \in Nat /\ ScanPrice \in Nat
        BY <2>2, <4>2, ScanningFacts, PriceTypes
      <4> QED BY <2>4, <4>1, <4>3
    <3>3. CASE j.built /\ ~(j.building /\ j.row = {} /\ ~ScanDone(j))
      <4>1. Price(j) = ActionBound
        BY <1>4, <3>3 DEF Price
      <4> QED BY <2>3, <2>4, <4>1
    <3> QED BY <3>1, <3>2, <3>3
  <2>6. j.committed + Remaining(j) <= j.bound + w
    BY <1>2, <1>4 DEF WorkIsBounded
  <2>7. PICK n, m, u, b \in Nat : n = j.committed /\ m = Remaining(j) /\ u = Price(j) /\ b = j.bound
    BY <1>1, <2>5
  <2>8. n + u <= b + w
    BY <2>5, <2>6, <2>7
  <2> QED BY <1>2, <2>7, <2>8
<1> QED BY <1>1, <1>3, <1>4

\* A service that has run out of credit has not come to its deadline.
LEMMA StopsInTime ==
  ASSUME RebuildAssumption, NEW j \in Jobs, FreezeIsSound(j), GrantsSuffice(j),
         j.committed + Price(j) <= j.bound + j.admitted * ActionBound,
         j.admitted <= j.horizon, j.eager => j.admitted = 0,
         ~(j.credit >= Price(j))
  PROVE  IF j.eager THEN recovering ELSE j.admitted < j.horizon
<1>1. /\ Price(j) \in Nat /\ j.bound \in Nat /\ j.committed \in Nat /\ j.credit \in Nat
      /\ j.admitted \in Nat /\ j.horizon \in Nat /\ j.quantum \in Nat /\ ActionBound \in Nat
      /\ j.eager \in BOOLEAN
  BY JobTypes, PriceType DEF RebuildAssumption
<1>2. PICK a \in Nat : a = ActionBound
  BY <1>1
<1>3. CASE j.eager
  <2>1. j.admitted * ActionBound = 0
    BY <1>1, <1>3
  <2>2. j.committed + Price(j) <= j.bound
    BY <1>1, <2>1
  <2>3. ~(j.credit + j.committed >= j.bound)
    BY <1>1, <2>2
  <2> QED BY <1>3, <2>3 DEF GrantsSuffice
<1>4. CASE ~j.eager /\ j.admitted = j.horizon
  <2>1. PICK h, q \in Nat : h = j.horizon /\ q = j.quantum
    BY <1>1
  <2>2. h * q >= j.bound
    BY <1>1, <2>1, CeilingFacts DEF FreezeIsSound
  <2>3. PICK v, w \in Nat : v = h * q /\ w = h * a
    OBVIOUS
  <2>4. h * (q + a) = v + w
    BY <2>3
  <2>5. j.credit + j.committed >= v + w
    BY <1>2, <1>4, <2>1, <2>4 DEF GrantsSuffice
  <2>6. j.committed + Price(j) <= j.bound + w
    BY <1>2, <1>4, <2>1, <2>3
  <2> QED BY <1>1, <2>2, <2>3, <2>5, <2>6
<1>5. CASE ~j.eager /\ j.admitted < j.horizon
  BY <1>5
<1> QED BY <1>1, <1>3, <1>4, <1>5

\* What a new rebuild has to do is what is reserved for it.
LEMMA RebuildIsSound ==
  ASSUME RebuildAssumption, NEW e \in Engines, EngineIsSound(e), NEW small \in BOOLEAN,
         NEW n \in Nat, ~small => Live(e.table) >= SmallLimit, NEW j, j = Rebuild(e, small, n)
  PROVE  /\ j \in Jobs /\ FreezeIsSound(j) /\ ScanIsSound(j) /\ WorkIsBounded(j)
         /\ j.queue = <<>> /\ Scanned(j) = e.table
         /\ j.admitted = 0 /\ j.replayed = 0 /\ j.frozen = e /\ j.frozen_ordinal = n
         /\ j.eager = small /\ j.live = Live(e.table) /\ j.credit = 0 /\ j.committed = 0
<1> DEFINE live == Live(e.table)
           physical == Physical(e)
           horizon == IF small THEN 1 ELSE Horizon(live)
           bound == Reservation(live, physical, horizon, small)
<1>1. e.table \in [Keys -> State] /\ e.records \in [Keys -> Nat] /\ e.mass \in Nat
  BY EngineTypes
<1>2. live \in Nat /\ physical \in Nat /\ physical = Physical([records |-> e.records])
  BY <1>1, LiveFacts, PhysicalFacts DEF Physical
<1>0. ~small => live >= SmallLimit
  OBVIOUS
<1> HIDE DEF live, physical
<1>3. horizon \in Nat /\ horizon > 0
  BY <1>0, <1>2, HorizonFacts
<1> HIDE DEF horizon
<1>4. PICK a, b, s, c \in Nat : a = ActionBound /\ b = CarryBound /\ s = ScanPrice /\ c = Setup
  BY PriceTypes
<1>5. PICK g \in Nat : g = live + IF small THEN 0 ELSE horizon
  BY <1>2, <1>3
<1>6. bound = c + (physical + live + 1) * s + live * a + g * b + g * a + horizon * a + a
  BY <1>4, <1>5 DEF Reservation
<1> HIDE DEF bound
<1>7. PICK u, v, w, x, y, z \in Nat : /\ u = physical * s /\ v = live * s /\ w = live * a
                                      /\ x = g * b /\ y = g * a /\ z = horizon * a
  BY <1>2, <1>3
<1>8. (physical + live + 1) * s = u + v + s /\ z >= a
  BY <1>2, <1>3, <1>7
<1>9. bound = c + (u + v + s) + w + x + y + z + a
  BY <1>6, <1>7, <1>8
<1>10. bound \in Nat /\ CeilingOf(bound, horizon) \in Nat
  <2>1. bound \in Nat
    BY <1>9
  <2> QED BY <1>3, <2>1, CeilingFacts
<1>11. j = [active |-> TRUE, eager |-> small,
           tiny |-> small /\ live <= SmallLimit /\ physical <= TinyRecords,
           frozen |-> e, frozen_ordinal |-> n, live |-> live, horizon |-> horizon,
           bound |-> bound, quantum |-> CeilingOf(bound, horizon),
           credit |-> 0, committed |-> 0,
           admitted |-> 0, replayed |-> 0, rows |-> 0, queue |-> <<>>,
           built |-> FALSE, building |-> TRUE, left |-> e.records, row |-> {},
           candidate |-> NewEngine, owed |-> 0, unready |-> FALSE]
  BY DEF Rebuild, live, physical, horizon, bound
<1>12. NewEngine \in Engines
  BY DEF NewEngine, NoRecords, Engines, State
<1>13. j \in Jobs
  <2>1. <<>> \in Seq(Entries)
    OBVIOUS
  <2> QED BY <1>1, <1>2, <1>3, <1>10, <1>11, <1>12, <2>1 DEF Jobs
<1>14. PICK r \in Jobs : r = j
  BY <1>13
<1>15. /\ r.eager = small /\ r.frozen = e /\ r.live = live /\ r.horizon = horizon /\ r.bound = bound
       /\ r.quantum = CeilingOf(bound, horizon) /\ r.committed = 0 /\ r.credit = 0 /\ r.frozen_ordinal = n
       /\ r.tiny = (small /\ live <= SmallLimit /\ physical <= TinyRecords)
       /\ r.admitted = 0 /\ r.replayed = 0 /\ r.rows = 0 /\ r.queue = <<>>
       /\ r.built = FALSE /\ r.building = TRUE /\ r.left = e.records /\ r.row = {}
       /\ r.candidate = NewEngine /\ r.owed = 0 /\ r.unready = FALSE
  BY <1>11, <1>14
<1>16. FreezeIsSound(r)
  <2>1. live = Live(e.table) /\ physical = Physical(e) /\ horizon = (IF small THEN 1 ELSE Horizon(live))
        /\ bound = Reservation(live, physical, horizon, small)
    BY DEF live, physical, horizon, bound
  <2> QED BY <1>0, <1>3, <1>15, <2>1 DEF FreezeIsSound
<1>17. Copied(r) = {}
  BY <1>1, <1>15 DEF Copied, EngineIsSound
<1>18. NewEngine.table \in [Keys -> State] /\ NewEngine.mass = 0
       /\ \A k \in Keys : NewEngine.table[k] = NoValue
  BY DEF NewEngine, State
<1>19. Scanned(r) = e.table
  <2>1. \A k \in Keys : Scanned(r)[k] = e.table[k]
    BY <1>1, <1>15, <1>18 DEF Scanned, EngineIsSound
  <2> QED BY <1>1, <2>1 DEF Scanned
<1>20. ScanIsSound(r)
  <2>1. Live(NewEngine.table) = 0
    BY <1>18, LiveFacts
  <2>2. EngineIsSound(NewEngine)
    BY <1>18, <2>1 DEF EngineIsSound
  <2>3. Cardinality(Copied(r)) = 0
    BY <1>17, FS_EmptySet
  <2> QED BY <1>1, <1>15, <1>17, <1>18, <2>2, <2>3 DEF ScanIsSound
<1>21. WorkIsBounded(r)
  <2>1. Opening(r) = c /\ Checking(r) = a
    BY <1>4, <1>15 DEF Opening, Checking
  <2>2. Scanning(Physical([records |-> r.left])) = u
    BY <1>2, <1>4, <1>7, <1>15 DEF Scanning
  <2>3. Reading(r.live - r.rows) = w /\ Reading(r.admitted - r.replayed) = 0
    <3>1. r.live - r.rows = live /\ r.admitted - r.replayed = 0
      BY <1>2, <1>15
    <3> QED BY <1>4, <1>7, <3>1 DEF Reading
  <2>4. Taking(RowLimit(r) - r.rows - r.replayed) = x + y
    <3>0. PICK i \in Nat : i = IF small THEN 0 ELSE horizon
      BY <1>3
    <3>3. RowLimit(r) = live + i /\ g = live + i /\ g - 0 - 0 = g
      BY <1>2, <1>5, <1>15, <3>0 DEF RowLimit
    <3>1. RowLimit(r) - r.rows - r.replayed = g
      BY <1>15, <3>3
    <3>2. g * (b + a) = x + y
      BY <1>7
    <3> QED BY <1>4, <3>1, <3>2 DEF Taking
  <2>5. Owing(r.owed) = 0
    BY <1>15 DEF Owing
  <2>6. Remaining(r) = c + u + a + w + 0 + (x + y) + 0 + a
    BY <1>4, <2>1, <2>2, <2>3, <2>4, <2>5 DEF Remaining
  <2>7. r.admitted * ActionBound = 0
    BY <1>4, <1>15
  <2>8. Remaining(r) <= bound
    BY <1>8, <1>9, <2>6
  <2>9. 0 + Remaining(r) <= bound + 0
    BY <1>10, <2>6, <2>8
  <2> QED BY <1>15, <2>7, <2>9 DEF WorkIsBounded
<1> QED BY <1>14, <1>15, <1>16, <1>19, <1>20, <1>21 DEF live

-----------------------------------------------------------------------------
(***************************************************************************)
(* Engines and rebuilds change by one record.                              *)
(***************************************************************************)

\* An admitted change leaves a sound engine, with one more record.
LEMMA AdmittedFacts ==
  ASSUME RebuildAssumption, NEW e \in Engines, EngineIsSound(e), NEW c \in Change,
         NEW folded \in BOOLEAN, NEW f, f = Admitted(e, c, folded)
  PROVE  /\ f \in Engines /\ EngineIsSound(f) /\ f.mass = e.mass + 1
         /\ f.table = [e.table EXCEPT ![c.key] = c.value]
         /\ Live(f.table) >= Live(e.table) - 1
         /\ e.table[c.key] = NoValue /\ c.value # NoValue => Live(f.table) = Live(e.table) + 1
<1>1. c.key \in Keys /\ c.value \in State
  BY DEF Change
<1>2. e.table \in [Keys -> State] /\ e.records \in [Keys -> Nat] /\ e.mass \in Nat
  BY EngineTypes
<1> DEFINE t == [e.table EXCEPT ![c.key] = c.value]
           r == [e.records EXCEPT ![c.key] = IF folded THEN 1 ELSE @ + 1]
<1>3. t \in [Keys -> State] /\ r \in [Keys -> Nat]
  BY <1>1, <1>2
<1>4. /\ Live(t) \in (Live(e.table) - 1)..(Live(e.table) + 1) /\ Live(e.table) \in Nat
      /\ e.table[c.key] = NoValue /\ c.value # NoValue => Live(t) = Live(e.table) + 1
  BY <1>1, <1>2, LiveFacts
<1>5. \A k \in Keys : t[k] # NoValue => r[k] > 0
  <2>1. \A k \in Keys \ {c.key} : t[k] = e.table[k] /\ r[k] = e.records[k]
    BY <1>1, <1>2
  <2>2. r[c.key] > 0
    BY <1>1, <1>2
  <2> HIDE DEF t, r
  <2> QED BY <2>1, <2>2 DEF EngineIsSound
<1>6. Admitted(e, c, folded) = [table |-> t, records |-> r, mass |-> e.mass + 1]
  BY DEF Admitted
<1>7. PICK l, m, n \in Nat : l = Live(e.table) /\ m = e.mass /\ n = Live(t)
  <2>1. Live(t) \in Nat
    BY <1>3, LiveFacts
  <2> QED BY <1>2, <1>4, <2>1
<1>8. l <= m
  BY <1>7 DEF EngineIsSound
<1> HIDE DEF t, r
<1>9. n <= m + 1 /\ n >= l - 1
  BY <1>4, <1>7, <1>8
<1>10. f \in Engines
  BY <1>2, <1>3, <1>6 DEF Engines
<1>11. f.table = t /\ f.records = r /\ f.mass = e.mass + 1
  BY <1>6
<1>12. EngineIsSound(f)
  BY <1>5, <1>7, <1>9, <1>11 DEF EngineIsSound
<1> QED BY <1>4, <1>7, <1>9, <1>10, <1>11, <1>12 DEF t

\* What service() leaves alone, and what it takes for an action.
PaidFrom(q, j) ==
  /\ q.active = j.active /\ q.eager = j.eager /\ q.tiny = j.tiny /\ q.frozen = j.frozen
  /\ q.frozen_ordinal = j.frozen_ordinal /\ q.live = j.live /\ q.horizon = j.horizon
  /\ q.bound = j.bound /\ q.quantum = j.quantum /\ q.admitted = j.admitted
  /\ q.credit = j.credit - Price(j) /\ q.committed = j.committed + Price(j)

\* An action on the candidate that is worth its price keeps the rebuild sound.
LEMMA ServiceIsSound ==
  ASSUME RebuildAssumption, NEW j \in Jobs, NEW q \in Jobs, ~j.tiny, JobIsSound(j), PaidFrom(q, j),
         ScanIsSound(q), QueueIsSound(q), q.unready => q.owed > 0,
         Remaining(q) \in Nat, Remaining(q) + Price(j) <= Remaining(j)
  PROVE  JobIsSound(q)
<1>1. FreezeIsSound(q)
  BY DEF JobIsSound, PaidFrom, FreezeIsSound
<1>2. Price(j) \in Nat
  BY PriceType
<1>3. PICK p, r, n, c, d, m, k, l \in Nat :
         /\ p = Price(j) /\ r = Remaining(q) /\ n = j.committed /\ m = q.committed /\ c = j.credit
         /\ d = q.credit /\ k = j.bound /\ l = j.admitted
  BY <1>2, JobTypes
<1>4. m = n + p /\ d = c - p /\ d + m = c + n
  BY <1>3 DEF PaidFrom
<1>5. WorkIsBounded(q)
  <2>1. PICK s, v \in Nat : s = Remaining(j) /\ v = l * ActionBound
    <3>1. WorkIsBounded(j) /\ QueueIsSound(j) /\ FreezeIsSound(j) /\ ScanIsSound(j)
      BY DEF JobIsSound
    <3>2. Len(j.queue) = j.admitted - j.replayed /\ j.admitted <= j.horizon /\ (j.eager => j.admitted = 0)
      BY <3>1 DEF QueueIsSound
    <3>3. PICK o, w, u \in Nat : /\ Remaining(j) = Opening(j) + Scanning(Physical([records |-> j.left])) + u
                                 /\ o = Opening(j) /\ w = Scanning(Physical([records |-> j.left]))
      <4>1. Physical([records |-> j.left]) \in Nat
        BY JobTypes, PhysicalFacts
      <4> QED BY <3>1, <3>2, <4>1, RemainingType, ScanningFacts, PriceTypes DEF Opening
    <3>4. Remaining(j) \in Nat
      BY <3>3
    <3>5. l * ActionBound \in Nat
      BY PriceTypes
    <3> QED BY <3>4, <3>5
  <2>2. n + s <= k + v /\ r + p <= s
    BY <1>3, <2>1 DEF JobIsSound, WorkIsBounded
  <2>3. m + r <= k + v
    BY <1>4, <2>2
  <2> QED BY <1>3, <2>1, <2>3 DEF WorkIsBounded, PaidFrom
<1>6. GrantsSuffice(q)
  <2>1. d + m = q.credit + q.committed /\ c + n = j.credit + j.committed
    BY <1>3
  <2>2. q.credit + q.committed = j.credit + j.committed
    BY <1>4, <2>1
  <2> QED BY <2>2 DEF GrantsSuffice, JobIsSound, PaidFrom
<1> QED BY <1>1, <1>5, <1>6 DEF JobIsSound

\* Paid(j), of any rebuild.
Charged(j) == [j EXCEPT !.credit = @ - Price(j), !.committed = @ + Price(j)]

\* A paid action changes those fields of a rebuild that it names.
LEMMA ChargedFacts ==
  ASSUME RebuildAssumption, NEW j \in Jobs, j.credit >= Price(j)
  PROVE  /\ Charged(j) \in Jobs /\ PaidFrom(Charged(j), j)
         /\ Charged(j).replayed = j.replayed /\ Charged(j).rows = j.rows /\ Charged(j).queue = j.queue
         /\ Charged(j).built = j.built /\ Charged(j).building = j.building /\ Charged(j).left = j.left
         /\ Charged(j).row = j.row /\ Charged(j).candidate = j.candidate /\ Charged(j).owed = j.owed
         /\ Charged(j).unready = j.unready
<1>1. Price(j) \in Nat /\ j.credit \in Nat /\ j.committed \in Nat
  BY PriceType, JobTypes
<1>2. PICK c, d \in Nat : c = j.credit - Price(j) /\ d = j.committed + Price(j)
  BY <1>1
<1>3. Charged(j) = [j EXCEPT !.credit = c, !.committed = d]
  BY <1>2 DEF Charged, Jobs
<1>4. Charged(j) \in Jobs
  <2>1. \A v \in Jobs : [v EXCEPT !.credit = c, !.committed = d] \in Jobs
    BY DEF Jobs
  <2> QED BY <1>3, <2>1
<1>5. PaidFrom(Charged(j), j)
  BY <1>2, <1>3 DEF PaidFrom, Jobs
<1> QED BY <1>3, <1>4, <1>5 DEF Jobs

\* The parts of what remains.
IsWork(j, o, s, c, x, y, z, w, a) ==
  /\ o = Opening(j) /\ s = Scanning(Physical([records |-> j.left])) /\ c = Checking(j)
  /\ x = Reading(j.live - j.rows) /\ y = Reading(j.admitted - j.replayed)
  /\ z = Taking(RowLimit(j) - j.rows - j.replayed) /\ w = Owing(j.owed) /\ a = ActionBound
  /\ Remaining(j) = o + s + c + x + y + z + w + a

\* What remains, in parts that are natural numbers.
LEMMA WorkParts ==
  ASSUME RebuildAssumption, NEW j \in Jobs, FreezeIsSound(j), ScanIsSound(j), QueueIsSound(j)
  PROVE  \E o, s, c, x, y, z, w, a \in Nat : IsWork(j, o, s, c, x, y, z, w, a)
<1>1. PICK o, c, a \in Nat : o = Opening(j) /\ c = Checking(j) /\ a = ActionBound
  BY PriceTypes DEF Opening, Checking
<1>2. PICK s \in Nat : s = Scanning(Physical([records |-> j.left]))
  BY JobTypes, PhysicalFacts, ScanningFacts
<1>3. PICK l, m, n \in Nat : /\ l = j.live - j.rows /\ m = j.admitted - j.replayed
                             /\ n = RowLimit(j) - j.rows - j.replayed
  BY WorkTypes DEF QueueIsSound
<1>4. PICK x, y, z \in Nat : x = Reading(l) /\ y = Reading(m) /\ z = Taking(n)
  BY ReadingFacts, TakingFacts
<1>5. PICK w \in Nat : w = Owing(j.owed)
  <2>1. j.owed \in Nat
    BY JobTypes
  <2> QED BY <2>1, OwingFacts
<1>6. Remaining(j) = o + s + c + x + y + z + w + a
  BY <1>1, <1>2, <1>3, <1>4, <1>5 DEF Remaining
<1>7. IsWork(j, o, s, c, x, y, z, w, a)
  BY <1>1, <1>2, <1>3, <1>4, <1>5, <1>6 DEF IsWork
<1> WITNESS o \in Nat, s \in Nat, c \in Nat, x \in Nat, y \in Nat, z \in Nat, w \in Nat, a \in Nat
<1> QED BY <1>7

\* The candidate's working set is prepared.
LEMMA OpenIsSound ==
  ASSUME RebuildAssumption, NEW j \in Jobs, JobIsSound(j), ~j.tiny, j.credit >= Price(j), ~j.built
  PROVE  LET q == [Charged(j) EXCEPT !.built = TRUE] IN q \in Jobs /\ PaidFrom(q, j) /\ JobIsSound(q)
<1> DEFINE q == [Charged(j) EXCEPT !.built = TRUE]
<1>1. PICK p \in Jobs : p = Charged(j)
  BY ChargedFacts
<1>2. q \in Jobs
  BY <1>1 DEF Jobs
<1>3. /\ PaidFrom(q, j) /\ q.replayed = j.replayed /\ q.rows = j.rows /\ q.queue = j.queue
      /\ q.built = TRUE /\ q.building = j.building /\ q.left = j.left
      /\ q.row = j.row /\ q.candidate = j.candidate /\ q.owed = j.owed /\ q.unready = j.unready
  <2>1. /\ q.active = p.active /\ q.eager = p.eager /\ q.tiny = p.tiny
        /\ q.frozen = p.frozen /\ q.frozen_ordinal = p.frozen_ordinal
        /\ q.live = p.live /\ q.horizon = p.horizon /\ q.bound = p.bound
        /\ q.quantum = p.quantum /\ q.admitted = p.admitted /\ q.credit = p.credit
        /\ q.committed = p.committed /\ q.replayed = p.replayed /\ q.rows = p.rows
        /\ q.queue = p.queue /\ q.built = TRUE /\ q.building = p.building
        /\ q.left = p.left /\ q.row = p.row /\ q.candidate = p.candidate
        /\ q.owed = p.owed /\ q.unready = p.unready
    BY <1>1 DEF Jobs
  <2>2. /\ PaidFrom(p, j) /\ p.replayed = j.replayed /\ p.rows = j.rows /\ p.queue = j.queue
        /\ p.built = j.built /\ p.building = j.building /\ p.left = j.left /\ p.row = j.row
        /\ p.candidate = j.candidate /\ p.owed = j.owed /\ p.unready = j.unready
    BY <1>1, ChargedFacts
  <2> HIDE DEF q
  <2> QED BY <2>1, <2>2 DEF PaidFrom
<1> HIDE DEF q
<1>4. FreezeIsSound(j) /\ ScanIsSound(j) /\ QueueIsSound(j) /\ WorkIsBounded(j)
  BY DEF JobIsSound
<1>5. Copied(q) = Copied(j) /\ Scanned(q) = Scanned(j) /\ RowLimit(q) = RowLimit(j)
  BY <1>3 DEF Copied, Scanned, RowLimit, PaidFrom
<1>6. ScanIsSound(q)
  BY <1>3, <1>4, <1>5 DEF ScanIsSound, PaidFrom
<1>7. QueueIsSound(q)
  BY <1>3, <1>4, <1>5 DEF QueueIsSound, PaidFrom
<1>8. PICK r \in Nat : Remaining(q) = r /\ r + Price(j) <= Remaining(j)
  <2>1. PICK o, s, c, x, y, z, w, a \in Nat : IsWork(j, o, s, c, x, y, z, w, a)
    BY <1>4, WorkParts
  <2>2. Price(j) = o
    BY <2>1 DEF Price, IsWork, Opening
  <2>3. /\ Opening(q) = 0 /\ Checking(q) = c /\ RowLimit(q) = RowLimit(j)
        /\ Remaining(j) = o + s + c + x + y + z + w + a
    BY <1>3, <1>5, <2>1 DEF IsWork, Opening, Checking
  <2>4. Remaining(q) = 0 + s + c + x + y + z + w + a
    BY <1>3, <2>1, <2>3 DEF Remaining, IsWork, PaidFrom
  <2>5. 0 + s + c + x + y + z + w + a \in Nat
        /\ 0 + s + c + x + y + z + w + a + o = o + s + c + x + y + z + w + a
    OBVIOUS
  <2> QED BY <2>2, <2>3, <2>4, <2>5
<1>9. q.unready => q.owed > 0
  BY <1>3, <1>4 DEF WorkIsBounded
<1>10. JobIsSound(q)
  BY <1>2, <1>3, <1>6, <1>7, <1>8, <1>9, ServiceIsSound
<1> QED BY <1>2, <1>3, <1>10 DEF q

\* An occurrence of the source is read.
LEMMA ScanIsSoundStep ==
  ASSUME RebuildAssumption, NEW j \in Jobs, JobIsSound(j), ~j.tiny, j.credit >= Price(j),
         j.built, j.building, j.row = {}, NEW k \in Keys, j.left[k] > 0
  PROVE  LET q == [Charged(j) EXCEPT !.left[k] = j.left[k] - 1,
                     !.row = IF j.left[k] = 1 /\ j.frozen.table[k] # NoValue THEN {k} ELSE {}]
         IN  q \in Jobs /\ PaidFrom(q, j) /\ JobIsSound(q)
<1> DEFINE left == [j.left EXCEPT ![k] = j.left[k] - 1]
           row == IF j.left[k] = 1 /\ j.frozen.table[k] # NoValue THEN {k} ELSE {}
           q == [Charged(j) EXCEPT !.left = left, !.row = row]
<1>1. PICK p \in Jobs : p = Charged(j)
  BY ChargedFacts
<1>2. j.left \in [Keys -> Nat] /\ j.left[k] \in Nat /\ j.frozen.table \in [Keys -> State]
      /\ j.frozen.records \in [Keys -> Nat] /\ j.candidate.table \in [Keys -> State]
  BY JobTypes, EngineTypes
<1>3. /\ left \in [Keys -> Nat] /\ row \in SUBSET Keys /\ left[k] = j.left[k] - 1
      /\ \A x \in Keys \ {k} : left[x] = j.left[x] /\ x \notin row
      /\ k \in row <=> left[k] = 0 /\ j.frozen.table[k] # NoValue
      /\ \A x \in row : row = {x} /\ x = k
  BY <1>2
<1>4. Physical([records |-> left]) = Physical([records |-> j.left]) - 1
      /\ Physical([records |-> left]) \in Nat /\ Physical([records |-> j.left]) \in Nat
  BY <1>2, <1>3, PhysicalFacts
<1>5. q = [Charged(j) EXCEPT !.left[k] = j.left[k] - 1, !.row = row]
  BY <1>1, ChargedFacts
<1> HIDE DEF left, row
<1>6. q \in Jobs
  BY <1>1, <1>3 DEF Jobs
<1>7. /\ PaidFrom(q, j) /\ q.replayed = j.replayed /\ q.rows = j.rows /\ q.queue = j.queue
      /\ q.built = j.built /\ q.building = j.building /\ q.left = left
      /\ q.row = row /\ q.candidate = j.candidate /\ q.owed = j.owed /\ q.unready = j.unready
  <2>1. /\ q.active = p.active /\ q.eager = p.eager /\ q.tiny = p.tiny
        /\ q.frozen = p.frozen /\ q.frozen_ordinal = p.frozen_ordinal
        /\ q.live = p.live /\ q.horizon = p.horizon /\ q.bound = p.bound
        /\ q.quantum = p.quantum /\ q.admitted = p.admitted /\ q.credit = p.credit
        /\ q.committed = p.committed /\ q.replayed = p.replayed /\ q.rows = p.rows
        /\ q.queue = p.queue /\ q.built = p.built /\ q.building = p.building
        /\ q.left = left /\ q.row = row /\ q.candidate = p.candidate
        /\ q.owed = p.owed /\ q.unready = p.unready
    BY <1>1 DEF Jobs
  <2>2. /\ PaidFrom(p, j) /\ p.replayed = j.replayed /\ p.rows = j.rows /\ p.queue = j.queue
        /\ p.built = j.built /\ p.building = j.building /\ p.left = j.left /\ p.row = j.row
        /\ p.candidate = j.candidate /\ p.owed = j.owed /\ p.unready = j.unready
    BY <1>1, ChargedFacts
  <2> HIDE DEF q
  <2> QED BY <2>1, <2>2 DEF PaidFrom
<1> HIDE DEF q
<1>8. FreezeIsSound(j) /\ ScanIsSound(j) /\ QueueIsSound(j) /\ WorkIsBounded(j)
  BY DEF JobIsSound
<1>9. q.frozen = j.frozen /\ RowLimit(q) = RowLimit(j)
  BY <1>7 DEF RowLimit, PaidFrom
<1>10. Copied(q) = Copied(j)
  <2>1. \A x \in Keys : x \in Copied(q) <=> x \in Copied(j)
    <3> SUFFICES ASSUME NEW x \in Keys PROVE x \in Copied(q) <=> x \in Copied(j)
      OBVIOUS
    <3>1. CASE x = k
      BY <1>2, <1>3, <1>7, <1>9, <3>1 DEF Copied
    <3>2. CASE x # k
      BY <1>3, <1>7, <1>9, <3>2 DEF Copied
    <3> QED BY <3>1, <3>2
  <2> QED BY <2>1 DEF Copied
<1>11. Scanned(q) = Scanned(j)
  <2>1. \A x \in Keys : Scanned(q)[x] = Scanned(j)[x]
    <3> SUFFICES ASSUME NEW x \in Keys PROVE Scanned(q)[x] = Scanned(j)[x]
      OBVIOUS
    <3>1. CASE x = k
      <4>1. Scanned(j)[x] = j.frozen.table[k]
        BY <3>1 DEF Scanned
      <4>2. CASE j.frozen.table[k] # NoValue
        BY <1>2, <1>3, <1>7, <1>9, <3>1, <4>1, <4>2 DEF Scanned
      <4>3. CASE j.frozen.table[k] = NoValue
        <5>1. k \notin Copied(j)
          BY <4>3 DEF Copied
        <5>2. j.candidate.table[k] = NoValue
          BY <1>8, <5>1 DEF ScanIsSound
        <5> QED BY <1>2, <1>3, <1>7, <1>9, <3>1, <4>1, <4>3, <5>2 DEF Scanned
      <4> QED BY <4>2, <4>3
    <3>2. CASE x # k
      BY <1>3, <1>7, <1>9, <3>2 DEF Scanned
    <3> QED BY <3>1, <3>2
  <2> QED BY <2>1 DEF Scanned
<1>12. ScanIsSound(q)
  <2>1. \A x \in Keys : q.left[x] <= q.frozen.records[x]
    <3>1. \A x \in Keys : j.left[x] <= j.frozen.records[x]
      BY <1>8 DEF ScanIsSound
    <3>2. left[k] <= j.frozen.records[k]
      BY <1>2, <1>3, <3>1
    <3> QED BY <1>3, <1>7, <1>9, <3>1, <3>2
  <2>2. \A x \in q.row : q.row = {x} /\ q.left[x] = 0 /\ q.frozen.table[x] # NoValue
    BY <1>3, <1>7, <1>9
  <2>3. EngineIsSound(q.candidate) /\ q.candidate.mass = q.rows + q.replayed
        /\ q.rows = Cardinality(Copied(q)) /\ q.replayed = 0 /\ q.built /\ q.building
    BY <1>7, <1>8, <1>10 DEF ScanIsSound
  <2>4. \A x \in Keys :
          q.candidate.table[x] = IF x \in Copied(q) THEN q.frozen.table[x] ELSE NoValue
    BY <1>7, <1>8, <1>9, <1>10 DEF ScanIsSound
  <2> QED BY <2>1, <2>2, <2>3, <2>4 DEF ScanIsSound
<1>13. QueueIsSound(q)
  BY <1>7, <1>8, <1>11 DEF QueueIsSound, PaidFrom
<1>14. PICK r \in Nat : Remaining(q) = r /\ r + Price(j) <= Remaining(j)
  <2>1. PICK o, s, c, x, y, z, w, a \in Nat : IsWork(j, o, s, c, x, y, z, w, a)
    BY <1>8, WorkParts
  <2>2. PICK m, t \in Nat : m = Physical([records |-> left]) /\ t = ScanPrice
    BY <1>4, PriceTypes
  <2>3. Price(j) = t
    <3>1. ~ScanDone(j)
      BY <1>4, <2>2 DEF ScanDone
    <3> QED BY <2>2, <3>1 DEF Price
  <2>4. Scanning(m + 1) = Scanning(m) + t /\ Scanning(m) \in Nat
    BY <2>2, ScanningFacts
  <2>5. PICK n \in Nat : n = Scanning(m)
    BY <2>4
  <2>6. s = n + t
    <3>1. Physical([records |-> j.left]) = m + 1
      BY <1>4, <2>2
    <3> QED BY <2>1, <2>4, <2>5, <3>1 DEF IsWork
  <2>7. Remaining(q) = o + n + c + x + y + z + w + a
    <3>1. Opening(q) = Opening(j) /\ Checking(q) = Checking(j)
      BY <1>7 DEF Opening, Checking
    <3> QED BY <1>7, <1>9, <2>1, <2>2, <2>5, <3>1 DEF Remaining, IsWork, PaidFrom
  <2>8. Remaining(j) = o + s + c + x + y + z + w + a
    BY <2>1 DEF IsWork
  <2>9. o + n + c + x + y + z + w + a \in Nat
        /\ o + n + c + x + y + z + w + a + t = o + s + c + x + y + z + w + a
    BY <2>6
  <2> QED BY <2>3, <2>7, <2>8, <2>9
<1>15. q.unready => q.owed > 0
  BY <1>7, <1>8 DEF WorkIsBounded
<1>16. JobIsSound(q)
  BY <1>6, <1>7, <1>12, <1>13, <1>14, <1>15, ServiceIsSound
<1> QED BY <1>5, <1>6, <1>7, <1>16 DEF q, row

\* The scan is over and agrees with its source.
LEMMA FinishIsSound ==
  ASSUME RebuildAssumption, NEW j \in Jobs, JobIsSound(j), ~j.tiny, j.credit >= Price(j),
         j.built, j.building, ScanDone(j)
  PROVE  LET q == [Charged(j) EXCEPT !.building = FALSE] IN q \in Jobs /\ PaidFrom(q, j) /\ JobIsSound(q)
<1> DEFINE q == [Charged(j) EXCEPT !.building = FALSE]
<1>1. PICK p \in Jobs : p = Charged(j)
  BY ChargedFacts
<1>2. q \in Jobs
  BY <1>1 DEF Jobs
<1>3. /\ PaidFrom(q, j) /\ q.replayed = j.replayed /\ q.rows = j.rows /\ q.queue = j.queue
      /\ q.built = j.built /\ q.building = FALSE /\ q.left = j.left
      /\ q.row = j.row /\ q.candidate = j.candidate /\ q.owed = j.owed /\ q.unready = j.unready
  <2>1. /\ q.active = p.active /\ q.eager = p.eager /\ q.tiny = p.tiny
        /\ q.frozen = p.frozen /\ q.frozen_ordinal = p.frozen_ordinal
        /\ q.live = p.live /\ q.horizon = p.horizon /\ q.bound = p.bound
        /\ q.quantum = p.quantum /\ q.admitted = p.admitted /\ q.credit = p.credit
        /\ q.committed = p.committed /\ q.replayed = p.replayed /\ q.rows = p.rows
        /\ q.queue = p.queue /\ q.built = p.built /\ q.building = FALSE
        /\ q.left = p.left /\ q.row = p.row /\ q.candidate = p.candidate
        /\ q.owed = p.owed /\ q.unready = p.unready
    BY <1>1 DEF Jobs
  <2>2. /\ PaidFrom(p, j) /\ p.replayed = j.replayed /\ p.rows = j.rows /\ p.queue = j.queue
        /\ p.built = j.built /\ p.building = j.building /\ p.left = j.left /\ p.row = j.row
        /\ p.candidate = j.candidate /\ p.owed = j.owed /\ p.unready = j.unready
    BY <1>1, ChargedFacts
  <2> HIDE DEF q
  <2> QED BY <2>1, <2>2 DEF PaidFrom
<1> HIDE DEF q
<1>4. FreezeIsSound(j) /\ ScanIsSound(j) /\ QueueIsSound(j) /\ WorkIsBounded(j)
  BY DEF JobIsSound
<1>5. Copied(q) = Copied(j) /\ Scanned(q) = Scanned(j) /\ RowLimit(q) = RowLimit(j)
  BY <1>3 DEF Copied, Scanned, RowLimit, PaidFrom
<1>6. j.row = {} /\ \A k \in Keys : j.left[k] = 0
  BY JobTypes, PhysicalFacts DEF ScanDone
<1>7. ScanIsSound(q)
  BY <1>3, <1>4, <1>5, <1>6 DEF ScanIsSound, PaidFrom
<1>8. QueueIsSound(q)
  BY <1>3, <1>4, <1>5 DEF QueueIsSound, PaidFrom
<1>9. PICK r \in Nat : Remaining(q) = r /\ r + Price(j) <= Remaining(j)
  <2>1. PICK o, s, c, x, y, z, w, a \in Nat : IsWork(j, o, s, c, x, y, z, w, a)
    BY <1>4, WorkParts
  <2>2. Price(j) = a /\ c = a
    BY <2>1 DEF Price, IsWork, Checking
  <2>3. /\ Opening(q) = o /\ Checking(q) = 0 /\ RowLimit(q) = RowLimit(j)
        /\ Remaining(j) = o + s + c + x + y + z + w + a
    BY <1>3, <1>5, <2>1 DEF IsWork, Opening, Checking
  <2>4. Remaining(q) = o + s + 0 + x + y + z + w + a
    BY <1>3, <2>1, <2>3 DEF Remaining, IsWork, PaidFrom
  <2>5. o + s + 0 + x + y + z + w + a \in Nat
        /\ o + s + 0 + x + y + z + w + a + a = o + s + c + x + y + z + w + a
    BY <2>2
  <2> QED BY <2>2, <2>3, <2>4, <2>5
<1>10. q.unready => q.owed > 0
  BY <1>3, <1>4 DEF WorkIsBounded
<1>11. JobIsSound(q)
  BY <1>2, <1>3, <1>7, <1>8, <1>9, <1>10, ServiceIsSound
<1> QED BY <1>2, <1>3, <1>11 DEF q

\* Maintenance of the candidate is paid off.
LEMMA AdvanceIsSound ==
  ASSUME RebuildAssumption, NEW j \in Jobs, JobIsSound(j), ~j.tiny, j.credit >= Price(j),
         j.built, j.row # {} \/ ~j.building, j.owed > 0, NEW m \in Nat, NEW unready \in BOOLEAN,
         m = IF j.owed > ActionBound THEN j.owed - ActionBound ELSE 0, unready => m > 0
  PROVE  LET q == [Charged(j) EXCEPT !.owed = m, !.unready = unready] IN q \in Jobs /\ PaidFrom(q, j) /\ JobIsSound(q)
<1> DEFINE q == [Charged(j) EXCEPT !.owed = m, !.unready = unready]
<1>1. PICK p \in Jobs : p = Charged(j)
  BY ChargedFacts
<1>2. q \in Jobs
  <2>1. \A v \in Jobs, n \in Nat, b \in BOOLEAN : [v EXCEPT !.owed = n, !.unready = b] \in Jobs
    BY DEF Jobs
  <2> QED BY <1>1, <2>1
<1>3. /\ PaidFrom(q, j) /\ q.replayed = j.replayed /\ q.rows = j.rows /\ q.queue = j.queue
      /\ q.built = j.built /\ q.building = j.building /\ q.left = j.left
      /\ q.row = j.row /\ q.candidate = j.candidate /\ q.owed = m /\ q.unready = unready
  <2>1. /\ q.active = p.active /\ q.eager = p.eager /\ q.tiny = p.tiny
        /\ q.frozen = p.frozen /\ q.frozen_ordinal = p.frozen_ordinal
        /\ q.live = p.live /\ q.horizon = p.horizon /\ q.bound = p.bound
        /\ q.quantum = p.quantum /\ q.admitted = p.admitted /\ q.credit = p.credit
        /\ q.committed = p.committed /\ q.replayed = p.replayed /\ q.rows = p.rows
        /\ q.queue = p.queue /\ q.built = p.built /\ q.building = p.building
        /\ q.left = p.left /\ q.row = p.row /\ q.candidate = p.candidate
        /\ q.owed = m /\ q.unready = unready
    BY <1>1 DEF Jobs
  <2>2. /\ PaidFrom(p, j) /\ p.replayed = j.replayed /\ p.rows = j.rows /\ p.queue = j.queue
        /\ p.built = j.built /\ p.building = j.building /\ p.left = j.left /\ p.row = j.row
        /\ p.candidate = j.candidate /\ p.owed = j.owed /\ p.unready = j.unready
    BY <1>1, ChargedFacts
  <2> HIDE DEF q
  <2> QED BY <2>1, <2>2 DEF PaidFrom
<1> HIDE DEF q
<1>4. FreezeIsSound(j) /\ ScanIsSound(j) /\ QueueIsSound(j)
  BY DEF JobIsSound
<1>5. Copied(q) = Copied(j) /\ Scanned(q) = Scanned(j) /\ RowLimit(q) = RowLimit(j)
  BY <1>3 DEF Copied, Scanned, RowLimit, PaidFrom
<1>6. ScanIsSound(q)
  BY <1>3, <1>4, <1>5 DEF ScanIsSound, PaidFrom
<1>7. QueueIsSound(q)
  BY <1>3, <1>4, <1>5 DEF QueueIsSound, PaidFrom
<1>8. PICK r \in Nat : Remaining(q) = r /\ r + Price(j) <= Remaining(j)
  <2>1. PICK o, s, c, x, y, z, w, a \in Nat : IsWork(j, o, s, c, x, y, z, w, a)
    BY <1>4, WorkParts
  <2>2. Price(j) = a
    BY <2>1 DEF Price, IsWork
  <2>3. PICK n, u \in Nat : n = j.owed /\ u = Owing(m)
    BY JobTypes, OwingFacts
  <2>4. u + a <= w
    BY <2>1, <2>3, OwingFacts DEF IsWork
  <2>5. /\ Opening(q) = o /\ Checking(q) = c /\ RowLimit(q) = RowLimit(j)
        /\ Remaining(j) = o + s + c + x + y + z + w + a
    BY <1>3, <1>5, <2>1 DEF IsWork, Opening, Checking
  <2>6. Remaining(q) = o + s + c + x + y + z + u + a
    BY <1>3, <2>1, <2>3, <2>5 DEF Remaining, IsWork, PaidFrom
  <2>7. o + s + c + x + y + z + u + a \in Nat
        /\ o + s + c + x + y + z + u + a + a <= o + s + c + x + y + z + w + a
    BY <2>4
  <2> QED BY <2>2, <2>5, <2>6, <2>7
<1>9. JobIsSound(q)
  BY <1>2, <1>3, <1>6, <1>7, <1>8, ServiceIsSound
<1> QED BY <1>2, <1>3, <1>9 DEF q

\* The candidate takes a record.
Taken(j, c, folded, carry, unready) ==
  [j EXCEPT !.candidate = Admitted(@, c, folded), !.owed = @ + carry, !.unready = unready]

Takes(q, j, c, carry, unready) ==
  /\ q.active = j.active /\ q.eager = j.eager /\ q.tiny = j.tiny
  /\ q.frozen = j.frozen /\ q.frozen_ordinal = j.frozen_ordinal /\ q.live = j.live
  /\ q.horizon = j.horizon /\ q.bound = j.bound /\ q.quantum = j.quantum
  /\ q.admitted = j.admitted /\ q.credit = j.credit /\ q.committed = j.committed
  /\ q.replayed = j.replayed /\ q.rows = j.rows /\ q.queue = j.queue
  /\ q.built = j.built /\ q.building = j.building /\ q.left = j.left /\ q.row = j.row
  /\ q.owed = j.owed + carry /\ q.unready = unready
  /\ EngineIsSound(q.candidate) /\ q.candidate.mass = j.candidate.mass + 1
  /\ q.candidate.table = [j.candidate.table EXCEPT ![c.key] = c.value]

\* What taking a record leaves as it was.
LEMMA TakenFacts ==
  ASSUME RebuildAssumption, NEW j \in Jobs, EngineIsSound(j.candidate), NEW c \in Change,
         NEW folded \in BOOLEAN, NEW carry \in Nat, NEW unready \in BOOLEAN,
         NEW q, q = Taken(j, c, folded, carry, unready)
  PROVE  q \in Jobs /\ Takes(q, j, c, carry, unready)
<1>1. j.candidate \in Engines /\ j.owed \in Nat
  BY JobTypes
<1>2. PICK e \in Engines : /\ e = Admitted(j.candidate, c, folded) /\ EngineIsSound(e)
                           /\ e.mass = j.candidate.mass + 1
                           /\ e.table = [j.candidate.table EXCEPT ![c.key] = c.value]
  <2>1. PICK e : e = Admitted(j.candidate, c, folded)
    OBVIOUS
  <2>2. /\ e \in Engines /\ EngineIsSound(e) /\ e.mass = j.candidate.mass + 1
        /\ e.table = [j.candidate.table EXCEPT ![c.key] = c.value]
    BY <1>1, <2>1, AdmittedFacts
  <2> QED BY <2>1, <2>2
<1>3. PICK m \in Nat : m = j.owed + carry
  BY <1>1
<1>4. q = [j EXCEPT !.candidate = e, !.owed = m, !.unready = unready]
  BY <1>2, <1>3 DEF Taken, Jobs
<1>5. q \in Jobs
  <2>1. \A v \in Jobs, u \in Engines :
          [v EXCEPT !.candidate = u, !.owed = m, !.unready = unready] \in Jobs
    BY DEF Jobs
  <2>2. [j EXCEPT !.candidate = e, !.owed = m, !.unready = unready] \in Jobs
    BY <2>1
  <2> QED BY <1>4, <2>2, Zenon
<1>6. /\ q.active = j.active /\ q.eager = j.eager /\ q.tiny = j.tiny
      /\ q.frozen = j.frozen /\ q.frozen_ordinal = j.frozen_ordinal /\ q.live = j.live
      /\ q.horizon = j.horizon /\ q.bound = j.bound /\ q.quantum = j.quantum
      /\ q.admitted = j.admitted /\ q.credit = j.credit /\ q.committed = j.committed
      /\ q.replayed = j.replayed /\ q.rows = j.rows /\ q.queue = j.queue
      /\ q.built = j.built /\ q.building = j.building /\ q.left = j.left /\ q.row = j.row
      /\ q.owed = m /\ q.unready = unready /\ q.candidate = e
  BY <1>4 DEF Jobs
<1> QED BY <1>2, <1>3, <1>5, <1>6 DEF Takes

\* A row is copied into the candidate.
LEMMA CopyIsSound ==
  ASSUME RebuildAssumption, NEW j \in Jobs, JobIsSound(j), ~j.tiny, j.credit >= Price(j),
         j.built, j.building, NEW k \in j.row, NEW folded \in BOOLEAN,
         NEW carry \in Carries, NEW unready \in BOOLEAN, unready => carry > 0
  PROVE  LET c == [key |-> k, value |-> j.frozen.table[k]]
             q == Taken([Charged(j) EXCEPT !.row = {}, !.rows = @ + 1], c, folded, carry, unready)
         IN  q \in Jobs /\ PaidFrom(q, j) /\ JobIsSound(q)
<1> DEFINE c == [key |-> k, value |-> j.frozen.table[k]]
           p == [Charged(j) EXCEPT !.row = {}, !.rows = @ + 1]
           q == Taken(p, c, folded, carry, unready)
<1>1. /\ k \in Keys /\ j.rows \in Nat /\ j.frozen.table \in [Keys -> State] /\ j.left \in [Keys -> Nat]
      /\ carry \in Nat /\ carry \in 0..CarryBound /\ j.candidate.table \in [Keys -> State]
  BY JobTypes, EngineTypes DEF RebuildAssumption
<1>2. c \in Change /\ c.key = k /\ c.value = j.frozen.table[k]
  BY <1>1 DEF Change
<1>3. PICK n \in Nat : n = j.rows + 1
  BY <1>1
<1>4. p = [Charged(j) EXCEPT !.row = {}, !.rows = n]
  BY <1>3, ChargedFacts DEF Jobs
<1>5. p \in Jobs
  <2>1. \A v \in Jobs : [v EXCEPT !.row = {}, !.rows = n] \in Jobs
    BY DEF Jobs
  <2> QED BY <1>4, <2>1, ChargedFacts
<1>6. /\ PaidFrom(p, j) /\ p.replayed = j.replayed /\ p.rows = n /\ p.queue = j.queue
      /\ p.built = j.built /\ p.building = j.building /\ p.left = j.left
      /\ p.row = {} /\ p.candidate = j.candidate /\ p.owed = j.owed /\ p.unready = j.unready
  <2>1. PICK v \in Jobs : v = Charged(j)
    BY ChargedFacts
  <2>2. p = [v EXCEPT !.row = {}, !.rows = n]
    BY <1>4, <2>1
  <2> HIDE DEF p
  <2>3. /\ p.active = v.active /\ p.eager = v.eager /\ p.tiny = v.tiny
        /\ p.frozen = v.frozen /\ p.frozen_ordinal = v.frozen_ordinal /\ p.live = v.live
        /\ p.horizon = v.horizon /\ p.bound = v.bound /\ p.quantum = v.quantum
        /\ p.admitted = v.admitted /\ p.credit = v.credit /\ p.committed = v.committed
        /\ p.replayed = v.replayed /\ p.rows = n /\ p.queue = v.queue
        /\ p.built = v.built /\ p.building = v.building /\ p.left = v.left
        /\ p.row = {} /\ p.candidate = v.candidate /\ p.owed = v.owed /\ p.unready = v.unready
    BY <2>2 DEF Jobs
  <2>4. /\ PaidFrom(v, j) /\ v.replayed = j.replayed /\ v.queue = j.queue
        /\ v.built = j.built /\ v.building = j.building /\ v.left = j.left
        /\ v.candidate = j.candidate /\ v.owed = j.owed /\ v.unready = j.unready
    BY <2>1, ChargedFacts
  <2> QED BY <2>3, <2>4 DEF PaidFrom
<1>7. FreezeIsSound(j) /\ ScanIsSound(j) /\ QueueIsSound(j)
  BY DEF JobIsSound
<1> HIDE DEF p, c
<1>8. EngineIsSound(p.candidate)
  BY <1>6, <1>7 DEF ScanIsSound
<1>9. /\ q \in Jobs /\ PaidFrom(q, j) /\ q.replayed = j.replayed /\ q.rows = n /\ q.queue = j.queue
      /\ q.built = j.built /\ q.building = j.building /\ q.left = j.left
      /\ q.row = {} /\ q.owed = j.owed + carry /\ q.unready = unready
      /\ EngineIsSound(q.candidate) /\ q.candidate.mass = j.candidate.mass + 1
      /\ q.candidate.table = [j.candidate.table EXCEPT ![k] = j.frozen.table[k]]
  <2>1. PICK v \in Jobs, d \in Change : v = p /\ d = c
    BY <1>2, <1>5
  <2>2. q = Taken(v, d, folded, carry, unready) /\ EngineIsSound(v.candidate)
    BY <1>8, <2>1
  <2> HIDE DEF q
  <2>3. q \in Jobs /\ Takes(q, v, d, carry, unready)
    BY <1>1, <2>2, TakenFacts
  <2>4. PaidFrom(q, j)
    BY <1>6, <2>1, <2>3 DEF PaidFrom, Takes
  <2> QED BY <1>2, <1>6, <2>1, <2>3, <2>4 DEF Takes
<1> HIDE DEF q
<1>10. j.row = {k} /\ j.left[k] = 0 /\ j.frozen.table[k] # NoValue
  BY <1>7 DEF ScanIsSound
<1>11. q.frozen = j.frozen /\ RowLimit(q) = RowLimit(j)
  BY <1>9 DEF RowLimit, PaidFrom
<1>12. Copied(q) = Copied(j) \cup {k} /\ k \notin Copied(j)
  BY <1>1, <1>9, <1>10, <1>11 DEF Copied
<1>13. Scanned(q) = Scanned(j)
  <2>1. \A x \in Keys : Scanned(q)[x] = Scanned(j)[x]
    <3> SUFFICES ASSUME NEW x \in Keys PROVE Scanned(q)[x] = Scanned(j)[x]
      OBVIOUS
    <3>1. CASE x = k
      BY <1>1, <1>9, <1>10, <1>11, <3>1 DEF Scanned
    <3>2. CASE x # k
      BY <1>1, <1>9, <1>10, <1>11, <3>2 DEF Scanned
    <3> QED BY <3>1, <3>2
  <2> QED BY <2>1 DEF Scanned
<1>14. ScanIsSound(q)
  <2>1. q.rows = Cardinality(Copied(q))
    <3>1. IsFiniteSet(Copied(j)) /\ j.rows = Cardinality(Copied(j))
      BY <1>7, CopiedFacts DEF ScanIsSound
    <3>2. Cardinality(Copied(j) \cup {k}) = Cardinality(Copied(j)) + 1
      BY <1>12, <3>1, FS_AddElement
    <3> QED BY <1>3, <1>9, <1>12, <3>1, <3>2
  <2>2. q.candidate.mass = q.rows + q.replayed
    <3>1. j.candidate.mass = j.rows + j.replayed /\ j.replayed \in Nat
      BY <1>7, JobTypes DEF ScanIsSound
    <3> QED BY <1>1, <1>3, <1>9, <3>1
  <2>3. \A x \in Keys :
          q.candidate.table[x] = IF x \in Copied(q) THEN q.frozen.table[x] ELSE NoValue
    <3>1. \A x \in Keys :
          j.candidate.table[x] = IF x \in Copied(j) THEN j.frozen.table[x] ELSE NoValue
      BY <1>7 DEF ScanIsSound
    <3> QED BY <1>1, <1>9, <1>11, <1>12, <3>1
  <2>4. \A x \in Keys : q.left[x] <= q.frozen.records[x]
    BY <1>7, <1>9, <1>11 DEF ScanIsSound
  <2>5. q.replayed = 0 /\ q.built /\ q.building /\ q.row = {}
    BY <1>7, <1>9 DEF ScanIsSound
  <2> QED BY <1>9, <2>1, <2>2, <2>3, <2>4, <2>5 DEF ScanIsSound
<1>15. QueueIsSound(q)
  BY <1>7, <1>9, <1>13 DEF QueueIsSound, PaidFrom
<1>16. PICK r \in Nat : Remaining(q) = r /\ r + Price(j) <= Remaining(j)
  <2>1. PICK o, s, d, x, y, z, w, a \in Nat : IsWork(j, o, s, d, x, y, z, w, a)
    BY <1>7, WorkParts
  <2>2. Price(j) = a
    BY <1>10, <2>1 DEF Price, IsWork
  <2>3. PICK l, m \in Nat : l = j.live - j.rows /\ m = RowLimit(j) - j.rows - j.replayed /\ m >= l
    BY <1>7, WorkTypes DEF QueueIsSound
  <2>4. q.rows <= q.live
    <3>1. FreezeIsSound(q)
      BY <1>7, <1>9 DEF PaidFrom, FreezeIsSound
    <3> QED BY <1>9, <1>14, <3>1, CopiedFacts
  <2>5. PICK f, g \in Nat : l = f + 1 /\ m = g + 1
    <3>1. PICK i, e \in Nat : i = j.live /\ e = j.rows
      BY JobTypes
    <3>2. e + 1 <= i /\ l = i - e
      BY <1>3, <1>9, <2>3, <2>4, <3>1 DEF PaidFrom
    <3>3. l > 0
      BY <3>2
    <3> QED BY <2>3, <3>3
  <2>6. PICK h, b \in Nat : h = j.owed /\ b = CarryBound
    BY PriceTypes, JobTypes
  <2>7. PICK u, v, t \in Nat : u = Reading(f) /\ v = Taking(g) /\ t = Owing(h + carry)
    <3>1. PICK e \in Nat : e = h + carry
      BY <1>1
    <3>2. Reading(f) \in Nat /\ Taking(g) \in Nat
      BY ReadingFacts, TakingFacts
    <3>3. Owing(e) \in Nat
      BY OwingFacts
    <3> QED BY <3>1, <3>2, <3>3
  <2>8. x = u + a /\ z = v + b + a
    <3>1. Reading(f + 1) = Reading(f) + ActionBound /\ Taking(g + 1) = Taking(g) + CarryBound + ActionBound
      BY ReadingFacts, TakingFacts
    <3>2. x = Reading(f + 1) /\ z = Taking(g + 1) /\ a = ActionBound
      BY <2>1, <2>3, <2>5 DEF IsWork
    <3> QED BY <2>6, <2>7, <3>1, <3>2
  <2>9. t <= w + b + a
    BY <1>1, <2>1, <2>6, <2>7, OwingFacts DEF IsWork
  <2>10. Remaining(q) = o + s + d + u + y + v + t + a
    <3>1. Opening(q) = Opening(j) /\ Checking(q) = Checking(j)
      BY <1>9 DEF Opening, Checking
    <3>2. q.live - q.rows = f
      <4>1. q.live = j.live /\ j.live \in Nat
        BY <1>9, JobTypes DEF PaidFrom
      <4> QED BY <1>1, <1>3, <1>9, <2>3, <2>5, <4>1
    <3>3. RowLimit(q) - q.rows - q.replayed = g
      <4>1. j.replayed \in Nat /\ j.live \in Nat /\ j.horizon \in Nat
        BY JobTypes
      <4>2. RowLimit(j) \in Nat
        BY <4>1 DEF RowLimit
      <4> QED BY <1>1, <1>3, <1>9, <1>11, <2>3, <2>5, <4>1, <4>2
    <3>4. q.owed = h + carry /\ q.left = j.left /\ q.admitted - q.replayed = j.admitted - j.replayed
      BY <1>9, <2>6 DEF PaidFrom
    <3> QED BY <2>1, <2>7, <3>1, <3>2, <3>3, <3>4 DEF Remaining, IsWork
  <2>11. Remaining(j) = o + s + d + x + y + z + w + a
    BY <2>1 DEF IsWork
  <2>12. o + s + d + u + y + v + t + a \in Nat
        /\ o + s + d + u + y + v + t + a + a <= o + s + d + x + y + z + w + a
    BY <2>8, <2>9
  <2> QED BY <2>2, <2>10, <2>11, <2>12
<1>17. q.unready => q.owed > 0
  <2>1. j.owed \in Nat
    BY JobTypes
  <2> QED BY <1>1, <1>9, <2>1
<1>18. JobIsSound(q)
  BY <1>9, <1>14, <1>15, <1>16, <1>17, ServiceIsSound
<1> QED BY <1>9, <1>18 DEF q, p, c

\* The oldest entry of the queue is replayed.
LEMMA ReplayIsSound ==
  ASSUME RebuildAssumption, NEW j \in Jobs, JobIsSound(j), ~j.tiny, j.credit >= Price(j),
         j.built, ~j.building, j.queue # <<>>, NEW folded \in BOOLEAN,
         NEW carry \in Carries, NEW unready \in BOOLEAN, unready => carry > 0
  PROVE  LET q == Taken([Charged(j) EXCEPT !.queue = Tail(@), !.replayed = @ + 1],
                        Head(j.queue).change, folded, carry, unready)
         IN  q \in Jobs /\ PaidFrom(q, j) /\ JobIsSound(q)
<1> DEFINE c == Head(j.queue).change
           tail == Tail(j.queue)
           p == [Charged(j) EXCEPT !.queue = Tail(@), !.replayed = @ + 1]
           q == Taken(p, c, folded, carry, unready)
<1>1. /\ j.replayed \in Nat /\ j.queue \in Seq(Entries) /\ j.frozen.table \in [Keys -> State]
      /\ carry \in Nat /\ carry \in 0..CarryBound /\ j.candidate.table \in [Keys -> State]
  BY JobTypes, EngineTypes DEF RebuildAssumption
<1>2. /\ tail \in Seq(Entries) /\ Len(tail) = Len(j.queue) - 1 /\ Len(j.queue) \in Nat
      /\ \A i \in 1..Len(tail) : tail[i] = j.queue[i + 1]
      /\ j.queue[1] \in Entries /\ Head(j.queue) = j.queue[1]
  BY <1>1
<1>3. c \in Change /\ c.key \in Keys /\ c.value \in State
  BY <1>2 DEF Entries, Change
<1>4. PICK n \in Nat : n = j.replayed + 1
  BY <1>1
<1>5. PICK v \in Jobs : v = Charged(j)
  BY ChargedFacts
<1>6. /\ v.queue = j.queue /\ v.replayed = j.replayed /\ v.rows = j.rows /\ v.built = j.built
      /\ v.building = j.building /\ v.left = j.left /\ v.row = j.row /\ v.owed = j.owed
  BY <1>5, ChargedFacts
<1>7. Tail(v.queue) = tail /\ v.replayed + 1 = n
  BY <1>4, <1>6
<1> HIDE DEF tail, c
<1>8. p = [v EXCEPT !.queue = tail, !.replayed = n]
  BY <1>5, <1>7
<1>9. p \in Jobs
  <2>1. \A u \in Jobs, s \in Seq(Entries) : [u EXCEPT !.queue = s, !.replayed = n] \in Jobs
    BY DEF Jobs
  <2> QED BY <1>2, <1>8, <2>1
<1> HIDE DEF p
<1>10. /\ p.active = v.active /\ p.eager = v.eager /\ p.tiny = v.tiny
       /\ p.frozen = v.frozen /\ p.frozen_ordinal = v.frozen_ordinal /\ p.live = v.live
       /\ p.horizon = v.horizon /\ p.bound = v.bound /\ p.quantum = v.quantum
       /\ p.admitted = v.admitted /\ p.credit = v.credit /\ p.committed = v.committed
       /\ p.replayed = n /\ p.rows = v.rows /\ p.queue = tail
       /\ p.built = v.built /\ p.building = v.building /\ p.left = v.left
       /\ p.row = v.row /\ p.candidate = v.candidate /\ p.owed = v.owed /\ p.unready = v.unready
  BY <1>8 DEF Jobs
<1>11. FreezeIsSound(j) /\ ScanIsSound(j) /\ QueueIsSound(j)
  BY DEF JobIsSound
<1>12. p.candidate = j.candidate /\ PaidFrom(p, j)
  BY <1>5, <1>10, ChargedFacts DEF PaidFrom
<1>13. EngineIsSound(p.candidate)
  BY <1>11, <1>12 DEF ScanIsSound
<1>14. PICK u \in Jobs, d \in Change : u = p /\ d = c
  BY <1>3, <1>9
<1>15. q = Taken(u, d, folded, carry, unready) /\ EngineIsSound(u.candidate)
  BY <1>13, <1>14
<1> HIDE DEF q
<1>16. q \in Jobs /\ Takes(q, u, d, carry, unready)
  BY <1>1, <1>15, TakenFacts
<1>17. PaidFrom(q, j)
  BY <1>12, <1>14, <1>16 DEF PaidFrom, Takes
<1>18. /\ q.replayed = n /\ q.rows = j.rows /\ q.queue = tail
       /\ q.built = j.built /\ q.building = j.building /\ q.left = j.left /\ q.row = j.row
       /\ q.owed = j.owed + carry /\ q.candidate.mass = j.candidate.mass + 1
       /\ q.candidate.table = [j.candidate.table EXCEPT ![c.key] = c.value]
  <2>1. /\ q.replayed = n /\ q.rows = v.rows /\ q.queue = tail
        /\ q.built = v.built /\ q.building = v.building /\ q.left = v.left /\ q.row = v.row
        /\ q.owed = v.owed + carry /\ u.candidate = j.candidate /\ d = c
    BY <1>10, <1>12, <1>14, <1>16 DEF Takes
  <2>2. /\ q.candidate.mass = j.candidate.mass + 1
        /\ q.candidate.table = [j.candidate.table EXCEPT ![c.key] = c.value]
    BY <1>16, <2>1 DEF Takes
  <2> QED BY <1>6, <2>1, <2>2
<1>19. q.frozen = j.frozen /\ RowLimit(q) = RowLimit(j)
  BY <1>17 DEF RowLimit, PaidFrom
<1>20. Copied(q) = Copied(j)
  BY <1>18, <1>19 DEF Copied
<1>21. Scanned(j) = j.candidate.table /\ Scanned(q) = q.candidate.table
  <2>1. \A x \in Keys : j.left[x] = 0 /\ x \notin j.row
    BY <1>11 DEF ScanIsSound
  <2>2. q.candidate.table \in [Keys -> State]
    BY <1>16, JobTypes, EngineTypes
  <2> QED BY <1>1, <1>18, <2>1, <2>2 DEF Scanned
<1>22. PICK k, l, m \in Nat : k = j.admitted /\ l = j.replayed /\ m = Len(j.queue) /\ m = k - l /\ m > 0
  <2>1. Len(j.queue) = j.admitted - j.replayed /\ j.admitted \in Nat /\ Len(j.queue) > 0
    BY <1>1, <1>11, JobTypes DEF QueueIsSound
  <2> QED BY <1>1, <1>2, <2>1
<1>23. ScanIsSound(q)
  <2>1. q.candidate.mass = q.rows + q.replayed
    <3>1. j.candidate.mass = j.rows + j.replayed /\ j.rows \in Nat
      BY <1>11, JobTypes DEF ScanIsSound
    <3> QED BY <1>1, <1>4, <1>18, <3>1
  <2>2. q.rows = Cardinality(Copied(q)) /\ EngineIsSound(q.candidate) /\ ~q.building /\ q.built
    BY <1>11, <1>16, <1>18, <1>20 DEF ScanIsSound, Takes
  <2>3. q.row = {} /\ \A x \in Keys : q.left[x] = 0 /\ q.left[x] <= q.frozen.records[x]
    BY <1>11, <1>18, <1>19 DEF ScanIsSound
  <2> QED BY <2>1, <2>2, <2>3 DEF ScanIsSound
<1>24. QueueIsSound(q)
  <2>1. Len(q.queue) = q.admitted - q.replayed
    <3>1. q.admitted = k
      BY <1>17, <1>22 DEF PaidFrom
    <3>2. m - 1 = k - (l + 1)
      BY <1>22
    <3> QED BY <1>2, <1>4, <1>18, <1>22, <3>1, <3>2
  <2>2. \A i \in 1..Len(q.queue) : q.queue[i].ordinal = q.frozen_ordinal + q.replayed + i
    <3> SUFFICES ASSUME NEW i \in 1..Len(tail) PROVE tail[i].ordinal = j.frozen_ordinal + n + i
      BY <1>17, <1>18 DEF PaidFrom
    <3>1. i + 1 \in 1..Len(j.queue) /\ tail[i] = j.queue[i + 1]
      BY <1>2
    <3>2. j.queue[i + 1].ordinal = j.frozen_ordinal + j.replayed + (i + 1)
      BY <1>11, <3>1 DEF QueueIsSound
    <3>3. PICK f \in Nat : f = j.frozen_ordinal
      BY JobTypes
    <3>4. f + l + (i + 1) = f + (l + 1) + i
      BY <1>2
    <3> QED BY <1>4, <1>22, <3>1, <3>2, <3>3, <3>4
  <2>3. Changes(q.queue, Scanned(q)) = foreground.table
    <3>1. Changes(j.queue, j.candidate.table) = foreground.table
      BY <1>11, <1>21 DEF QueueIsSound
    <3>2. Changes(Tail(j.queue), [j.candidate.table EXCEPT ![Head(j.queue).change.key] = Head(j.queue).change.value])
            = Changes(j.queue, j.candidate.table)
      BY <1>1, ChangesTail
    <3> QED BY <1>18, <1>21, <3>1, <3>2 DEF tail, c
  <2> QED BY <1>11, <1>17, <2>1, <2>2, <2>3 DEF QueueIsSound, PaidFrom
<1>25. PICK r \in Nat : Remaining(q) = r /\ r + Price(j) <= Remaining(j)
  <2>1. PICK o, s, e, x, y, z, w, a \in Nat : IsWork(j, o, s, e, x, y, z, w, a)
    BY <1>11, WorkParts
  <2>2. Price(j) = a
    BY <2>1 DEF Price, IsWork
  <2>3. PICK g, h \in Nat : g + 1 = m /\ h + 1 = RowLimit(j) - j.rows - j.replayed
    <3>1. PICK i \in Nat : i = RowLimit(j) - j.rows - j.replayed /\ i >= j.admitted - j.replayed
      BY <1>11, WorkTypes DEF QueueIsSound
    <3>2. i > 0
      BY <1>22, <3>1
    <3>3. PICK g \in Nat : g = m - 1
      BY <1>22
    <3>4. PICK h \in Nat : h = i - 1
      BY <3>2
    <3>5. g + 1 = m /\ h + 1 = i
      BY <3>3, <3>4
    <3> QED BY <3>1, <3>5
  <2>4. PICK f, b \in Nat : f = j.owed /\ b = CarryBound
    BY PriceTypes, JobTypes
  <2>5. PICK i, t, z2 \in Nat : i = Reading(g) /\ z2 = Taking(h) /\ t = Owing(f + carry)
    <3>1. PICK x2 \in Nat : x2 = f + carry
      BY <1>1
    <3>2. Reading(g) \in Nat /\ Taking(h) \in Nat
      BY ReadingFacts, TakingFacts
    <3>3. Owing(x2) \in Nat
      BY OwingFacts
    <3> QED BY <3>1, <3>2, <3>3
  <2>6. y = i + a /\ z = z2 + b + a
    <3>1. Reading(g + 1) = Reading(g) + ActionBound /\ Taking(h + 1) = Taking(h) + CarryBound + ActionBound
      BY ReadingFacts, TakingFacts
    <3>2. y = Reading(m) /\ z = Taking(h + 1) /\ a = ActionBound
      BY <1>22, <2>1, <2>3 DEF IsWork
    <3> QED BY <2>3, <2>4, <2>5, <3>1, <3>2
  <2>7. t <= w + b + a
    BY <1>1, <2>1, <2>4, <2>5, OwingFacts DEF IsWork
  <2>8. Remaining(q) = o + s + e + x + i + z2 + t + a
    <3>1. Opening(q) = Opening(j) /\ Checking(q) = Checking(j)
      BY <1>18 DEF Opening, Checking
    <3>2. q.live - q.rows = j.live - j.rows /\ q.left = j.left
      BY <1>17, <1>18 DEF PaidFrom
    <3>3. RowLimit(q) - q.rows - q.replayed = h
      <4>1. j.rows \in Nat /\ j.live \in Nat /\ j.horizon \in Nat
        BY JobTypes
      <4>2. RowLimit(j) \in Nat
        BY <4>1 DEF RowLimit
      <4>3. PICK i2, r2 \in Nat : i2 = RowLimit(j) /\ r2 = j.rows
        BY <4>1, <4>2
      <4>4. i2 - r2 - (l + 1) = h
        <5>1. h + 1 = i2 - r2 - l
          BY <1>22, <2>3, <4>3
        <5> QED BY <5>1
      <4>5. n = l + 1
        BY <1>4, <1>22
      <4> QED BY <1>18, <1>19, <4>3, <4>4, <4>5
    <3>4. q.admitted - q.replayed = g
      <4>1. q.admitted = k
        BY <1>17, <1>22 DEF PaidFrom
      <4>2. k - (l + 1) = g
        BY <1>22, <2>3
      <4> QED BY <1>4, <1>18, <1>22, <4>1, <4>2
    <3>5. q.owed = f + carry
      BY <1>18, <2>4
    <3> QED BY <2>1, <2>5, <3>1, <3>2, <3>3, <3>4, <3>5 DEF Remaining, IsWork
  <2>9. Remaining(j) = o + s + e + x + y + z + w + a
    BY <2>1 DEF IsWork
  <2>10. o + s + e + x + i + z2 + t + a \in Nat
         /\ o + s + e + x + i + z2 + t + a + a <= o + s + e + x + y + z + w + a
    <3>1. i + z2 + t + a + a <= y + z + w + a
      BY <2>6, <2>7
    <3>2. o + s + e + x + i + z2 + t + a \in Nat
      OBVIOUS
    <3>3. o + s + e + x + i + z2 + t + a + a <= o + s + e + x + y + z + w + a
      BY <3>1
    <3> QED BY <3>2, <3>3
  <2> QED BY <2>2, <2>8, <2>9, <2>10
<1>26. q.unready => q.owed > 0
  <2>1. j.owed \in Nat
    BY JobTypes
  <2> QED BY <1>1, <1>16, <1>18, <2>1 DEF Takes
<1>27. JobIsSound(q)
  BY <1>16, <1>17, <1>23, <1>24, <1>25, <1>26, ServiceIsSound
<1> QED BY <1>16, <1>17, <1>27 DEF q, p, c

-----------------------------------------------------------------------------
(***************************************************************************)
(* Steps of the rebuild.                                                   *)
(***************************************************************************)

\* A rebuild that is sound stays so when only the rebuild is replaced.
LEMMA JobCarries ==
  ASSUME NEW q \in Jobs, JobIsSound(q), job' = q,
         foreground' = foreground, accepted' = accepted, recovering' = recovering
  PROVE  JobIsSound(job)'
BY DEF JobIsSound, FreezeIsSound, ScanIsSound, QueueIsSound, WorkIsBounded, GrantsSuffice

\* An action on the candidate alone preserves the invariant.
LEMMA CandidateStep ==
  ASSUME IInv, job.active, NEW q \in Jobs, PaidFrom(q, job), JobIsSound(q),
         job' = q, UNCHANGED <<engineVars, accepted, recovering, published, control, restarts>>
  PROVE  IInv'
<1> USE DEF engineVars
<1>1. TypeOK'
  BY DEF IInv, TypeOK
<1>2. (EngineIsSound(foreground) /\ EngineIsSound(published) /\ Validates(published))'
  BY DEF IInv, EngineIsSound, Validates
<1>3. job'.active = job.active /\ job'.eager = job.eager /\ job'.admitted = job.admitted
      /\ job'.horizon = job.horizon /\ job'.live = job.live
  BY DEF PaidFrom
<1>4. ControlIsSound'
  BY <1>3 DEF IInv, ControlIsSound
<1>5. BatchIsApplied'
  BY DEF IInv, BatchIsApplied
<1>6. GenerationIsSound'
  BY <1>3 DEF IInv, GenerationIsSound
<1>7. JobIsSound(job)'
  BY JobCarries
<1> QED BY <1>1, <1>2, <1>4, <1>5, <1>6, <1>7 DEF IInv

\* What the invariant says when service() can take an action.
LEMMA ServiceFacts ==
  ASSUME IInv, CanService
  PROVE  job \in Jobs /\ JobIsSound(job) /\ job.credit >= Price(job) /\ job.active
BY JobIsTyped DEF IInv, CanService

\* The candidate and its scan are created (service: candidate).
LEMMA OpenCandidateStep ==
  ASSUME RebuildAssumption, IInv, OpenCandidate
  PROVE  IInv'
<1>1. CanService /\ job' = [Charged(job) EXCEPT !.built = TRUE] /\ ~job.tiny /\ ~job.built
      /\ UNCHANGED <<engineVars, accepted, recovering, published, control, restarts>>
  BY DEF OpenCandidate, Serviced, Paid, Charged
<1>2. PICK j \in Jobs : j = job
  BY <1>1, ServiceFacts
<1>3. JobIsSound(j) /\ j.credit >= Price(j) /\ job.active
  BY <1>1, <1>2, ServiceFacts
<1>4. PICK q \in Jobs : /\ q = [Charged(j) EXCEPT !.built = TRUE]
                        /\ PaidFrom(q, j) /\ JobIsSound(q)
  BY <1>1, <1>2, <1>3, OpenIsSound
<1> QED BY <1>1, <1>2, <1>3, <1>4, CandidateStep

\* One occurrence of the source is scanned (service: step).
LEMMA ScanOneStep ==
  ASSUME RebuildAssumption, IInv, ScanOne
  PROVE  IInv'
<1>1. PICK k \in Keys :
         /\ job.left[k] > 0
         /\ Serviced([Paid EXCEPT
              !.left[k] = job.left[k] - 1,
              !.row = IF job.left[k] = 1 /\ job.frozen.table[k] # NoValue THEN {k} ELSE {}])
  BY DEF ScanOne
<1>2. CanService /\ job.built /\ job.building /\ job.row = {}
      /\ UNCHANGED <<engineVars, accepted, recovering, published, control, restarts>>
  BY <1>1 DEF ScanOne, Serviced
<1>3. PICK j \in Jobs : j = job
  BY <1>2, ServiceFacts
<1>4. JobIsSound(j) /\ j.credit >= Price(j) /\ job.active
  BY <1>2, <1>3, ServiceFacts
<1>5. ~j.tiny
  BY <1>2, <1>3, <1>4 DEF JobIsSound, FreezeIsSound
<1>6. job' = [Charged(j) EXCEPT !.left[k] = j.left[k] - 1,
                !.row = IF j.left[k] = 1 /\ j.frozen.table[k] # NoValue THEN {k} ELSE {}]
  BY <1>1, <1>3 DEF Serviced, Paid, Charged
<1>7. PICK q \in Jobs : q = job' /\ PaidFrom(q, j) /\ JobIsSound(q)
  BY <1>1, <1>2, <1>3, <1>4, <1>5, <1>6, ScanIsSoundStep
<1> QED BY <1>2, <1>3, <1>4, <1>7, CandidateStep

\* The scan has ended and agrees with what was frozen (service: scan done).
LEMMA FinishScanStep ==
  ASSUME RebuildAssumption, IInv, FinishScan
  PROVE  IInv'
<1>1. CanService /\ job' = [Charged(job) EXCEPT !.building = FALSE]
      /\ job.built /\ job.building /\ ScanDone(job)
      /\ UNCHANGED <<engineVars, accepted, recovering, published, control, restarts>>
  BY DEF FinishScan, Serviced, Paid, Charged
<1>2. PICK j \in Jobs : j = job
  BY <1>1, ServiceFacts
<1>3. JobIsSound(j) /\ j.credit >= Price(j) /\ job.active
  BY <1>1, <1>2, ServiceFacts
<1>4. ~j.tiny
  BY <1>1, <1>2, <1>3 DEF JobIsSound, FreezeIsSound
<1>5. PICK q \in Jobs : /\ q = [Charged(j) EXCEPT !.building = FALSE]
                        /\ PaidFrom(q, j) /\ JobIsSound(q)
  BY <1>1, <1>2, <1>3, <1>4, FinishIsSound
<1> QED BY <1>1, <1>2, <1>3, <1>5, CandidateStep

\* Maintenance of the candidate is served (service: candidate->advance).
LEMMA CandidateAdvanceStep ==
  ASSUME RebuildAssumption, IInv, CandidateAdvance
  PROVE  IInv'
<1> DEFINE owed == IF job.owed > ActionBound THEN job.owed - ActionBound ELSE 0
<1>1. PICK unready \in BOOLEAN :
         /\ unready => job.unready /\ owed > 0
         /\ Serviced([Paid EXCEPT !.owed = owed, !.unready = unready])
  BY DEF CandidateAdvance
<1>2. /\ CanService /\ ~job.tiny /\ job.built
      /\ \/ job.unready /\ (job.row # {} \/ (~job.building /\ job.queue # <<>>))
         \/ ~job.building /\ job.queue = <<>> /\ job.owed > 0
      /\ UNCHANGED <<engineVars, accepted, recovering, published, control, restarts>>
  BY <1>1 DEF CandidateAdvance, Serviced
<1>3. PICK j \in Jobs : j = job
  BY <1>2, ServiceFacts
<1>4. JobIsSound(j) /\ j.credit >= Price(j) /\ job.active
  BY <1>2, <1>3, ServiceFacts
<1>5. j.owed > 0 /\ (j.row # {} \/ ~j.building)
  BY <1>2, <1>3, <1>4 DEF JobIsSound, WorkIsBounded
<1>6. PICK m \in Nat : m = owed /\ m = IF j.owed > ActionBound THEN j.owed - ActionBound ELSE 0
  <2>1. j.owed \in Nat /\ ActionBound \in Nat
    BY JobTypes, PriceTypes
  <2> QED BY <1>3, <2>1
<1>7. job' = [Charged(j) EXCEPT !.owed = m, !.unready = unready]
  BY <1>1, <1>3, <1>6 DEF Serviced, Paid, Charged
<1> HIDE DEF owed
<1>8. PICK q \in Jobs : q = job' /\ PaidFrom(q, j) /\ JobIsSound(q)
  <2>1. (unready => m > 0) /\ ~j.tiny /\ j.built
    BY <1>1, <1>2, <1>3, <1>6
  <2>2. LET q == [Charged(j) EXCEPT !.owed = m, !.unready = unready]
        IN  q \in Jobs /\ PaidFrom(q, j) /\ JobIsSound(q)
    BY <1>4, <1>5, <1>6, <2>1, AdvanceIsSound
  <2> QED BY <1>7, <2>2
<1> QED BY <1>2, <1>3, <1>4, <1>8, CandidateStep

\* A row becomes a clean arrow of the candidate (service: row).
LEMMA CopyRowStep ==
  ASSUME RebuildAssumption, IInv, CopyRow
  PROVE  IInv'
<1>1. PICK k \in job.row :
         AdmitToCandidate([key |-> k, value |-> job.frozen.table[k]],
                          [Paid EXCEPT !.row = {}, !.rows = @ + 1])
  BY DEF CopyRow
<1>2. PICK folded \in Foldings, carry \in Carries, unready \in BOOLEAN :
         /\ unready => carry > 0
         /\ Serviced(Taken([Paid EXCEPT !.row = {}, !.rows = @ + 1],
                           [key |-> k, value |-> job.frozen.table[k]], folded, carry, unready))
  BY <1>1 DEF AdmitToCandidate, Taken
<1>3. CanService /\ job.built /\ job.building
      /\ UNCHANGED <<engineVars, accepted, recovering, published, control, restarts>>
  BY <1>2 DEF CopyRow, Serviced
<1>4. PICK j \in Jobs : j = job
  BY <1>3, ServiceFacts
<1>5. JobIsSound(j) /\ j.credit >= Price(j) /\ job.active
  BY <1>3, <1>4, ServiceFacts
<1>6. ~j.tiny /\ folded \in BOOLEAN /\ k \in j.row
  BY <1>3, <1>4, <1>5 DEF JobIsSound, FreezeIsSound, RebuildAssumption
<1>7. job' = Taken([Charged(j) EXCEPT !.row = {}, !.rows = @ + 1],
                   [key |-> k, value |-> j.frozen.table[k]], folded, carry, unready)
  BY <1>2, <1>4 DEF Serviced, Paid, Charged
<1>8. PICK q \in Jobs : q = job' /\ PaidFrom(q, j) /\ JobIsSound(q)
  <2>1. j.built /\ j.building
    BY <1>3, <1>4
  <2>2. LET c == [key |-> k, value |-> j.frozen.table[k]]
            q == Taken([Charged(j) EXCEPT !.row = {}, !.rows = @ + 1], c, folded, carry, unready)
        IN  q \in Jobs /\ PaidFrom(q, j) /\ JobIsSound(q)
    BY <1>2, <1>5, <1>6, <2>1, CopyIsSound
  <2> QED BY <1>7, <2>2
<1> QED BY <1>3, <1>4, <1>5, <1>8, CandidateStep

\* The oldest queued write is replayed (service: replay).
LEMMA ReplayStep ==
  ASSUME RebuildAssumption, IInv, Replay
  PROVE  IInv'
<1>1. PICK folded \in Foldings, carry \in Carries, unready \in BOOLEAN :
         /\ unready => carry > 0
         /\ Serviced(Taken([Paid EXCEPT !.queue = Tail(@), !.replayed = @ + 1],
                           Head(job.queue).change, folded, carry, unready))
  BY DEF Replay, AdmitToCandidate, Taken
<1>2. CanService /\ job.built /\ ~job.building /\ job.queue # <<>>
      /\ UNCHANGED <<engineVars, accepted, recovering, published, control, restarts>>
  BY <1>1 DEF Replay, Serviced
<1>3. PICK j \in Jobs : j = job
  BY <1>2, ServiceFacts
<1>4. JobIsSound(j) /\ j.credit >= Price(j) /\ job.active
  BY <1>2, <1>3, ServiceFacts
<1>5. ~j.tiny /\ folded \in BOOLEAN /\ j.built /\ ~j.building /\ j.queue # <<>>
  BY <1>2, <1>3, <1>4 DEF JobIsSound, FreezeIsSound, RebuildAssumption
<1>6. job' = Taken([Charged(j) EXCEPT !.queue = Tail(@), !.replayed = @ + 1],
                   Head(j.queue).change, folded, carry, unready)
  BY <1>1, <1>3 DEF Serviced, Paid, Charged
<1>7. PICK q \in Jobs : q = job' /\ PaidFrom(q, j) /\ JobIsSound(q)
  <2>1. LET q == Taken([Charged(j) EXCEPT !.queue = Tail(@), !.replayed = @ + 1],
                       Head(j.queue).change, folded, carry, unready)
        IN  q \in Jobs /\ PaidFrom(q, j) /\ JobIsSound(q)
    BY <1>1, <1>4, <1>5, ReplayIsSound
  <2> QED BY <1>6, <2>1
<1> QED BY <1>2, <1>3, <1>4, <1>7, CandidateStep

\* The counts and the tables agree when the scan is over.
LEMMA ScanAgrees ==
  ASSUME RebuildAssumption, NEW j \in Jobs, JobIsSound(j), j.building, ScanDone(j)
  PROVE  j.rows = j.live /\ j.candidate.mass = j.live /\ j.candidate.table = j.frozen.table
<1>1. FreezeIsSound(j) /\ ScanIsSound(j)
  BY DEF JobIsSound
<1>2. j.row = {} /\ \A k \in Keys : j.left[k] = 0
  BY JobTypes, PhysicalFacts DEF ScanDone
<1>3. j.rows = j.live
  BY <1>1, <1>2, CopiedFacts
<1>4. j.candidate.mass = j.rows + 0 /\ j.rows \in Nat
  BY <1>1, JobTypes DEF ScanIsSound
<1>5. \A k \in Keys : j.candidate.table[k] = j.frozen.table[k]
  BY <1>1, <1>2 DEF ScanIsSound, Copied
<1>6. j.candidate.table = j.frozen.table
  <2>1. j.candidate.table \in [Keys -> State] /\ j.frozen.table \in [Keys -> State]
    BY JobTypes, EngineTypes
  <2> QED BY <1>5, <2>1
<1> QED BY <1>3, <1>4, <1>6

\* And when the queue is empty.
LEMMA QueueAgrees ==
  ASSUME RebuildAssumption, NEW j \in Jobs, JobIsSound(j), ~j.building, j.queue = <<>>
  PROVE  /\ j.replayed = j.admitted /\ j.candidate.mass = j.live + j.replayed
         /\ j.candidate.table = foreground.table
<1>1. FreezeIsSound(j) /\ ScanIsSound(j) /\ QueueIsSound(j)
  BY DEF JobIsSound
<1>2. j.row = {} /\ \A k \in Keys : j.left[k] = 0
  BY <1>1 DEF ScanIsSound
<1>3. j.rows = j.live
  BY <1>1, <1>2, CopiedFacts
<1>4. j.candidate.table \in [Keys -> State] /\ j.admitted \in Nat /\ j.replayed \in Nat
  BY JobTypes, EngineTypes
<1>5. Scanned(j) = j.candidate.table
  BY <1>2, <1>4 DEF Scanned
<1>6. Changes(j.queue, j.candidate.table) = j.candidate.table
  <2>1. j.queue \in Seq(Entries)
    BY JobTypes
  <2> QED BY <1>4, <2>1, ChangesType
<1>7. j.replayed = j.admitted
  <2>1. Len(j.queue) = 0 /\ Len(j.queue) = j.admitted - j.replayed
    BY <1>1 DEF QueueIsSound
  <2> QED BY <1>4, <2>1
<1> QED BY <1>1, <1>3, <1>5, <1>6, <1>7 DEF ScanIsSound, QueueIsSound

\* A tiny rebuild has nothing to replay.
LEMMA TinyAgrees ==
  ASSUME NEW j \in Jobs, JobIsSound(j), j.tiny
  PROVE  j.eager /\ j.queue = <<>> /\ j.admitted = 0 /\ j.frozen.table = foreground.table
<1>1. j.eager /\ j.admitted = 0 /\ foreground.table = j.frozen.table
  BY DEF JobIsSound, FreezeIsSound, QueueIsSound
<1>2. j.queue \in Seq(Entries) /\ j.replayed \in Nat
  BY JobTypes
<1>3. Len(j.queue) = 0
  <2>1. Len(j.queue) = 0 - j.replayed /\ Len(j.queue) \in Nat
    BY <1>1, <1>2 DEF JobIsSound, QueueIsSound
  <2> QED BY <1>2, <2>1
<1> QED BY <1>1, <1>2, <1>3

\* The candidate, or what is built in its place, takes the foreground's place.
LEMMA InstallStep ==
  ASSUME RebuildAssumption, IInv, CanService, NEW e \in Engines, EngineIsSound(e), NEW n \in Nat,
         n = job.admitted, e.mass = job.live + n, e.table = foreground.table, Install(e, n)
  PROVE  IInv'
<1>1. PICK j \in Jobs : j = job /\ JobIsSound(j)
  BY ServiceFacts
<1>2. /\ foreground' = e /\ base' = j.live /\ mutations' = n /\ job' = NoJob /\ recovering' = FALSE
      /\ UNCHANGED <<due, accepted, published, control, restarts>>
  BY <1>1 DEF Install
<1>3. j.live \in Nat /\ j.horizon \in Nat /\ j.eager \in BOOLEAN
  BY <1>1, JobTypes
<1>4. job'.active = FALSE
  BY <1>2 DEF NoJob
<1>5. TypeOK'
  BY <1>2, <1>3 DEF IInv, TypeOK
<1>6. (EngineIsSound(foreground) /\ EngineIsSound(published) /\ Validates(published))'
  BY <1>2 DEF IInv, EngineIsSound, Validates
<1>7. ControlIsSound'
  BY <1>2, <1>4 DEF IInv, ControlIsSound, CanService
<1>8. BatchIsApplied'
  BY <1>2 DEF IInv, BatchIsApplied
<1>9. GenerationIsSound'
  <2>1. FreezeIsSound(j) /\ QueueIsSound(j) /\ n = j.admitted
    BY <1>1 DEF JobIsSound
  <2>2. j.live <= Live(e.table) + n
    BY <2>1 DEF QueueIsSound
  <2>3. CASE j.eager
    <3>1. n = 0 /\ Live(e.table) = j.live
      BY <2>1, <2>3 DEF QueueIsSound, FreezeIsSound
    <3>2. j.live >= SmallLimit => 0 < Trigger(j.live)
      BY <1>3, HorizonFacts
    <3> QED BY <1>1, <1>2, <1>3, <1>4, <2>2, <3>1, <3>2 DEF GenerationIsSound, RebuildAssumption
  <2>4. CASE ~j.eager
    <3>1. j.live >= SmallLimit /\ n <= Horizon(j.live)
      BY <2>1, <2>4 DEF QueueIsSound, FreezeIsSound
    <3>2. Horizon(j.live) < Trigger(j.live) /\ Horizon(j.live) \in Nat /\ Trigger(j.live) \in Nat
      BY <1>3, <3>1, HorizonFacts
    <3>3. n < Trigger(j.live) /\ ~(j.live < SmallLimit)
      BY <1>3, <3>1, <3>2 DEF RebuildAssumption
    <3> QED BY <1>1, <1>2, <1>3, <1>4, <2>2, <3>3 DEF GenerationIsSound
  <2> QED BY <1>3, <2>3, <2>4
<1> QED BY <1>4, <1>5, <1>6, <1>7, <1>8, <1>9 DEF IInv

\* The candidate becomes the foreground (service: handoff).
LEMMA HandoffStep ==
  ASSUME RebuildAssumption, IInv, Handoff
  PROVE  IInv'
<1>1. CanService /\ ~job.building /\ job.queue = <<>> /\ Install(job.candidate, job.replayed)
  BY DEF Handoff, Settled
<1>2. PICK j \in Jobs : j = job /\ JobIsSound(j)
  BY <1>1, ServiceFacts
<1>3. /\ j.replayed = j.admitted /\ j.candidate.mass = j.live + j.replayed
      /\ j.candidate.table = foreground.table
  BY <1>1, <1>2, QueueAgrees
<1>4. j.candidate \in Engines /\ j.replayed \in Nat /\ EngineIsSound(j.candidate)
  BY <1>2, JobTypes DEF JobIsSound, ScanIsSound
<1>5. PICK e \in Engines, n \in Nat : e = j.candidate /\ n = j.replayed
  BY <1>4
<1>6. EngineIsSound(e) /\ n = job.admitted /\ e.mass = job.live + n /\ e.table = foreground.table
      /\ Install(e, n)
  BY <1>1, <1>2, <1>3, <1>4, <1>5
<1> QED BY <1>1, <1>6, InstallStep

\* An engine that holds a table and nothing else.
LEMMA CleanFacts ==
  ASSUME RebuildAssumption, NEW t \in [Keys -> State]
  PROVE  /\ CleanEngine(t) \in Engines /\ EngineIsSound(CleanEngine(t))
         /\ CleanEngine(t).table = t /\ CleanEngine(t).mass = Live(t)
<1>1. Live(t) \in Nat
  BY LiveFacts
<1>2. CleanEngine(t) \in Engines /\ CleanEngine(t).table = t /\ CleanEngine(t).mass = Live(t)
  BY <1>1 DEF CleanEngine, Engines
<1>3. \A k \in Keys : t[k] # NoValue => CleanEngine(t).records[k] > 0
  BY DEF CleanEngine
<1> QED BY <1>1, <1>2, <1>3 DEF EngineIsSound

\* A small rebuild is done as one action (tiny_rebuild).
LEMMA TinyRebuildStep ==
  ASSUME RebuildAssumption, IInv, TinyRebuild
  PROVE  IInv'
<1>1. CanService /\ job.tiny /\ Install(CleanEngine(job.frozen.table), 0)
  BY DEF TinyRebuild
<1>2. PICK j \in Jobs : j = job /\ JobIsSound(j)
  BY <1>1, ServiceFacts
<1>3. j.admitted = 0 /\ j.frozen.table = foreground.table
  BY <1>1, <1>2, TinyAgrees
<1>4. j.frozen.table \in [Keys -> State] /\ j.live \in Nat /\ j.live = Live(j.frozen.table)
  BY <1>2, JobTypes, EngineTypes DEF JobIsSound, FreezeIsSound
<1>5. PICK e \in Engines, n \in Nat : e = CleanEngine(j.frozen.table) /\ n = 0
  BY <1>4, CleanFacts
<1>6. EngineIsSound(e) /\ e.table = j.frozen.table /\ e.mass = j.live
  BY <1>4, <1>5, CleanFacts
<1>7. n = job.admitted /\ e.mass = job.live + n /\ e.table = foreground.table /\ Install(e, n)
  BY <1>1, <1>2, <1>3, <1>4, <1>5, <1>6
<1> QED BY <1>1, <1>6, <1>7, InstallStep

\* Service stops when its credit does not reach the next action (service: break).
LEMMA EndServiceStep ==
  ASSUME RebuildAssumption, IInv, EndService
  PROVE  IInv'
<1>1. /\ control.at = "service" /\ ~CanService /\ control' = [control EXCEPT !.at = "settle"]
      /\ UNCHANGED <<foreground, due, base, mutations, accepted, job, recovering, published, restarts>>
  BY DEF EndService, Goto, engineVars
<1>2. /\ control'.at = "settle" /\ control'.input = control.input /\ control'.left = control.left
      /\ control' \in Controls
  BY <1>1 DEF IInv, TypeOK, Controls
<1>3. TypeOK'
  BY <1>1, <1>2 DEF IInv, TypeOK
<1>4. (EngineIsSound(foreground) /\ EngineIsSound(published) /\ Validates(published))'
  BY <1>1 DEF IInv, EngineIsSound, Validates
<1>5. ControlIsSound'
  <2>1. job.active => IF job.eager THEN recovering ELSE job.admitted < job.horizon
    <3> SUFFICES ASSUME job.active PROVE IF job.eager THEN recovering ELSE job.admitted < job.horizon
      OBVIOUS
    <3>1. PICK j \in Jobs : j = job /\ JobIsSound(j)
      BY JobIsTyped DEF IInv
    <3>2. ~(j.credit >= Price(j))
      BY <1>1, <3>1 DEF CanService
    <3>3. FreezeIsSound(j) /\ ScanIsSound(j) /\ QueueIsSound(j) /\ WorkIsBounded(j) /\ GrantsSuffice(j)
      BY <3>1 DEF JobIsSound
    <3>4. Len(j.queue) = j.admitted - j.replayed /\ j.admitted <= j.horizon /\ (j.eager => j.admitted = 0)
      BY <3>3 DEF QueueIsSound
    <3>5. j.committed + Price(j) <= j.bound + j.admitted * ActionBound
      BY <3>3, <3>4, NextIsCovered
    <3>6. IF j.eager THEN recovering ELSE j.admitted < j.horizon
      BY <3>2, <3>3, <3>4, <3>5, StopsInTime
    <3> QED BY <3>1, <3>6
  <2> QED BY <1>1, <1>2, <2>1 DEF IInv, ControlIsSound
<1>6. BatchIsApplied'
  <2>1. BatchIsApplied
    BY DEF IInv
  <2>2. /\ control'.input = control.input /\ control'.left = control.left
        /\ control.at # "failed" /\ foreground' = foreground /\ published' = published
    BY <1>1, <1>2
  <2> QED BY <2>1, <2>2 DEF BatchIsApplied
<1>7. GenerationIsSound'
  BY <1>1 DEF IInv, GenerationIsSound
<1>8. (job.active => JobIsSound(job))'
  BY <1>1 DEF IInv, JobIsSound, QueueIsSound, GrantsSuffice
<1> QED BY <1>3, <1>4, <1>5, <1>6, <1>7, <1>8 DEF IInv

-----------------------------------------------------------------------------
(***************************************************************************)
(* Steps of a call.                                                        *)
(***************************************************************************)

\* A contribution is a nonempty sequence of changes to distinct keys.
LEMMA BatchFacts ==
  \A b \in Batch : /\ b \in Seq(Change) /\ Len(b) \in Nat /\ Len(b) > 0 /\ b # <<>>
                   /\ \A i, j \in 1..Len(b) : b[i].key = b[j].key => i = j
<1> SUFFICES ASSUME NEW b \in Batch
             PROVE  /\ b \in Seq(Change) /\ Len(b) \in Nat /\ Len(b) > 0 /\ b # <<>>
                    /\ \A i, j \in 1..Len(b) : b[i].key = b[j].key => i = j
  OBVIOUS
<1>1. PICK n \in 1..MaxBatch : b \in [1..n -> Change]
  BY DEF Batch
<1>2. n \in Nat /\ n > 0
  BY <1>1
<1>3. b \in Seq(Change) /\ Len(b) = n /\ DOMAIN b = 1..n
  BY <1>1, <1>2
<1> QED BY <1>2, <1>3 DEF Batch

\* The first n entries of a batch, and no others, are in a table.
Applied(b, n, old, new) ==
  /\ \A i \in 1..n : new[b[i].key] = b[i].value
  /\ \A k \in Keys : (\A i \in 1..n : b[i].key # k) => new[k] = old[k]

\* All but those are left, and the keys that a batch removes are there.
Rest(b, l, n) == Len(b) - Len(l) = n /\ \A i \in 1..Len(l) : l[i] = b[n + i]
Removes(b, old) == \A i \in 1..Len(b) : b[i].value = NoValue => old[b[i].key] # NoValue

\* What a call has to know of its batch after a step.
LEMMA BatchHolds ==
  ASSUME NEW b \in Seq(Change), NEW r \in Seq(Change), NEW m \in Nat,
         control'.input = b, control'.left = r, Rest(b, r, m),
         Removes(b, published'.table), Applied(b, m, published'.table, foreground'.table)
  PROVE  BatchIsApplied'
<1>1. \A i \in 1..m : foreground'.table[b[i].key] = b[i].value
  BY DEF Applied
<1>2. \A k \in Keys : (\A i \in 1..m : b[i].key # k) => foreground'.table[k] = published'.table[k]
  BY DEF Applied
<1>5. Len(b) - Len(r) = m /\ \A i \in 1..Len(r) : r[i] = b[m + i]
  BY DEF Rest
<1>6. \A i \in 1..Len(b) : b[i].value = NoValue => published'.table[b[i].key] # NoValue
  BY DEF Removes
<1>3. BatchIsApplied' <=>
      /\ m >= 0
      /\ \A i \in 1..Len(r) : r[i] = b[m + i]
      /\ \A i \in 1..Len(b) : b[i].value = NoValue => published'.table[b[i].key] # NoValue
      /\ control'.at # "failed" =>
           /\ \A i \in 1..m : foreground'.table[b[i].key] = b[i].value
           /\ \A k \in Keys : (\A i \in 1..m : b[i].key # k) => foreground'.table[k] = published'.table[k]
  BY <1>5 DEF BatchIsApplied
<1>4. m >= 0
  OBVIOUS
<1> QED BY <1>1, <1>2, <1>3, <1>4, <1>5, <1>6, Zenon

\* One more is in it when the next is applied.
LEMMA OneMoreApplied ==
  ASSUME NEW b \in Seq(Change), \A i, j \in 1..Len(b) : b[i].key = b[j].key => i = j,
         NEW old \in [Keys -> State], NEW new \in [Keys -> State], NEW n \in Nat,
         n + 1 \in 1..Len(b), Applied(b, n, old, new), NEW next,
         next = [new EXCEPT ![b[n + 1].key] = b[n + 1].value]
  PROVE  Applied(b, n + 1, old, next)
<1>1. PICK c \in Change : c = b[n + 1]
  OBVIOUS
<1>2. c.key \in Keys /\ next[c.key] = c.value /\ \A k \in Keys \ {c.key} : next[k] = new[k]
  BY <1>1 DEF Change
<1>3. \A i \in 1..n : i \in 1..Len(b) /\ b[i].key \in Keys /\ b[i].key # c.key
  <2> SUFFICES ASSUME NEW i \in 1..n PROVE i \in 1..Len(b) /\ b[i].key \in Keys /\ b[i].key # c.key
    OBVIOUS
  <2>1. i \in 1..Len(b) /\ i # n + 1
    OBVIOUS
  <2>2. b[i] \in Change
    BY <2>1
  <2> QED BY <1>1, <2>1, <2>2 DEF Change
<1>4. \A i \in 1..(n + 1) : next[b[i].key] = b[i].value
  <2> SUFFICES ASSUME NEW i \in 1..(n + 1) PROVE next[b[i].key] = b[i].value
    OBVIOUS
  <2>1. CASE i = n + 1
    BY <1>1, <1>2, <2>1
  <2>2. CASE i \in 1..n
    BY <1>2, <1>3, <2>2 DEF Applied
  <2> QED BY <2>1, <2>2
<1>5. ASSUME NEW k \in Keys, \A i \in 1..(n + 1) : b[i].key # k
      PROVE  next[k] = old[k]
  <2>1. k # c.key /\ \A i \in 1..n : b[i].key # k
    BY <1>1, <1>5
  <2> QED BY <1>2, <2>1 DEF Applied
<1> QED BY <1>4, <1>5 DEF Applied

\* What is left of a batch when one more entry is applied.
LEMMA LeftOfBatch ==
  ASSUME NEW b \in Seq(Change), NEW l \in Seq(Change), l # <<>>, NEW n \in Nat, Rest(b, l, n)
  PROVE  /\ n + 1 \in Nat /\ n + 1 \in 1..Len(b) /\ Head(l) = b[n + 1] /\ Head(l) \in Change
         /\ Tail(l) \in Seq(Change) /\ Rest(b, Tail(l), n + 1)
<1>1. PICK m, p \in Nat : m = Len(l) /\ p = Len(b) /\ m > 0
  OBVIOUS
<1>2. p = n + m /\ \A i \in 1..m : l[i] = b[n + i]
  BY <1>1 DEF Rest
<1>3. n + 1 \in Nat /\ n + 1 \in 1..Len(b) /\ Head(l) = b[n + 1] /\ Head(l) \in Change
  BY <1>1, <1>2
<1>4. /\ Tail(l) \in Seq(Change) /\ Len(Tail(l)) = m - 1
      /\ \A i \in 1..(m - 1) : Tail(l)[i] = l[i + 1]
  BY <1>1
<1>5. p - (m - 1) = n + 1
  BY <1>1, <1>2
<1>6. ASSUME NEW i \in 1..(m - 1)
      PROVE  Tail(l)[i] = b[(n + 1) + i]
  <2>1. i + 1 \in 1..Len(l) /\ n + (i + 1) = (n + 1) + i
    BY <1>1
  <2> QED BY <1>1, <1>2, <1>4, <2>1
<1> QED BY <1>1, <1>3, <1>4, <1>5, <1>6 DEF Rest

\* The entry that is applied next is the first that the foreground lacks.
LEMMA NextEntryFacts ==
  ASSUME IInv, control.at = "apply"
  PROVE  \E b, l \in Seq(Change), n \in Nat :
    /\ b = control.input /\ l = control.left /\ b \in Batch /\ b # <<>> /\ l # <<>> /\ ~recovering
    /\ Rest(b, l, n) /\ Removes(b, published.table)
    /\ \A i, j \in 1..Len(b) : b[i].key = b[j].key => i = j
    /\ Applied(b, n, published.table, foreground.table)
<1>1. PICK b, l \in Seq(Change) : b = control.input /\ l = control.left
  BY DEF IInv, TypeOK, Controls
<1>2. l # <<>> /\ b # <<>> /\ b \in Batch /\ ~recovering
  BY <1>1 DEF IInv, ControlIsSound
<1>3. \A i, j \in 1..Len(b) : b[i].key = b[j].key => i = j
  BY <1>2, BatchFacts
<1>4. BatchIsApplied
  BY DEF IInv
<1>5. Len(b) - Len(l) >= 0
  BY <1>1, <1>4 DEF BatchIsApplied
<1>6. PICK n \in Nat : n = Len(b) - Len(l)
  <2>1. PICK m, p \in Nat : m = Len(b) /\ p = Len(l)
    OBVIOUS
  <2>2. m - p \in Nat
    BY <1>5, <2>1
  <2> QED BY <2>1, <2>2
<1>7. Rest(b, l, n) /\ Removes(b, published.table) /\ Applied(b, n, published.table, foreground.table)
  BY <1>1, <1>4, <1>6 DEF BatchIsApplied, Applied, Rest, Removes
<1> QED BY <1>1, <1>2, <1>3, <1>6, <1>7

\* An entry that is applied: what every case of apply() has in common.
LEMMA AdmitEntryStep ==
  ASSUME RebuildAssumption, IInv, control.at = "apply", NEW folded \in Foldings, AdmitEntry(folded),
         NEW place \in {"settle", "service"},
         control' = [control EXCEPT !.at = place, !.left = Tail(@)]
  PROVE  /\ control' \in Controls /\ control'.at = place /\ control'.input = control.input
         /\ control.input # <<>> /\ control.input \in Batch /\ ~recovering /\ ~due
         /\ foreground' \in Engines /\ EngineIsSound(foreground') /\ BatchIsApplied'
         /\ foreground'.mass = foreground.mass + 1
         /\ Entry \in Change
         /\ foreground'.table = [foreground.table EXCEPT ![Entry.key] = Entry.value]
         /\ Live(foreground'.table) \in Nat /\ Live(foreground.table) \in Nat
         /\ Live(foreground'.table) >= Live(foreground.table) - 1
         /\ foreground.table[Entry.key] = NoValue /\ Entry.value # NoValue
              => Live(foreground'.table) = Live(foreground.table) + 1
         /\ accepted' = accepted + 1 /\ UNCHANGED <<due, recovering, published, restarts>>
<1>1. PICK b, l \in Seq(Change), n \in Nat :
    /\ b = control.input /\ l = control.left /\ b \in Batch /\ b # <<>> /\ l # <<>> /\ ~recovering
    /\ Rest(b, l, n) /\ Removes(b, published.table)
    /\ \A i, j \in 1..Len(b) : b[i].key = b[j].key => i = j
    /\ Applied(b, n, published.table, foreground.table)
  BY NextEntryFacts
<1>2. foreground \in Engines /\ EngineIsSound(foreground) /\ control \in Controls
      /\ folded \in BOOLEAN /\ published \in Snapshots
  BY DEF IInv, TypeOK, RebuildAssumption
<1>3. foreground' = Admitted(foreground, Entry, folded) /\ ~due
      /\ accepted' = accepted + 1 /\ UNCHANGED <<due, recovering, published, restarts>>
  BY DEF AdmitEntry
<1>4. /\ n + 1 \in Nat /\ n + 1 \in 1..Len(b) /\ Head(l) = b[n + 1] /\ Head(l) \in Change
      /\ Tail(l) \in Seq(Change) /\ Rest(b, Tail(l), n + 1)
  <2>1. l # <<>> /\ Rest(b, l, n)
    BY <1>1
  <2> QED BY <2>1, LeftOfBatch
<1>5. PICK f \in Engines, c \in Change : f = foreground /\ c = Entry /\ c = b[n + 1]
  BY <1>1, <1>2, <1>4 DEF Entry
<1>6. foreground' = Admitted(f, c, folded) /\ EngineIsSound(f)
  BY <1>2, <1>3, <1>5
<1>7. /\ foreground' \in Engines /\ EngineIsSound(foreground') /\ foreground'.mass = f.mass + 1
      /\ foreground'.table = [f.table EXCEPT ![c.key] = c.value]
      /\ Live(foreground'.table) >= Live(f.table) - 1
      /\ f.table[c.key] = NoValue /\ c.value # NoValue
           => Live(foreground'.table) = Live(f.table) + 1
  BY <1>2, <1>6, AdmittedFacts
<1>8. PICK old, new, next \in [Keys -> State] :
         old = published.table /\ new = f.table /\ next = foreground'.table
  BY <1>2, <1>7, EngineTypes DEF Snapshots
<1>9. Live(new) \in Nat /\ Live(next) \in Nat
  BY LiveFacts
<1>10. control' \in Controls /\ control'.at = place /\ control'.input = b /\ control'.left = Tail(l)
  BY <1>1, <1>2, <1>4 DEF Controls
<1>11. Applied(b, n + 1, old, next)
  <2>1. next = [new EXCEPT ![b[n + 1].key] = b[n + 1].value] /\ Applied(b, n, old, new)
    BY <1>1, <1>5, <1>7, <1>8
  <2> QED BY <1>1, <1>4, <2>1, OneMoreApplied
<1>12. BatchIsApplied'
  <2>1. PICK r \in Seq(Change) : r = Tail(l)
    BY <1>4
  <2>2. PICK m \in Nat : m = n + 1
    BY <1>4
  <2>3. published'.table = published.table
    BY <1>3
  <2>4. /\ control'.input = b /\ control'.left = r /\ Rest(b, r, m)
        /\ Removes(b, published'.table) /\ Applied(b, m, published'.table, foreground'.table)
    BY <1>1, <1>4, <1>8, <1>10, <1>11, <2>1, <2>2, <2>3
  <2> QED BY <2>4, BatchHolds
<1> QED BY <1>1, <1>3, <1>5, <1>7, <1>8, <1>9, <1>10, <1>12

\* A rebuild that starts, with what it is granted at once.
Granted(j, credit) == [j EXCEPT !.credit = credit]

Grants(j, r, credit) ==
  /\ j \in Jobs /\ FreezeIsSound(j) /\ ScanIsSound(j) /\ WorkIsBounded(j)
  /\ j.queue = r.queue /\ Scanned(j) = Scanned(r)
  /\ j.admitted = r.admitted /\ j.replayed = r.replayed /\ j.frozen = r.frozen
  /\ j.frozen_ordinal = r.frozen_ordinal /\ j.eager = r.eager /\ j.live = r.live
  /\ j.horizon = r.horizon /\ j.quantum = r.quantum
  /\ j.credit = credit /\ j.committed = r.committed /\ j.bound = r.bound

\* What a grant of credit leaves as it was.
LEMMA GrantedFacts ==
  ASSUME RebuildAssumption, NEW r \in Jobs, FreezeIsSound(r), ScanIsSound(r), WorkIsBounded(r),
         NEW credit \in Nat, NEW j, j = Granted(r, credit)
  PROVE  Grants(j, r, credit)
<1>3. j = [r EXCEPT !.credit = credit]
  BY DEF Granted
<1>4. PICK q \in Jobs : q = j
  <2>1. [r EXCEPT !.credit = credit] \in Jobs
    BY DEF Jobs
  <2> QED BY <1>3, <2>1
<1>9. /\ q.credit = credit /\ q.eager = r.eager /\ q.tiny = r.tiny
      /\ q.frozen = r.frozen /\ q.frozen_ordinal = r.frozen_ordinal /\ q.live = r.live
      /\ q.horizon = r.horizon /\ q.bound = r.bound /\ q.quantum = r.quantum
      /\ q.admitted = r.admitted /\ q.committed = r.committed
      /\ q.replayed = r.replayed /\ q.rows = r.rows /\ q.queue = r.queue
      /\ q.built = r.built /\ q.building = r.building /\ q.left = r.left /\ q.row = r.row
      /\ q.candidate = r.candidate /\ q.owed = r.owed /\ q.unready = r.unready
  BY <1>3, <1>4 DEF Jobs
<1>5. FreezeIsSound(q)
  BY <1>9 DEF FreezeIsSound
<1>6. Copied(q) = Copied(r) /\ Scanned(q) = Scanned(r) /\ Remaining(q) = Remaining(r)
  BY <1>9 DEF Copied, Scanned, Remaining, Opening, Checking, RowLimit
<1>7. ScanIsSound(q)
  BY <1>6, <1>9 DEF ScanIsSound
<1>8. WorkIsBounded(q)
  BY <1>6, <1>9 DEF WorkIsBounded
<1> QED BY <1>4, <1>5, <1>6, <1>7, <1>8, <1>9 DEF Grants

\* It is sound where it starts: the foreground is what it froze.
LEMMA StartedStep ==
  ASSUME RebuildAssumption, NEW e \in Engines, NEW j \in Jobs, NEW n \in Nat,
         FreezeIsSound(j), ScanIsSound(j), WorkIsBounded(j), j.queue = <<>>, Scanned(j) = e.table,
         j.admitted = 0, j.replayed = 0, j.frozen = e, j.frozen_ordinal = n, j.live = Live(e.table),
         j.committed = 0, job' = j, foreground' = e, accepted' = n,
         j.eager /\ ~recovering' => j.credit >= j.bound
  PROVE  JobIsSound(job)'
<1>1. /\ j.quantum \in Nat /\ j.bound \in Nat /\ j.credit \in Nat /\ j.horizon \in Nat
      /\ j.live \in Nat /\ e.table \in [Keys -> State]
  BY JobTypes, EngineTypes
<1>2. Live(e.table) \in Nat /\ ActionBound \in Nat
  BY <1>1, LiveFacts, PriceTypes
<1>3. Changes(<<>>, e.table) = e.table
  <2>1. <<>> \in Seq(Entries)
    OBVIOUS
  <2> QED BY <1>1, <2>1, ChangesType
<1>4. /\ Len(j.queue) = j.admitted - j.replayed /\ accepted' = j.frozen_ordinal + j.admitted
      /\ \A i \in 1..Len(j.queue) : j.queue[i].ordinal = j.frozen_ordinal + j.replayed + i
      /\ j.admitted <= j.horizon
  BY <1>1
<1>5. QueueIsSound(job)'
  BY <1>1, <1>2, <1>3, <1>4 DEF QueueIsSound
<1>6. GrantsSuffice(job)'
  <2>1. PICK x \in Nat : x = j.quantum + ActionBound
    BY <1>1, <1>2
  <2>2. 0 * x = 0
    OBVIOUS
  <2>3. j.credit + j.committed >= j.admitted * (j.quantum + ActionBound)
    BY <1>1, <2>1, <2>2
  <2>4. j.eager /\ ~recovering' => j.credit + j.committed >= j.bound
    BY <1>1
  <2> QED BY <2>3, <2>4 DEF GrantsSuffice
<1> QED BY <1>5, <1>6 DEF JobIsSound, FreezeIsSound, ScanIsSound, WorkIsBounded

\* A rebuild with one more entry to replay.
Queued(j, e) == [j EXCEPT !.queue = Append(@, e), !.admitted = @ + 1,
                          !.credit = @ + j.quantum + ActionBound]

Queues(q, j, e) ==
  /\ q \in Jobs /\ q.eager = j.eager /\ q.tiny = j.tiny
  /\ q.frozen = j.frozen /\ q.frozen_ordinal = j.frozen_ordinal /\ q.live = j.live
  /\ q.horizon = j.horizon /\ q.bound = j.bound /\ q.quantum = j.quantum
  /\ q.committed = j.committed /\ q.replayed = j.replayed /\ q.rows = j.rows
  /\ q.built = j.built /\ q.building = j.building /\ q.left = j.left /\ q.row = j.row
  /\ q.candidate = j.candidate /\ q.owed = j.owed /\ q.unready = j.unready
  /\ q.queue = Append(j.queue, e) /\ q.admitted = j.admitted + 1
  /\ q.credit = j.credit + j.quantum + ActionBound

\* An entry that a running rebuild queues grants its share of what is reserved.
LEMMA QueuedFacts ==
  ASSUME RebuildAssumption, NEW j \in Jobs, NEW e \in Entries,
         NEW q, q = Queued(j, e)
  PROVE  Queues(q, j, e)
<1>1. PICK s \in Seq(Entries), m, c \in Nat :
         s = Append(j.queue, e) /\ m = j.admitted + 1 /\ c = j.credit + j.quantum + ActionBound
  <2>1. Append(j.queue, e) \in Seq(Entries)
    BY JobTypes
  <2>2. PICK k, x, y, a \in Nat : k = j.admitted /\ x = j.credit /\ y = j.quantum /\ a = ActionBound
    BY JobTypes, PriceTypes
  <2>3. k + 1 \in Nat /\ x + y + a \in Nat
    OBVIOUS
  <2> QED BY <2>1, <2>2, <2>3
<1>2. q = [j EXCEPT !.queue = s, !.admitted = m, !.credit = c]
  BY <1>1 DEF Queued
<1>3. \A v \in Jobs, t \in Seq(Entries) : [v EXCEPT !.queue = t, !.admitted = m, !.credit = c] \in Jobs
  BY DEF Jobs
<1>4. q \in Jobs
  <2>1. [j EXCEPT !.queue = s, !.admitted = m, !.credit = c] \in Jobs
    BY <1>3
  <2> QED BY <1>2, <2>1
<1>5. /\ q.eager = j.eager /\ q.tiny = j.tiny
      /\ q.frozen = j.frozen /\ q.frozen_ordinal = j.frozen_ordinal /\ q.live = j.live
      /\ q.horizon = j.horizon /\ q.bound = j.bound /\ q.quantum = j.quantum
      /\ q.committed = j.committed /\ q.replayed = j.replayed /\ q.rows = j.rows
      /\ q.built = j.built /\ q.building = j.building /\ q.left = j.left /\ q.row = j.row
      /\ q.candidate = j.candidate /\ q.owed = j.owed /\ q.unready = j.unready
      /\ q.queue = s /\ q.admitted = m /\ q.credit = c
  BY <1>2 DEF Jobs
<1> QED BY <1>1, <1>4, <1>5 DEF Queues

\* So the rebuild that queues it stays sound (apply).
LEMMA QueuedStep ==
  ASSUME RebuildAssumption, NEW j \in Jobs, JobIsSound(j), ~j.eager, j.admitted < j.horizon,
         NEW e \in Entries, e.ordinal = accepted + 1, accepted' = accepted + 1,
         foreground.table \in [Keys -> State], foreground'.table \in [Keys -> State],
         foreground'.table = [foreground.table EXCEPT ![e.change.key] = e.change.value],
         Live(foreground'.table) >= Live(foreground.table) - 1,
         job' = Queued(j, e)
  PROVE  JobIsSound(job)'
<1>1. PICK q : q = Queued(j, e)
  OBVIOUS
<1>2. /\ q \in Jobs /\ q.eager = j.eager /\ q.tiny = j.tiny
      /\ q.frozen = j.frozen /\ q.frozen_ordinal = j.frozen_ordinal /\ q.live = j.live
      /\ q.horizon = j.horizon /\ q.bound = j.bound /\ q.quantum = j.quantum
      /\ q.committed = j.committed /\ q.replayed = j.replayed /\ q.rows = j.rows
      /\ q.built = j.built /\ q.building = j.building /\ q.left = j.left /\ q.row = j.row
      /\ q.candidate = j.candidate /\ q.owed = j.owed /\ q.unready = j.unready
      /\ q.queue = Append(j.queue, e) /\ q.admitted = j.admitted + 1
      /\ q.credit = j.credit + j.quantum + ActionBound
  <2>1. Queues(q, j, e)
    BY <1>1, QueuedFacts
  <2> QED BY <2>1 DEF Queues
<1>3. job' = q
  BY <1>1
<1>4. FreezeIsSound(j) /\ ScanIsSound(j) /\ QueueIsSound(j) /\ WorkIsBounded(j) /\ GrantsSuffice(j)
  BY DEF JobIsSound
<1>5. ~j.tiny
  BY <1>4 DEF FreezeIsSound
<1>6. FreezeIsSound(q)
  BY <1>2, <1>4 DEF FreezeIsSound
<1>7. Copied(q) = Copied(j) /\ Scanned(q) = Scanned(j) /\ RowLimit(q) = RowLimit(j)
  BY <1>2 DEF Copied, Scanned, RowLimit
<1>8. ScanIsSound(q)
  BY <1>2, <1>4, <1>7 DEF ScanIsSound
<1>9. PICK k, l, m, h \in Nat : k = j.admitted /\ l = j.replayed /\ m = Len(j.queue) /\ h = j.horizon
  <2>1. j.queue \in Seq(Entries) /\ j.admitted \in Nat /\ j.replayed \in Nat /\ j.horizon \in Nat
    BY JobTypes
  <2>2. Len(j.queue) \in Nat
    BY <2>1
  <2> QED BY <2>1, <2>2
<1>10. m = k - l /\ k < h
  BY <1>4, <1>9 DEF QueueIsSound
<1>11. j.queue \in Seq(Entries) /\ Len(q.queue) = m + 1 /\ q.queue[m + 1] = e
       /\ \A i \in 1..m : q.queue[i] = j.queue[i]
  <2>1. j.queue \in Seq(Entries)
    BY JobTypes
  <2>2. PICK r \in Seq(Entries) : r = j.queue
    BY <2>1
  <2>3. /\ Len(Append(r, e)) = Len(r) + 1 /\ Append(r, e)[Len(r) + 1] = e
        /\ \A i \in 1..Len(r) : Append(r, e)[i] = r[i]
    OBVIOUS
  <2> QED BY <1>2, <1>9, <2>1, <2>2, <2>3
<1>12. \A i \in 1..(m + 1) : q.queue[i].ordinal = q.frozen_ordinal + q.replayed + i
  <2> SUFFICES ASSUME NEW i \in 1..(m + 1)
               PROVE  q.queue[i].ordinal = j.frozen_ordinal + l + i
    BY <1>2, <1>9
  <2>1. CASE i \in 1..m
    BY <1>4, <1>9, <1>11, <2>1 DEF QueueIsSound
  <2>2. CASE i = m + 1
    <3>1. accepted = j.frozen_ordinal + k
      BY <1>4, <1>9 DEF QueueIsSound
    <3>2. PICK f \in Nat : f = j.frozen_ordinal
      BY JobTypes
    <3>3. (f + k) + 1 = f + l + (m + 1)
      BY <1>10
    <3> QED BY <1>11, <2>2, <3>1, <3>2, <3>3
  <2> QED BY <2>1, <2>2
<1>13. Changes(q.queue, Scanned(q)) = foreground'.table
  <2>1. PICK t \in [Keys -> State] : t = Scanned(j)
    <3>1. Scanned(j) \in [Keys -> State]
      <4>1. j.frozen.table \in [Keys -> State] /\ j.candidate.table \in [Keys -> State]
        BY JobTypes, EngineTypes
      <4> QED BY <4>1 DEF Scanned
    <3> QED BY <3>1
  <2>2. Changes(Append(j.queue, e), t) = [Changes(j.queue, t) EXCEPT ![e.change.key] = e.change.value]
    <3>1. PICK r \in Seq(Entries) : r = j.queue
      BY <1>11
    <3>2. Changes(Append(r, e), t) = [Changes(r, t) EXCEPT ![e.change.key] = e.change.value]
      BY ChangesAppend
    <3> QED BY <3>1, <3>2
  <2>3. Changes(j.queue, t) = foreground.table
    BY <1>4, <2>1 DEF QueueIsSound
  <2> QED BY <1>2, <1>7, <2>1, <2>2, <2>3
<1>14. q.live <= Live(foreground'.table) + q.admitted
  <2>1. PICK a, b, d \in Nat : a = Live(foreground.table) /\ b = Live(foreground'.table) /\ d = j.live
    BY LiveFacts, JobTypes
  <2>2. d <= a + k /\ b >= a - 1
    BY <1>4, <1>9, <2>1 DEF QueueIsSound
  <2>3. d <= b + (k + 1)
    BY <2>2
  <2> QED BY <1>2, <1>9, <2>1, <2>3
<1>15. /\ Len(q.queue) = q.admitted - q.replayed /\ accepted' = q.frozen_ordinal + q.admitted
       /\ q.admitted <= q.horizon
  <2>1. accepted = j.frozen_ordinal + k
    BY <1>4, <1>9 DEF QueueIsSound
  <2>2. PICK f \in Nat : f = j.frozen_ordinal
    BY JobTypes
  <2>3. (f + k) + 1 = f + (k + 1) /\ m + 1 = (k + 1) - l /\ k + 1 <= h
    BY <1>10
  <2> QED BY <1>2, <1>9, <1>11, <2>1, <2>2, <2>3
<1>16. WorkIsBounded(q)
  <2>1. PICK o, s, c, x, y, z, w, a \in Nat : IsWork(j, o, s, c, x, y, z, w, a)
    BY <1>4, WorkParts
  <2>2. y = Reading(m) /\ a = ActionBound /\ Remaining(j) = o + s + c + x + y + z + w + a
    BY <1>9, <1>10, <2>1 DEF IsWork
  <2>3. Reading(m + 1) = y + a
    BY <2>2, ReadingFacts
  <2>4. Remaining(q) = o + s + c + x + (y + a) + z + w + a
    <3>1. Opening(q) = Opening(j) /\ Checking(q) = Checking(j)
      BY <1>2 DEF Opening, Checking
    <3>2. q.admitted - q.replayed = m + 1
      <4>1. (k + 1) - l = m + 1
        BY <1>10
      <4> QED BY <1>2, <1>9, <4>1
    <3> QED BY <1>2, <1>7, <2>1, <2>3, <3>1, <3>2 DEF Remaining, IsWork
  <2>5. PICK u, v \in Nat : u = j.committed /\ v = j.bound
    BY JobTypes
  <2>6. u + (o + s + c + x + y + z + w + a) <= v + k * a
    BY <1>4, <1>5, <1>9, <2>2, <2>5 DEF WorkIsBounded
  <2>7. PICK g \in Nat : g = k * a /\ (k + 1) * a = g + a
    BY Products
  <2>8. u + (o + s + c + x + (y + a) + z + w + a) <= v + (k + 1) * a
    BY <2>6, <2>7
  <2>9. q.committed + Remaining(q) <= q.bound + q.admitted * ActionBound
    BY <1>2, <1>9, <2>2, <2>4, <2>5, <2>8
  <2> QED BY <1>2, <1>4, <2>9 DEF WorkIsBounded
<1>17. GrantsSuffice(job)'
  <2>1. PICK x, y, z, a \in Nat : x = j.credit /\ y = j.committed /\ z = j.quantum /\ a = ActionBound
    BY JobTypes, PriceTypes
  <2>2. x + y >= k * (z + a)
    BY <1>4, <1>9, <2>1 DEF GrantsSuffice
  <2>3. PICK b \in Nat : b = z + a
    OBVIOUS
  <2>4. (k + 1) * b = k * b + b /\ k * b \in Nat
    BY Products
  <2>5. (x + z + a) + y >= (k + 1) * (z + a)
    <3>1. PICK d \in Nat : d = k * b
      BY <2>4
    <3>2. x + y >= d
      BY <2>2, <2>3, <3>1
    <3>3. (x + z + a) + y >= d + b
      BY <2>3, <3>2
    <3> QED BY <2>3, <2>4, <3>1, <3>3
  <2>6. q.credit + q.committed >= q.admitted * (q.quantum + ActionBound)
    BY <1>2, <1>9, <2>1, <2>5
  <2> QED BY <1>2, <1>3, <2>6 DEF GrantsSuffice
<1>18. QueueIsSound(job)'
  <2>1. q.eager = FALSE
    BY <1>2, JobTypes
  <2>2. \A i \in 1..Len(q.queue) : q.queue[i].ordinal = q.frozen_ordinal + q.replayed + i
    BY <1>11, <1>12
  <2> QED BY <1>3, <1>13, <1>14, <1>15, <2>1, <2>2 DEF QueueIsSound
<1>19. (FreezeIsSound(job) /\ ScanIsSound(job) /\ WorkIsBounded(job))'
  BY <1>3, <1>6, <1>8, <1>16 DEF FreezeIsSound, ScanIsSound, WorkIsBounded
<1> QED BY <1>17, <1>18, <1>19 DEF JobIsSound

\* An entry that leaves no history.
LEMMA ApplyCleanStep ==
  ASSUME RebuildAssumption, IInv, control.at = "apply", NEW folded \in Foldings, ApplyClean(folded)
  PROVE  IInv'
<1>1. /\ ~job.active /\ mutations = 0 /\ foreground.table[Entry.key] = NoValue /\ Entry.value # NoValue
      /\ AdmitEntry(folded) /\ base' = base + 1 /\ UNCHANGED <<mutations, job>>
      /\ control' = [control EXCEPT !.at = "settle", !.left = Tail(@)]
  BY DEF ApplyClean, ExtendsClean
<1>2. /\ control' \in Controls /\ control'.at = "settle" /\ control'.input = control.input
      /\ control.input # <<>> /\ control.input \in Batch /\ ~recovering /\ ~due
      /\ foreground' \in Engines /\ EngineIsSound(foreground') /\ BatchIsApplied'
      /\ foreground'.mass = foreground.mass + 1
      /\ Live(foreground'.table) \in Nat /\ Live(foreground.table) \in Nat
      /\ Live(foreground'.table) = Live(foreground.table) + 1
      /\ accepted' = accepted + 1 /\ UNCHANGED <<due, recovering, published, restarts>>
  <2>1. PICK place \in {"settle", "service"} : place = "settle"
    OBVIOUS
  <2>2. control' = [control EXCEPT !.at = place, !.left = Tail(@)]
    BY <1>1, <2>1
  <2> QED BY <1>1, <2>1, <2>2, AdmitEntryStep
<1>3. PICK a, b, m \in Nat : a = Live(foreground.table) /\ b = base /\ m = accepted
  BY <1>2 DEF IInv, TypeOK
<1>4. TypeOK'
  <2>1. b + 1 \in Nat /\ m + 1 \in Nat
    OBVIOUS
  <2> QED BY <1>1, <1>2, <1>3, <2>1 DEF IInv, TypeOK
<1>5. (EngineIsSound(foreground) /\ EngineIsSound(published) /\ Validates(published))'
  BY <1>2 DEF IInv, EngineIsSound, Validates
<1>6. ControlIsSound'
  BY <1>1, <1>2 DEF ControlIsSound
<1>7. GenerationIsSound'
  <2>1. /\ foreground.mass = b + 0 /\ b <= a + 0
        /\ b < SmallLimit => a = b
    BY <1>1, <1>3 DEF IInv, GenerationIsSound
  <2>2. b + 1 >= SmallLimit => 0 < Trigger(b + 1)
    BY HorizonFacts
  <2>3. PICK s \in Nat : s = SmallLimit
    BY DEF RebuildAssumption
  <2>4. /\ foreground'.mass = b + 1 /\ base' = b + 1 /\ mutations' = 0
        /\ Live(foreground'.table) = a + 1
    BY <1>1, <1>2, <1>3, <2>1
  <2>5. /\ b <= a
        /\ b + 1 < s => a = b
    <3>1. b <= a
      BY <2>1
    <3>2. b < s => a = b
      BY <2>1, <2>3
    <3>3. b + 1 < s => b < s
      OBVIOUS
    <3> QED BY <3>1, <3>2, <3>3
  <2>6. PICK c, t \in Nat : c = b + 1 /\ t = Trigger(c)
    <3>1. PICK c \in Nat : c = b + 1
      OBVIOUS
    <3> QED BY <3>1, HorizonFacts
  <2>7. PICK d \in Nat : d = a + 1
    OBVIOUS
  <2>8. c = c + 0 /\ c <= d + 0 /\ IF c < s THEN d = c ELSE 0 < t
    <3>1. c >= s => 0 < t
      BY <2>2, <2>3, <2>6
    <3>2. c = b + 1
      BY <2>6
    <3>3. c < s => d = c
      BY <2>5, <2>7, <3>2
    <3>4. c = c + 0 /\ c <= d + 0
      BY <2>5, <2>7, <3>2
    <3> QED BY <2>3, <3>1, <3>3, <3>4
  <2>9. foreground'.mass = c /\ base' = c /\ mutations' = 0 /\ Live(foreground'.table) = d
    BY <2>4, <2>6, <2>7
  <2> QED BY <1>1, <2>3, <2>6, <2>8, <2>9 DEF GenerationIsSound
<1> QED BY <1>1, <1>2, <1>4, <1>5, <1>6, <1>7 DEF IInv

\* An entry that may start a rebuild, or that a small one follows.
LEMMA ApplyTriggeringStep ==
  ASSUME RebuildAssumption, IInv, control.at = "apply", NEW folded \in Foldings, ApplyTriggering(folded)
  PROVE  IInv'
<1> DEFINE small == base < SmallLimit \/ Live(foreground'.table) < SmallLimit
           started == Rebuild(foreground', small, accepted + 1)
           place == IF small THEN "service" ELSE "settle"
<1>1. /\ ~job.active /\ AdmitEntry(folded) /\ mutations' = mutations + 1 /\ base' = base
      /\ job' = IF small THEN [started EXCEPT !.credit = started.bound]
                ELSE IF mutations + 1 >= Trigger(base) THEN started ELSE NoJob
      /\ control' = [control EXCEPT !.at = place, !.left = Tail(@)]
  BY DEF ApplyTriggering
<1>2. /\ control' \in Controls /\ control'.at = place /\ control'.input = control.input
      /\ control.input # <<>> /\ control.input \in Batch /\ ~recovering /\ ~due
      /\ foreground' \in Engines /\ EngineIsSound(foreground') /\ BatchIsApplied'
      /\ foreground'.mass = foreground.mass + 1
      /\ Live(foreground'.table) \in Nat /\ Live(foreground.table) \in Nat
      /\ Live(foreground'.table) >= Live(foreground.table) - 1
      /\ accepted' = accepted + 1 /\ UNCHANGED <<due, recovering, published, restarts>>
  <2>1. PICK p \in {"settle", "service"} : p = place
    OBVIOUS
  <2>2. control' = [control EXCEPT !.at = p, !.left = Tail(@)]
    BY <1>1, <2>1
  <2> HIDE DEF place
  <2> QED BY <1>1, <2>1, <2>2, AdmitEntryStep
<1>3. PICK e \in Engines, n \in Nat, u \in BOOLEAN : e = foreground' /\ n = accepted + 1 /\ u = small
  <2>1. PICK m \in Nat : m = accepted
    BY DEF IInv, TypeOK
  <2>2. PICK n \in Nat : n = m + 1
    OBVIOUS
  <2>3. PICK u \in BOOLEAN : u = small
    OBVIOUS
  <2> HIDE DEF small
  <2> QED BY <1>2, <2>1, <2>2, <2>3
<1>4. PICK a, c, b, m, s \in Nat : /\ a = Live(foreground.table) /\ c = Live(e.table) /\ b = base
                                   /\ m = mutations /\ s = SmallLimit
  BY <1>2, <1>3 DEF IInv, TypeOK, RebuildAssumption
<1>5. u <=> b < s \/ c < s
  BY <1>3, <1>4
<1>6. EngineIsSound(e) /\ (~u => Live(e.table) >= SmallLimit)
  BY <1>2, <1>3, <1>4, <1>5
<1>7. PICK t, h \in Nat : t = Trigger(b) /\ h = Horizon(b + t)
  <2>1. Trigger(b) \in Nat
    BY HorizonFacts
  <2>2. PICK t \in Nat : t = Trigger(b)
    BY <2>1
  <2>3. Horizon(b + t) \in Nat
    <3>1. PICK x \in Nat : x = b + t
      OBVIOUS
    <3> QED BY <3>1, HorizonFacts
  <2> QED BY <2>2, <2>3
<1>8. /\ foreground.mass = b + m /\ b <= a + m
      /\ IF b < s THEN m = 0 /\ a = b ELSE m < t
  BY <1>1, <1>4, <1>7 DEF IInv, GenerationIsSound
<1>9. /\ foreground'.mass = b + (m + 1) /\ b <= c + (m + 1) /\ c <= b + (m + 1)
  <2>1. e.mass = (b + m) + 1 /\ c >= a - 1 /\ c <= e.mass
    BY <1>2, <1>3, <1>4, <1>8 DEF EngineIsSound
  <2> QED BY <1>3, <1>8, <2>1
<1> HIDE DEF small
<1>10. (EngineIsSound(foreground) /\ EngineIsSound(published) /\ Validates(published))'
  BY <1>2 DEF IInv, EngineIsSound, Validates
<1>11. ASSUME job' \in Jobs \/ job' = NoJob
       PROVE  TypeOK'
  <2>1. m + 1 \in Nat
    OBVIOUS
  <2> QED BY <1>1, <1>2, <1>3, <1>4, <1>11, <2>1 DEF IInv, TypeOK
<1>12. CASE small \/ mutations + 1 >= Trigger(base)
  <2>1. PICK p : p = Rebuild(e, u, n)
    OBVIOUS
  <2>2. /\ p \in Jobs /\ FreezeIsSound(p) /\ ScanIsSound(p) /\ WorkIsBounded(p)
        /\ p.queue = <<>> /\ Scanned(p) = e.table
        /\ p.admitted = 0 /\ p.replayed = 0 /\ p.frozen = e /\ p.frozen_ordinal = n
        /\ p.eager = u /\ p.live = Live(e.table) /\ p.credit = 0 /\ p.committed = 0
    BY <1>6, <2>1, RebuildIsSound, SMTT(60)
  <2>3. PICK r \in Jobs : r = p
    BY <2>2
  <2>14. PICK x \in Nat : x = IF u THEN r.bound ELSE 0
    BY JobTypes
  <2>15. PICK j : j = Granted(r, x)
    OBVIOUS
  <2>4. /\ j \in Jobs /\ FreezeIsSound(j) /\ ScanIsSound(j) /\ WorkIsBounded(j)
        /\ j.queue = <<>> /\ Scanned(j) = e.table
        /\ j.admitted = 0 /\ j.replayed = 0 /\ j.frozen = e /\ j.frozen_ordinal = n
        /\ j.eager = u /\ j.live = Live(e.table) /\ j.credit = x /\ j.committed = 0
        /\ j.bound = r.bound
    <3>1. FreezeIsSound(r) /\ ScanIsSound(r) /\ WorkIsBounded(r)
      BY <2>2, <2>3
    <3>2. Grants(j, r, x)
      BY <2>15, <3>1, GrantedFacts
    <3> QED BY <2>2, <2>3, <3>2 DEF Grants
  <2>5. job' = j
    <3>1. CASE u
      <4>1. job' = [r EXCEPT !.credit = r.bound]
        BY <1>1, <1>3, <2>1, <2>3, <3>1
      <4> QED BY <2>14, <2>15, <3>1, <4>1 DEF Granted
    <3>2. CASE ~u
      <4>1. job' = r
        BY <1>1, <1>3, <1>12, <2>1, <2>3, <3>2
      <4>2. r.credit = 0 /\ [r EXCEPT !.credit = 0] = r
        BY <2>2, <2>3 DEF Jobs
      <4> QED BY <2>14, <2>15, <3>2, <4>1, <4>2 DEF Granted
    <3> QED BY <3>1, <3>2
  <2>6. PICK q \in Jobs : q = j
    BY <2>4
  <2>7. JobIsSound(job)'
    <3>1. q.eager /\ ~recovering' => q.credit >= q.bound
      <4>1. q.eager => q.credit = q.bound
        BY <2>4, <2>6, <2>14
      <4>2. q.bound \in Nat
        BY JobTypes
      <4> QED BY <4>1, <4>2
    <3> QED BY <1>2, <1>3, <2>4, <2>5, <2>6, <3>1, StartedStep
  <2>8. job'.active = TRUE /\ job'.admitted = 0 /\ job'.eager = u /\ job'.live = c
    BY <1>4, <2>4, <2>5, <2>6, JobTypes
  <2>9. ~u => job'.horizon > 0
    BY <2>4, <2>5 DEF FreezeIsSound
  <2>10. ControlIsSound'
    <3>1. IF u THEN control'.at = "service" ELSE control'.at = "settle"
      BY <1>2, <1>3
    <3>2. ~u => job'.admitted < job'.horizon
      BY <2>8, <2>9
    <3> QED BY <1>2, <2>8, <3>1, <3>2 DEF ControlIsSound
  <2>11. GenerationIsSound'
    <3>1. m + 1 >= t \/ u
      BY <1>3, <1>4, <1>7, <1>12
    <3>2. /\ IF b < s THEN m + 1 = 1 /\ u ELSE m + 1 <= t + h
          /\ ~u => m + 1 = t + 0 /\ c <= b + t
      BY <1>5, <1>8, <1>9, <3>1
    <3> QED BY <1>1, <1>2, <1>3, <1>4, <1>7, <1>9, <2>8, <3>2 DEF GenerationIsSound
  <2> QED BY <1>2, <1>10, <1>11, <2>5, <2>6, <2>7, <2>10, <2>11 DEF IInv
<1>13. CASE ~(small \/ mutations + 1 >= Trigger(base))
  <2>1. job' = NoJob /\ ~job'.active /\ ~u /\ m + 1 < t
    <3>1. job' = NoJob /\ ~u /\ ~(m + 1 >= t)
      BY <1>1, <1>3, <1>4, <1>7, <1>13
    <3> QED BY <3>1 DEF NoJob
  <2>2. ControlIsSound'
    BY <1>2, <1>3, <2>1 DEF ControlIsSound
  <2>3. GenerationIsSound'
    <3>1. ~(b < s)
      BY <1>5, <2>1
    <3> QED BY <1>1, <1>3, <1>4, <1>7, <1>9, <2>1, <3>1 DEF GenerationIsSound
  <2> QED BY <1>2, <1>10, <1>11, <2>1, <2>2, <2>3 DEF IInv
<1> QED BY <1>12, <1>13

\* An entry that a running rebuild will replay.
LEMMA ApplyQueuedStep ==
  ASSUME RebuildAssumption, IInv, control.at = "apply", NEW folded \in Foldings, ApplyQueued(folded)
  PROVE  IInv'
<1>1. /\ job.active /\ job.admitted < job.horizon /\ AdmitEntry(folded)
      /\ mutations' = mutations + 1 /\ base' = base
      /\ job' = Queued(job, [ordinal |-> accepted + 1, change |-> Entry])
      /\ control' = [control EXCEPT !.at = "service", !.left = Tail(@)]
  BY DEF ApplyQueued, Queued
<1>2. /\ control' \in Controls /\ control'.at = "service" /\ control'.input = control.input
      /\ control.input # <<>> /\ control.input \in Batch /\ ~recovering /\ ~due
      /\ foreground' \in Engines /\ EngineIsSound(foreground') /\ BatchIsApplied'
      /\ foreground'.mass = foreground.mass + 1 /\ Entry \in Change
      /\ foreground'.table = [foreground.table EXCEPT ![Entry.key] = Entry.value]
      /\ Live(foreground'.table) \in Nat /\ Live(foreground.table) \in Nat
      /\ Live(foreground'.table) >= Live(foreground.table) - 1
      /\ accepted' = accepted + 1 /\ UNCHANGED <<due, recovering, published, restarts>>
  <2>1. PICK place \in {"settle", "service"} : place = "service"
    OBVIOUS
  <2>2. control' = [control EXCEPT !.at = place, !.left = Tail(@)]
    BY <1>1, <2>1
  <2> QED BY <1>1, <2>1, <2>2, AdmitEntryStep
<1>3. PICK j \in Jobs : j = job /\ JobIsSound(j)
  BY <1>1, JobIsTyped DEF IInv
<1>4. ~j.eager
  BY <1>1, <1>2, <1>3 DEF IInv, ControlIsSound
<1>5. PICK a, c, b, m, s, n \in Nat :
         /\ a = Live(foreground.table) /\ c = Live(foreground'.table) /\ b = base
         /\ m = mutations /\ s = SmallLimit /\ n = accepted
  BY <1>2 DEF IInv, TypeOK, RebuildAssumption
<1>6. PICK e \in Entries : e = [ordinal |-> accepted + 1, change |-> Entry]
  <2>1. n + 1 \in Nat
    OBVIOUS
  <2> QED BY <1>2, <1>5, <2>1 DEF Entries
<1>7. e.ordinal = accepted + 1 /\ e.change = Entry
  BY <1>6
<1>8. foreground.table \in [Keys -> State] /\ foreground'.table \in [Keys -> State]
  BY <1>2, EngineTypes DEF IInv, TypeOK
<1>9. job' = Queued(j, e)
  BY <1>1, <1>3, <1>6
<1>10. PICK q \in Jobs : q = job' /\ q.eager = j.eager /\ q.live = j.live /\ q.horizon = j.horizon
                         /\ q.admitted = j.admitted + 1
  <2>1. Queues(job', j, e)
    BY <1>9, QueuedFacts
  <2> QED BY <2>1 DEF Queues
<1>11. JobIsSound(job)'
  <2>1. foreground'.table = [foreground.table EXCEPT ![e.change.key] = e.change.value]
    BY <1>2, <1>7
  <2> QED BY <1>1, <1>2, <1>3, <1>4, <1>7, <1>8, <1>9, <2>1, QueuedStep
<1>12. job'.active = TRUE
  BY <1>10, JobTypes
<1>13. TypeOK'
  <2>1. m + 1 \in Nat /\ n + 1 \in Nat
    OBVIOUS
  <2> QED BY <1>1, <1>2, <1>5, <1>10, <2>1 DEF IInv, TypeOK
<1>14. (EngineIsSound(foreground) /\ EngineIsSound(published) /\ Validates(published))'
  BY <1>2 DEF IInv, EngineIsSound, Validates
<1>15. ControlIsSound'
  BY <1>2, <1>10 DEF ControlIsSound
<1>16. GenerationIsSound'
  <2>1. PICK k, l, h \in Nat : k = j.admitted /\ l = j.live /\ h = j.horizon
    BY JobTypes
  <2>2. PICK t \in Nat : t = Trigger(b)
    BY HorizonFacts
  <2>3. /\ foreground.mass = b + m /\ b <= a + m /\ ~(b < s)
        /\ m = t + k /\ l <= b + t
    BY <1>1, <1>3, <1>4, <1>5, <2>1, <2>2 DEF IInv, GenerationIsSound
  <2>4. h = Horizon(l) /\ k < h
    BY <1>1, <1>3, <1>4, <2>1 DEF JobIsSound, FreezeIsSound
  <2>5. PICK x \in Nat : x = b + t
    OBVIOUS
  <2>6. h <= Horizon(x) /\ Horizon(x) \in Nat
    BY <2>3, <2>4, <2>5, HorizonFacts
  <2>7. PICK g \in Nat : g = Horizon(x)
    BY <2>6
  <2>8. m + 1 <= t + g /\ m + 1 = t + (k + 1)
    BY <2>3, <2>4, <2>6, <2>7
  <2>9. (b + m) + 1 = b + (m + 1) /\ b <= c + (m + 1)
    <3>1. c >= a - 1
      BY <1>2, <1>5
    <3> QED BY <2>3, <3>1
  <2> QED BY <1>1, <1>2, <1>4, <1>5, <1>10, <1>12, <2>1, <2>2, <2>3, <2>5, <2>7, <2>8, <2>9
      DEF GenerationIsSound
<1> QED BY <1>2, <1>11, <1>13, <1>14, <1>15, <1>16 DEF IInv

\* The table a first batch makes: each of its keys once, and nothing else.
Loaded(b) == [k \in Keys |-> IF \E i \in DOMAIN b : b[i].key = k
                             THEN b[CHOOSE i \in DOMAIN b : b[i].key = k].value ELSE NoValue]

Occurrences(b) == [k \in Keys |-> Cardinality({i \in DOMAIN b : b[i].key = k})]

\* It has as many live records as the batch has entries.
LEMMA LoadedFacts ==
  ASSUME RebuildAssumption, NEW b \in Batch, \A i \in 1..Len(b) : b[i].value # NoValue
  PROVE  /\ Loaded(b) \in [Keys -> State] /\ Occurrences(b) \in [Keys -> Nat]
         /\ Live(Loaded(b)) = Len(b)
         /\ \A i \in 1..Len(b) : Loaded(b)[b[i].key] = b[i].value
         /\ \A k \in Keys : (\A i \in 1..Len(b) : b[i].key # k) => Loaded(b)[k] = NoValue
         /\ \A k \in Keys : Loaded(b)[k] # NoValue => Occurrences(b)[k] > 0
<1>1. /\ b \in Seq(Change) /\ \A i, j \in 1..Len(b) : b[i].key = b[j].key => i = j
  BY BatchFacts
<1>2. PICK n \in Nat : n = Len(b)
  BY <1>1
<1>3. DOMAIN b = 1..n /\ \A i \in 1..n : b[i] \in Change /\ b[i].key \in Keys /\ b[i].value \in State
  <2>1. DOMAIN b = 1..n /\ \A i \in 1..n : b[i] \in Change
    BY <1>1, <1>2
  <2> QED BY <2>1 DEF Change
<1>4. ASSUME NEW i \in 1..n
      PROVE  /\ Loaded(b)[b[i].key] = b[i].value
             /\ {j \in DOMAIN b : b[j].key = b[i].key} = {i}
  <2>1. PICK k \in Keys : k = b[i].key
    BY <1>3
  <2>2. \A j \in 1..n : b[j].key = k <=> j = i
    BY <1>1, <1>2, <2>1
  <2>3. {j \in DOMAIN b : b[j].key = k} = {i}
    BY <1>3, <2>2
  <2>4. (CHOOSE j \in DOMAIN b : b[j].key = k) = i
    BY <1>3, <2>2
  <2>5. Loaded(b)[k] = b[i].value
    BY <1>3, <2>2, <2>4 DEF Loaded
  <2> QED BY <2>1, <2>3, <2>5
<1>5. ASSUME NEW k \in Keys, \A i \in 1..n : b[i].key # k
      PROVE  Loaded(b)[k] = NoValue /\ {j \in DOMAIN b : b[j].key = k} = {}
  <2>1. ~ \E i \in DOMAIN b : b[i].key = k
    BY <1>3, <1>5
  <2> QED BY <2>1 DEF Loaded
<1>6. ASSUME NEW k \in Keys
      PROVE  /\ Loaded(b)[k] \in State /\ Occurrences(b)[k] \in Nat
             /\ Loaded(b)[k] # NoValue => Occurrences(b)[k] > 0
  <2>1. CASE \A i \in 1..n : b[i].key # k
    <3>1. Loaded(b)[k] = NoValue /\ Occurrences(b)[k] = 0
      BY <1>5, <2>1, FS_EmptySet DEF Occurrences
    <3> QED BY <3>1 DEF State
  <2>2. CASE \E i \in 1..n : b[i].key = k
    <3>1. PICK i \in 1..n : b[i].key = k
      BY <2>2
    <3>2. Loaded(b)[k] = b[i].value /\ {j \in DOMAIN b : b[j].key = k} = {i}
      BY <1>4, <3>1
    <3>3. Occurrences(b)[k] = 1
      BY <3>2, FS_Singleton DEF Occurrences
    <3> QED BY <1>3, <3>2, <3>3
  <2> QED BY <2>1, <2>2
<1>7. Loaded(b) \in [Keys -> State] /\ Occurrences(b) \in [Keys -> Nat]
  <2>1. DOMAIN Loaded(b) = Keys /\ DOMAIN Occurrences(b) = Keys
    BY DEF Loaded, Occurrences
  <2>2. Loaded(b) = [k \in Keys |-> Loaded(b)[k]] /\ Occurrences(b) = [k \in Keys |-> Occurrences(b)[k]]
    BY DEF Loaded, Occurrences
  <2> QED BY <1>6, <2>2
<1>8. Live(Loaded(b)) = n
  <2> DEFINE S == {k \in Keys : Loaded(b)[k] # NoValue}
             f == [i \in 1..n |-> b[i].key]
  <2>1. f \in [1..n -> S]
    <3> SUFFICES ASSUME NEW i \in 1..n PROVE b[i].key \in S
      OBVIOUS
    <3>1. b[i].value # NoValue
      BY <1>2
    <3> QED BY <1>3, <1>4, <3>1
  <2>2. \A i, j \in 1..n : f[i] = f[j] => i = j
    BY <1>1, <1>2
  <2>3. \A k \in S : \E i \in 1..n : f[i] = k
    <3> SUFFICES ASSUME NEW k \in S PROVE \E i \in 1..n : f[i] = k
      OBVIOUS
    <3>1. PICK i \in 1..n : b[i].key = k
      BY <1>5
    <3> QED BY <3>1
  <2>4. DOMAIN f = 1..n
    OBVIOUS
  <2>5. f \in Bijection(1..n, S)
    <3> HIDE DEF f, S
    <3> QED BY <2>1, <2>2, <2>3, <2>4 DEF Bijection, Injection, Surjection, IsInjective
  <2>6. ExistsBijection(1..n, S)
    BY <2>5 DEF ExistsBijection
  <2> HIDE DEF S
  <2>7. Cardinality(S) = n
    BY <2>6, FS_CountingElements
  <2> QED BY <2>7 DEF Live, S
<1> QED BY <1>2, <1>4, <1>5, <1>6, <1>7, <1>8

\* The first batch of a pristine table.
LEMMA InitializeSortedStep ==
  ASSUME RebuildAssumption, IInv, InitializeSorted
  PROVE  IInv'
<1>1. PICK b : b = control.input
  OBVIOUS
<1>2. /\ control.at = "apply" /\ control.left = b /\ Len(b) >= 2
      /\ mutations = 0 /\ ~job.active /\ foreground.mass = 0
      /\ foreground' = [table |-> Loaded(b), records |-> Occurrences(b), mass |-> Len(b)]
      /\ base' = Len(b) /\ accepted' = Len(b)
      /\ control' = [control EXCEPT !.at = "settle", !.left = <<>>]
      /\ UNCHANGED <<due, mutations, job, recovering, published, restarts>>
  BY <1>1 DEF InitializeSorted, Loaded, Occurrences
<1>3. b \in Batch /\ b \in Seq(Change) /\ b # <<>> /\ ~recovering /\ ~due
  <2>1. b # <<>>
    BY <1>1, <1>2 DEF IInv, ControlIsSound
  <2> QED BY <1>1, <1>2, <2>1, BatchFacts DEF IInv, ControlIsSound
<1>4. PICK n \in Nat : n = Len(b)
  BY <1>3
<1>5. PICK old, new \in [Keys -> State] : old = published.table /\ new = foreground.table
  BY EngineTypes DEF IInv, TypeOK, Snapshots
<1>6. \A k \in Keys : new[k] = NoValue
  <2>1. Live(new) <= 0 /\ Live(new) \in Nat
    BY <1>2, <1>5, LiveFacts DEF IInv, EngineIsSound
  <2> QED BY <2>1, LiveFacts
<1>7. /\ \A i \in 1..n : b[i].value = NoValue => old[b[i].key] # NoValue
      /\ \A k \in Keys : new[k] = old[k]
  <2>1. n - n = 0
    OBVIOUS
  <2>2. Len(control.input) - Len(control.left) = 0
    BY <1>1, <1>2, <1>4, <2>1
  <2> QED BY <1>1, <1>2, <1>4, <1>5, <2>2 DEF IInv, BatchIsApplied
<1>8. \A i \in 1..Len(b) : b[i].value # NoValue
  <2> SUFFICES ASSUME NEW i \in 1..n PROVE b[i].value # NoValue
    BY <1>4
  <2>1. b[i] \in Change
    BY <1>3, <1>4
  <2>2. b[i].key \in Keys
    BY <2>1 DEF Change
  <2> QED BY <1>6, <1>7, <2>2
<1>9. /\ Loaded(b) \in [Keys -> State] /\ Occurrences(b) \in [Keys -> Nat]
      /\ Live(Loaded(b)) = Len(b)
      /\ \A i \in 1..Len(b) : Loaded(b)[b[i].key] = b[i].value
      /\ \A k \in Keys : (\A i \in 1..Len(b) : b[i].key # k) => Loaded(b)[k] = NoValue
      /\ \A k \in Keys : Loaded(b)[k] # NoValue => Occurrences(b)[k] > 0
  BY <1>3, <1>8, LoadedFacts
<1>10. foreground' \in Engines /\ EngineIsSound(foreground')
  <2>1. foreground' \in Engines
    BY <1>2, <1>4, <1>9 DEF Engines
  <2>2. foreground'.table = Loaded(b) /\ foreground'.records = Occurrences(b) /\ foreground'.mass = n
    BY <1>2, <1>4
  <2> QED BY <1>4, <1>9, <2>1, <2>2 DEF EngineIsSound
<1>11. control' \in Controls /\ control'.at = "settle" /\ control'.input = b /\ control'.left = <<>>
  <2>1. control \in Controls /\ <<>> \in Seq(Change)
    BY DEF IInv, TypeOK
  <2> QED BY <1>1, <1>2, <2>1 DEF Controls
<1>12. BatchIsApplied'
  <2>1. PICK r \in Seq(Change) : r = <<>>
    <3>1. <<>> \in Seq(Change)
      OBVIOUS
    <3> QED BY <3>1
  <2>2. control'.input = b /\ control'.left = r
    BY <1>11, <2>1
  <2>3. Rest(b, r, n)
    <3>1. Len(r) = 0 /\ n - 0 = n
      BY <2>1
    <3> QED BY <1>4, <3>1 DEF Rest
  <2>4. Removes(b, published'.table)
    BY <1>2, <1>4, <1>5, <1>7 DEF Removes
  <2>6. Applied(b, n, published'.table, foreground'.table)
    <3>1. foreground'.table = Loaded(b) /\ published'.table = old
      BY <1>2, <1>5
    <3>2. \A k \in Keys : old[k] = NoValue
      BY <1>6, <1>7
    <3> QED BY <1>4, <1>9, <3>1, <3>2 DEF Applied
  <2> QED BY <1>3, <2>2, <2>3, <2>4, <2>6, BatchHolds
<1>13. TypeOK'
  BY <1>2, <1>4, <1>10, <1>11 DEF IInv, TypeOK
<1>14. (EngineIsSound(published) /\ Validates(published))'
  BY <1>2 DEF IInv, EngineIsSound, Validates
<1>15. ControlIsSound'
  BY <1>2, <1>3, <1>11 DEF ControlIsSound
<1>16. GenerationIsSound'
  <2>1. /\ foreground'.mass = n /\ base' = n /\ mutations' = 0 /\ Live(foreground'.table) = n
        /\ job' = job /\ n = n + 0
    BY <1>2, <1>4, <1>9
  <2>2. n >= SmallLimit => 0 < Trigger(n)
    BY HorizonFacts
  <2>3. PICK s \in Nat : s = SmallLimit
    BY DEF RebuildAssumption
  <2> QED BY <1>2, <2>1, <2>2, <2>3 DEF GenerationIsSound
<1> QED BY <1>2, <1>10, <1>12, <1>13, <1>14, <1>15, <1>16 DEF IInv

-----------------------------------------------------------------------------
(***************************************************************************)
(* The rest of the steps, and the invariant.                               *)
(***************************************************************************)

\* A rebuild that a step leaves alone stays sound (settle and idle).
LEMMA JobStays ==
  ASSUME IInv, job' = job, foreground' = foreground, accepted' = accepted, recovering' = recovering
  PROVE  (job.active => JobIsSound(job))'
BY DEF IInv, JobIsSound, FreezeIsSound, ScanIsSound, QueueIsSound, WorkIsBounded, GrantsSuffice

\* A call that has nothing of a batch left to do (publish, advance, an exception).
LEMMA NoBatchHolds ==
  ASSUME control'.input = <<>>, control'.left = <<>>,
         control'.at # "failed" =>
           \A k \in Keys : foreground'.table[k] = published'.table[k]
  PROVE  BatchIsApplied'
<1>1. Len(control'.input) = 0 /\ Len(control'.left) = 0
  OBVIOUS
<1>2. PICK n \in Nat : n = 0 /\ 0 - 0 = n /\ 1..n = {}
  OBVIOUS
<1>3. BatchIsApplied' <=>
      /\ n >= 0
      /\ \A i \in 1..n : control'.left[i] = control'.input[n + i]
      /\ \A i \in 1..n : control'.input[i].value = NoValue
                           => published'.table[control'.input[i].key] # NoValue
      /\ control'.at # "failed" =>
           /\ \A i \in 1..n : foreground'.table[control'.input[i].key] = control'.input[i].value
           /\ \A k \in Keys : (\A i \in 1..n : control'.input[i].key # k)
                                => foreground'.table[k] = published'.table[k]
  BY <1>1, <1>2 DEF BatchIsApplied
<1> QED BY <1>2, <1>3

\* Between calls the foreground is what readers see.
LEMMA IdleFacts ==
  ASSUME IInv, control.input = <<>>, control.at # "failed"
  PROVE  \A k \in Keys : foreground.table[k] = published.table[k]
<1>1. control.left = <<>>
  BY DEF IInv, ControlIsSound
<1>2. Len(control.input) - Len(control.left) = 0
  BY <1>1
<1>3. 1..0 = {}
  OBVIOUS
<1> QED BY <1>2, <1>3 DEF IInv, BatchIsApplied

\* The call proceeds to its next entry (contribute's loop).
LEMMA NextEntryStep ==
  ASSUME IInv, NextEntry
  PROVE  IInv'
<1>1. /\ control.at = "settle" /\ control.left # <<>>
      /\ control' = [control EXCEPT !.at = "apply"]
      /\ UNCHANGED <<foreground, due, base, mutations, accepted, job, recovering, published, restarts>>
  BY DEF NextEntry, Goto, engineVars
<1>2. /\ control'.at = "apply" /\ control'.input = control.input /\ control'.left = control.left
      /\ control' \in Controls
  BY <1>1 DEF IInv, TypeOK, Controls
<1>3. TypeOK'
  BY <1>1, <1>2 DEF IInv, TypeOK
<1>4. (EngineIsSound(foreground) /\ EngineIsSound(published) /\ Validates(published))'
  BY <1>1 DEF IInv, EngineIsSound, Validates
<1>5. ControlIsSound'
  BY <1>1, <1>2 DEF IInv, ControlIsSound
<1>6. BatchIsApplied'
  <2>1. BatchIsApplied
    BY DEF IInv
  <2>2. /\ control'.input = control.input /\ control'.left = control.left
        /\ control.at # "failed" /\ foreground' = foreground /\ published' = published
    BY <1>1, <1>2
  <2> QED BY <2>1, <2>2 DEF BatchIsApplied
<1>7. GenerationIsSound'
  BY <1>1 DEF IInv, GenerationIsSound
<1>8. (job.active => JobIsSound(job))'
  BY <1>1, JobStays
<1> QED BY <1>3, <1>4, <1>5, <1>6, <1>7, <1>8 DEF IInv

\* The batch becomes visible (publish_snapshot).
LEMMA PublishStep ==
  ASSUME IInv, Publish
  PROVE  IInv'
<1>1. /\ control.at = "settle" /\ control.left = <<>>
      /\ Validates(Publication) /\ published' = Publication /\ control' = Idle
      /\ UNCHANGED <<foreground, due, base, mutations, accepted, job, recovering, restarts>>
  BY DEF Publish, engineVars
<1>2. /\ control'.at = "idle" /\ control'.input = <<>> /\ control'.left = <<>> /\ control' \in Controls
  <2>1. <<>> \in Seq(Change)
    OBVIOUS
  <2> QED BY <1>1, <2>1 DEF Idle, Controls
<1>3. job.active \in BOOLEAN
  <2>1. job = NoJob \/ job \in Jobs
    BY DEF IInv, TypeOK
  <2>2. job = NoJob => job.active = FALSE
    BY DEF NoJob
  <2>3. job \in Jobs => job.active = TRUE
    BY JobTypes
  <2> QED BY <2>1, <2>2, <2>3
<1>4. /\ published' \in Snapshots /\ published'.table = foreground.table
      /\ published'.records = foreground.records /\ published'.mass = foreground.mass
  <2>1. foreground \in Engines /\ base \in Nat /\ mutations \in Nat
    BY DEF IInv, TypeOK
  <2>2. foreground.table \in [Keys -> State] /\ foreground.records \in [Keys -> Nat]
        /\ foreground.mass \in Nat
    BY <2>1, EngineTypes
  <2> QED BY <1>1, <1>3, <2>1, <2>2 DEF Publication, Snapshots
<1>5. TypeOK'
  BY <1>1, <1>2, <1>4 DEF IInv, TypeOK
<1>6. (EngineIsSound(foreground) /\ EngineIsSound(published) /\ Validates(published))'
  <2>1. EngineIsSound(foreground)' /\ Validates(published)'
    BY <1>1 DEF IInv, EngineIsSound, Validates
  <2>2. EngineIsSound(published)'
    BY <1>4 DEF IInv, EngineIsSound
  <2> QED BY <2>1, <2>2
<1>7. ControlIsSound'
  BY <1>1, <1>2 DEF IInv, ControlIsSound
<1>8. BatchIsApplied'
  <2>1. \A k \in Keys : foreground'.table[k] = published'.table[k]
    BY <1>1, <1>4
  <2> QED BY <1>2, <2>1, NoBatchHolds
<1>9. GenerationIsSound'
  BY <1>1 DEF IInv, GenerationIsSound
<1>10. (job.active => JobIsSound(job))'
  BY <1>1, JobStays
<1> QED BY <1>5, <1>6, <1>7, <1>8, <1>9, <1>10 DEF IInv

\* A call begins with the whole of its batch left (contribute).
LEMMA ContributeStep ==
  ASSUME IInv, NEW batch \in Batch, Contribute(batch)
  PROVE  IInv'
<1>1. /\ control.at = "idle" /\ ~due /\ ~recovering
      /\ \A i \in DOMAIN batch : batch[i].value = NoValue => foreground.table[batch[i].key] # NoValue
      /\ control' = [at |-> "apply", input |-> batch, left |-> batch]
      /\ UNCHANGED <<foreground, due, base, mutations, accepted, job, recovering, published, restarts>>
  BY DEF Contribute, engineVars
<1>2. PICK b \in Seq(Change) : b = batch /\ b # <<>>
  BY BatchFacts
<1>3. /\ control'.at = "apply" /\ control'.input = b /\ control'.left = b /\ control' \in Controls
  BY <1>1, <1>2 DEF Controls
<1>4. \A k \in Keys : foreground.table[k] = published.table[k]
  <2>1. control.input = <<>> /\ control.at # "failed"
    BY <1>1 DEF IInv, ControlIsSound
  <2> QED BY <2>1, IdleFacts
<1>5. TypeOK'
  BY <1>1, <1>3 DEF IInv, TypeOK
<1>6. (EngineIsSound(foreground) /\ EngineIsSound(published) /\ Validates(published))'
  BY <1>1 DEF IInv, EngineIsSound, Validates
<1>7. ControlIsSound'
  BY <1>1, <1>2, <1>3 DEF IInv, ControlIsSound
<1>8. BatchIsApplied'
  <2>1. PICK n \in Nat : n = 0 /\ 1..n = {}
    OBVIOUS
  <2>2. Rest(b, b, n)
    <3>1. PICK m \in Nat : m = Len(b)
      OBVIOUS
    <3>2. m - m = n /\ \A i \in 1..m : n + i = i
      BY <2>1
    <3> QED BY <3>1, <3>2 DEF Rest
  <2>3. Removes(b, published'.table)
    <3> SUFFICES ASSUME NEW i \in 1..Len(b), b[i].value = NoValue
                 PROVE  published'.table[b[i].key] # NoValue
      BY DEF Removes
    <3>1. i \in DOMAIN b /\ b[i] \in Change
      OBVIOUS
    <3>2. b[i].key \in Keys
      BY <3>1 DEF Change
    <3> QED BY <1>1, <1>2, <1>4, <3>1, <3>2
  <2>4. Applied(b, n, published'.table, foreground'.table)
    BY <1>1, <1>4, <2>1 DEF Applied
  <2> QED BY <1>3, <2>2, <2>3, <2>4, BatchHolds
<1>9. GenerationIsSound'
  BY <1>1 DEF IInv, GenerationIsSound
<1>10. (job.active => JobIsSound(job))'
  BY <1>1, JobStays
<1> QED BY <1>5, <1>6, <1>7, <1>8, <1>9, <1>10 DEF IInv

\* The foreground's restored merges are served (advance).
LEMMA AdvanceForegroundStep ==
  ASSUME IInv, AdvanceForeground
  PROVE  IInv'
<1>1. /\ control.at = "idle" /\ due' = FALSE
      /\ UNCHANGED <<foreground, base, mutations, accepted, job, recovering, published, control, restarts>>
  BY DEF AdvanceForeground
<1>2. TypeOK'
  BY <1>1 DEF IInv, TypeOK
<1>3. (EngineIsSound(foreground) /\ EngineIsSound(published) /\ Validates(published))'
  BY <1>1 DEF IInv, EngineIsSound, Validates
<1>4. ControlIsSound' /\ BatchIsApplied' /\ GenerationIsSound'
  BY <1>1 DEF IInv, ControlIsSound, BatchIsApplied, GenerationIsSound
<1>5. (job.active => JobIsSound(job))'
  BY <1>1, JobStays
<1> QED BY <1>2, <1>3, <1>4, <1>5 DEF IInv

\* A caller gives the rebuild credit beyond its grants (advance).
LEMMA AdvanceStep ==
  ASSUME RebuildAssumption, IInv, NEW budget \in Budgets, Advance(budget)
  PROVE  IInv'
<1>1. /\ control.at = "idle" /\ ~due /\ job.active
      /\ job' = [job EXCEPT !.credit = @ + budget]
      /\ control' = [Idle EXCEPT !.at = "service"]
      /\ UNCHANGED <<foreground, due, base, mutations, accepted, recovering, published, restarts>>
  BY DEF Advance, engineVars
<1>2. PICK r \in Jobs : r = job /\ JobIsSound(r)
  BY <1>1, JobIsTyped DEF IInv
<1>3. PICK x, d \in Nat : x = r.credit /\ d = budget
  BY JobTypes DEF RebuildAssumption
<1>4. PICK y \in Nat : y = x + d
  OBVIOUS
<1>5. PICK j : j = Granted(r, y)
  OBVIOUS
<1>6. job' = j
  BY <1>1, <1>2, <1>3, <1>4, <1>5 DEF Granted
<1>7. FreezeIsSound(r) /\ ScanIsSound(r) /\ QueueIsSound(r) /\ WorkIsBounded(r) /\ GrantsSuffice(r)
  BY <1>2 DEF JobIsSound
<1>8. Grants(j, r, y)
  <2>1. FreezeIsSound(r) /\ ScanIsSound(r) /\ WorkIsBounded(r)
    BY <1>7
  <2> QED BY <1>5, <2>1, GrantedFacts
<1>9. PICK q \in Jobs : q = j
  BY <1>8 DEF Grants
<1>10. /\ FreezeIsSound(q) /\ ScanIsSound(q) /\ WorkIsBounded(q)
       /\ q.queue = r.queue /\ Scanned(q) = Scanned(r)
       /\ q.admitted = r.admitted /\ q.replayed = r.replayed /\ q.frozen = r.frozen
       /\ q.frozen_ordinal = r.frozen_ordinal /\ q.eager = r.eager /\ q.live = r.live
       /\ q.horizon = r.horizon /\ q.quantum = r.quantum
       /\ q.credit = y /\ q.committed = r.committed /\ q.bound = r.bound
  BY <1>8, <1>9 DEF Grants
<1>11. QueueIsSound(q)
  BY <1>7, <1>10 DEF QueueIsSound
<1>12. GrantsSuffice(q)
  <2>1. PICK c, k, z, b \in Nat : /\ c = r.committed /\ k = r.admitted
                                  /\ z = r.quantum /\ b = r.bound
    BY JobTypes
  <2>2. PICK g : g = k * (z + ActionBound)
    OBVIOUS
  <2>3. g \in Nat
    <3>1. PICK a \in Nat : a = ActionBound
      BY PriceTypes
    <3>2. PICK v \in Nat : v = z + a
      OBVIOUS
    <3>3. k * v \in Nat
      BY Products
    <3> QED BY <2>2, <3>1, <3>2, <3>3
  <2>4. (~q.eager => x + c >= g) /\ (q.eager /\ ~recovering => x + c >= b)
    BY <1>3, <1>7, <1>10, <2>1, <2>2 DEF GrantsSuffice
  <2>5. (x + c >= g => y + c >= g) /\ (x + c >= b => y + c >= b)
    BY <1>4, <2>3
  <2>6. (~q.eager => y + c >= g) /\ (q.eager /\ ~recovering => y + c >= b)
    BY <2>4, <2>5
  <2> QED BY <1>10, <2>1, <2>2, <2>6 DEF GrantsSuffice
<1>13. JobIsSound(q)
  BY <1>10, <1>11, <1>12 DEF JobIsSound
<1>14. /\ control'.at = "service" /\ control'.input = <<>> /\ control'.left = <<>>
       /\ control' \in Controls
  <2>1. <<>> \in Seq(Change)
    OBVIOUS
  <2> QED BY <1>1, <2>1 DEF Idle, Controls
<1>15. TypeOK'
  BY <1>1, <1>6, <1>9, <1>14 DEF IInv, TypeOK
<1>16. (EngineIsSound(foreground) /\ EngineIsSound(published) /\ Validates(published))'
  BY <1>1 DEF IInv, EngineIsSound, Validates
<1>17. job'.active = TRUE /\ job'.eager = job.eager /\ job'.admitted = job.admitted
       /\ job'.live = job.live
  BY <1>2, <1>6, <1>9, <1>10, JobTypes
<1>18. ControlIsSound'
  BY <1>1, <1>14, <1>17 DEF IInv, ControlIsSound
<1>19. BatchIsApplied'
  <2>1. control.input = <<>> /\ control.at # "failed"
    BY <1>1 DEF IInv, ControlIsSound
  <2>2. \A k \in Keys : foreground'.table[k] = published'.table[k]
    BY <1>1, <2>1, IdleFacts
  <2> QED BY <1>14, <2>2, NoBatchHolds
<1>20. GenerationIsSound'
  BY <1>1, <1>17 DEF IInv, GenerationIsSound
<1>21. JobIsSound(job)'
  BY <1>1, <1>6, <1>9, <1>13, JobCarries
<1> QED BY <1>15, <1>16, <1>18, <1>19, <1>20, <1>21 DEF IInv

\* An exception poisons the executor: what readers see stays (fail).
LEMMA FailStep ==
  ASSUME IInv, Fail
  PROVE  IInv'
<1>1. /\ control' = Failed
      /\ UNCHANGED <<foreground, due, base, mutations, accepted, job, recovering, published, restarts>>
  BY DEF Fail, engineVars
<1>2. /\ control'.at = "failed" /\ control'.input = <<>> /\ control'.left = <<>>
      /\ control' \in Controls
  <2>1. <<>> \in Seq(Change)
    OBVIOUS
  <2> QED BY <1>1, <2>1 DEF Failed, Idle, Controls
<1>3. TypeOK'
  BY <1>1, <1>2 DEF IInv, TypeOK
<1>4. (EngineIsSound(foreground) /\ EngineIsSound(published) /\ Validates(published))'
  BY <1>1 DEF IInv, EngineIsSound, Validates
<1>5. ControlIsSound'
  BY <1>1, <1>2 DEF IInv, ControlIsSound
<1>6. BatchIsApplied'
  BY <1>2, NoBatchHolds
<1>7. GenerationIsSound'
  BY <1>1 DEF IInv, GenerationIsSound
<1>8. (job.active => JobIsSound(job))'
  BY <1>1, JobStays
<1> QED BY <1>3, <1>4, <1>5, <1>6, <1>7, <1>8 DEF IInv

\* What was published is restored, and a rebuild begins again (from_snapshot).
LEMMA RestartStep ==
  ASSUME RebuildAssumption, IInv, Restart
  PROVE  IInv'
<1>1. PICK e : e = [table |-> published.table, records |-> published.records, mass |-> published.mass]
  OBVIOUS
<1>2. /\ restarts' = restarts + 1 /\ foreground' = e /\ due' \in BOOLEAN
      /\ base' = published.base /\ mutations' = published.mutations /\ accepted' = 0
      /\ recovering' = published.rebuilding
      /\ job' = IF published.rebuilding THEN Rebuild(e, TRUE, 0) ELSE NoJob
      /\ control' = Idle /\ published' = published
  BY <1>1 DEF Restart
<1>3. /\ published.table \in [Keys -> State] /\ published.records \in [Keys -> Nat]
      /\ published.mass \in Nat /\ published.base \in Nat /\ published.mutations \in Nat
      /\ published.rebuilding \in BOOLEAN
  BY DEF IInv, TypeOK, Snapshots
<1>4. /\ e \in Engines /\ e.table = published.table /\ e.records = published.records
      /\ e.mass = published.mass
  BY <1>1, <1>3 DEF Engines
<1>5. EngineIsSound(e) /\ EngineIsSound(published)
  BY <1>4 DEF IInv, EngineIsSound
<1>6. /\ control'.at = "idle" /\ control'.input = <<>> /\ control'.left = <<>>
      /\ control' \in Controls
  <2>1. <<>> \in Seq(Change)
    OBVIOUS
  <2> QED BY <1>2, <2>1 DEF Idle, Controls
<1>7. (EngineIsSound(foreground) /\ EngineIsSound(published) /\ Validates(published))'
  BY <1>2, <1>5 DEF IInv, EngineIsSound, Validates
<1>8. BatchIsApplied'
  <2>1. \A k \in Keys : foreground'.table[k] = published'.table[k]
    BY <1>2, <1>4
  <2> QED BY <1>6, <2>1, NoBatchHolds
<1>9. PICK b, m, a, s \in Nat : /\ b = published.base /\ m = published.mutations
                               /\ a = Live(published.table) /\ s = SmallLimit
  BY <1>3, LiveFacts DEF RebuildAssumption
<1>10. PICK t, h \in Nat : t = Trigger(b) /\ h = Horizon(b + t)
  <2>1. PICK t \in Nat : t = Trigger(b)
    BY HorizonFacts
  <2>2. PICK x \in Nat : x = b + t
    OBVIOUS
  <2>3. PICK h \in Nat : h = Horizon(x)
    BY HorizonFacts
  <2> QED BY <2>1, <2>2, <2>3
<1>11. /\ published.mass = b + m /\ b <= a + m
       /\ IF published.rebuilding THEN b >= s /\ m >= t /\ m - t <= h
          ELSE IF b < s THEN m = 0 /\ a = b ELSE m < t
  BY <1>9, <1>10 DEF IInv, Validates
<1>12. ASSUME job' \in Jobs \/ job' = NoJob
       PROVE  TypeOK'
  <2>1. restarts + 1 \in Nat /\ 0 \in Nat
    BY DEF IInv, TypeOK
  <2> QED BY <1>2, <1>3, <1>4, <1>6, <1>12, <2>1 DEF IInv, TypeOK
<1>13. CASE published.rebuilding
  <2>1. PICK u \in BOOLEAN, n \in Nat : u = TRUE /\ n = 0
    OBVIOUS
  <2>2. PICK p : p = Rebuild(e, u, n)
    OBVIOUS
  <2>3. /\ p \in Jobs /\ FreezeIsSound(p) /\ ScanIsSound(p) /\ WorkIsBounded(p)
        /\ p.queue = <<>> /\ Scanned(p) = e.table
        /\ p.admitted = 0 /\ p.replayed = 0 /\ p.frozen = e /\ p.frozen_ordinal = n
        /\ p.eager = u /\ p.live = Live(e.table) /\ p.credit = 0 /\ p.committed = 0
    <3>1. e \in Engines /\ EngineIsSound(e) /\ (~u => Live(e.table) >= SmallLimit)
      BY <1>4, <1>5, <2>1
    <3> QED BY <2>2, <3>1, RebuildIsSound, SMTT(60)
  <2>4. PICK q \in Jobs : q = p
    BY <2>3
  <2>5. job' = q /\ recovering' = TRUE /\ foreground' = e /\ accepted' = n
    BY <1>2, <1>13, <2>1, <2>2, <2>4
  <2>6. JobIsSound(job)'
    <3>1. q.eager /\ ~recovering' => q.credit >= q.bound
      BY <2>5
    <3> QED BY <1>4, <2>3, <2>4, <2>5, <3>1, StartedStep
  <2>7. job'.active = TRUE /\ job'.eager = TRUE
    BY <2>1, <2>3, <2>4, <2>5, JobTypes
  <2>8. ControlIsSound'
    BY <1>6, <2>5, <2>7 DEF ControlIsSound
  <2>9. GenerationIsSound'
    <3>1. ~(b < s) /\ m <= t + h
      BY <1>11, <1>13
    <3> QED BY <1>2, <1>4, <1>9, <1>10, <1>11, <1>13, <2>7, <3>1 DEF GenerationIsSound
  <2> QED BY <1>7, <1>8, <1>12, <2>4, <2>5, <2>6, <2>8, <2>9 DEF IInv
<1>14. CASE ~published.rebuilding
  <2>1. job' = NoJob /\ recovering' = FALSE
    BY <1>2, <1>3, <1>14
  <2>2. ~job'.active
    BY <2>1 DEF NoJob
  <2>3. ControlIsSound'
    BY <1>6, <2>1, <2>2 DEF ControlIsSound
  <2>4. GenerationIsSound'
    BY <1>2, <1>4, <1>9, <1>10, <1>11, <1>14, <2>1, <2>2 DEF GenerationIsSound
  <2> QED BY <1>7, <1>8, <1>12, <2>1, <2>2, <2>3, <2>4 DEF IInv
<1> QED BY <1>13, <1>14

\* A new executor, or one opened on a clean table (from_clean).
LEMMA InitIsSound ==
  ASSUME RebuildAssumption, Init
  PROVE  IInv
<1>1. PICK t \in [Keys -> State] : foreground = CleanEngine(t)
  BY DEF Init
<1>2. /\ base = foreground.mass /\ mutations = 0 /\ accepted = 0 /\ due = FALSE
      /\ job = NoJob /\ recovering = FALSE /\ published = Publication
      /\ control = Idle /\ restarts = 0
  BY DEF Init
<1>3. /\ foreground \in Engines /\ EngineIsSound(foreground)
      /\ foreground.table = t /\ foreground.mass = Live(t)
  BY <1>1, CleanFacts
<1>4. PICK n, s \in Nat : n = Live(t) /\ s = SmallLimit
  BY LiveFacts DEF RebuildAssumption
<1>5. ~job.active /\ job.active = FALSE
  BY <1>2 DEF NoJob
<1>6. /\ published.table = t /\ published.records = foreground.records /\ published.mass = n
      /\ published.base = n /\ published.mutations = 0 /\ published.rebuilding = FALSE
      /\ published \in Snapshots
  <2>1. t \in [Keys -> State] /\ foreground.records \in [Keys -> Nat]
    BY <1>3, EngineTypes
  <2> QED BY <1>2, <1>3, <1>4, <1>5, <2>1 DEF Publication, Snapshots
<1>7. /\ control.at = "idle" /\ control.input = <<>> /\ control.left = <<>>
      /\ control \in Controls
  <2>1. <<>> \in Seq(Change)
    OBVIOUS
  <2> QED BY <1>2, <2>1 DEF Idle, Controls
<1>8. n >= s => 0 < Trigger(n)
  BY <1>4, HorizonFacts
<1>9. TypeOK
  BY <1>2, <1>3, <1>4, <1>6, <1>7 DEF TypeOK
<1>10. EngineIsSound(published)
  BY <1>3, <1>4, <1>6 DEF EngineIsSound
<1>11. Validates(published)
  BY <1>4, <1>6, <1>8 DEF Validates
<1>12. ControlIsSound
  BY <1>2, <1>5, <1>7 DEF ControlIsSound
<1>13. BatchIsApplied
  <2>1. Len(control.input) = 0 /\ Len(control.left) = 0 /\ 1..0 = {}
    BY <1>7
  <2> QED BY <1>3, <1>6, <2>1 DEF BatchIsApplied
<1>14. GenerationIsSound
  BY <1>2, <1>3, <1>4, <1>5, <1>8 DEF GenerationIsSound
<1> QED BY <1>3, <1>5, <1>9, <1>10, <1>11, <1>12, <1>13, <1>14 DEF IInv

\* Each step of the executor preserves it.
LEMMA StepIsSound ==
  ASSUME RebuildAssumption, IInv, [Next]_vars
  PROVE  IInv'
<1>1. ASSUME NEW batch \in Batch, Contribute(batch)
      PROVE  IInv'
  BY <1>1, ContributeStep
<1>2. CASE AdvanceForeground
  BY <1>2, AdvanceForegroundStep
<1>3. ASSUME NEW budget \in Budgets, Advance(budget)
      PROVE  IInv'
  BY <1>3, AdvanceStep
<1>4. CASE InitializeSorted
  BY <1>4, InitializeSortedStep
<1>5. CASE ApplyEntry
  <2>1. PICK folded \in Foldings : control.at = "apply"
           /\ (ApplyClean(folded) \/ ApplyTriggering(folded) \/ ApplyQueued(folded))
    BY <1>5 DEF ApplyEntry
  <2> QED BY <2>1, ApplyCleanStep, ApplyTriggeringStep, ApplyQueuedStep
<1>6. CASE NextEntry
  BY <1>6, NextEntryStep
<1>7. CASE Publish
  BY <1>7, PublishStep
<1>8. CASE Service
  BY <1>8, OpenCandidateStep, ScanOneStep, CopyRowStep, FinishScanStep, ReplayStep,
     CandidateAdvanceStep, HandoffStep, TinyRebuildStep, EndServiceStep DEF Service
<1>9. CASE Fail
  BY <1>9, FailStep
<1>10. CASE Restart
  BY <1>10, RestartStep
<1>11. CASE UNCHANGED vars
  <2>1. UNCHANGED <<foreground, due, base, mutations, accepted, job, recovering, published,
                    control, restarts>>
    BY <1>11 DEF vars, engineVars
  <2>2. (TypeOK /\ EngineIsSound(foreground) /\ EngineIsSound(published) /\ Validates(published))'
    BY <2>1 DEF IInv, TypeOK, EngineIsSound, Validates
  <2>3. (ControlIsSound /\ BatchIsApplied /\ GenerationIsSound)'
    BY <2>1 DEF IInv, ControlIsSound, BatchIsApplied, GenerationIsSound
  <2>4. (job.active => JobIsSound(job))'
    BY <2>1, JobStays
  <2> QED BY <2>2, <2>3, <2>4 DEF IInv
<1> QED BY <1>1, <1>2, <1>3, <1>4, <1>5, <1>6, <1>7, <1>8, <1>9, <1>10, <1>11 DEF Next, Working

\* The counts, the tables, the credit and the calls agree after every step
\* (replacement_rebuild.h, the whole executor).
THEOREM InvariantHolds == Spec => []IInv
<1>1. Init => IInv
  BY RebuildAssumption, InitIsSound
<1>2. IInv /\ [Next]_vars => IInv'
  BY RebuildAssumption, StepIsSound
<1> QED BY <1>1, <1>2, PTL DEF Spec

-----------------------------------------------------------------------------
(***************************************************************************)
(* What follows.                                                           *)
(***************************************************************************)

\* Between an entry and the next, and before publishing, no deadline is missed.
LEMMA InTime ==
  ASSUME IInv, control.input # <<>>, control.at \in {"apply", "settle"}, job.active
  PROVE  ~job.eager /\ job.admitted < job.horizon
BY DEF IInv, ControlIsSound

\* What is published can be restored (publication(), validate()).
LEMMA PublicationIsSound ==
  ASSUME RebuildAssumption, IInv, control.at = "settle"
  PROVE  Validates(Publication)
<1>1. foreground \in Engines /\ EngineIsSound(foreground)
  BY DEF IInv, TypeOK
<1>2. PICK t \in [Keys -> State] : t = foreground.table
  BY <1>1, EngineTypes
<1>3. PICK a, b, m, s \in Nat : /\ a = Live(t) /\ b = base /\ m = mutations /\ s = SmallLimit
  BY LiveFacts DEF IInv, TypeOK, RebuildAssumption
<1>4. PICK l, h \in Nat : l = Trigger(b) /\ h = Horizon(b + l)
  <2>1. PICK l \in Nat : l = Trigger(b)
    BY HorizonFacts
  <2>2. PICK x \in Nat : x = b + l
    OBVIOUS
  <2>3. PICK h \in Nat : h = Horizon(x)
    BY HorizonFacts
  <2> QED BY <2>1, <2>2, <2>3
<1>5. foreground.mass = b + m /\ b <= a + m /\ a <= foreground.mass
  BY <1>1, <1>2, <1>3 DEF IInv, GenerationIsSound, EngineIsSound
<1>6. /\ Publication.table = t /\ Publication.mass = b + m
      /\ Publication.base = b /\ Publication.mutations = m /\ Publication.rebuilding = job.active
  BY <1>2, <1>3, <1>5 DEF Publication
<1>7. CASE job.active
  <2>1. /\ IF b < s THEN job.eager /\ ~recovering ELSE m <= l + h
        /\ recovering => m >= l
        /\ ~job.eager => m = l + job.admitted
    BY <1>3, <1>4, <1>7 DEF IInv, GenerationIsSound
  <2>2. job.eager => recovering
    BY <1>7 DEF IInv, ControlIsSound
  <2>3. PICK k \in Nat : k = job.admitted
    BY <1>7, JobIsTyped, JobTypes DEF IInv
  <2>4. b >= s /\ m >= l /\ m - l <= h
    <3>1. ~(b < s)
      BY <2>1, <2>2
    <3>2. m >= l
      BY <2>1, <2>2, <2>3
    <3> QED BY <2>1, <3>1, <3>2
  <2> QED BY <1>3, <1>4, <1>5, <1>6, <1>7, <2>4 DEF Validates
<1>8. CASE ~job.active
  <2>1. IF b < s THEN m = 0 /\ a = b ELSE m < l
    BY <1>2, <1>3, <1>4, <1>8 DEF IInv, GenerationIsSound
  <2> QED BY <1>3, <1>4, <1>5, <1>6, <1>8, <2>1 DEF Validates
<1> QED BY <1>7, <1>8

\* An action of service() that is paid for is within the bound and its check passes.
LEMMA ServiceAgrees ==
  ASSUME RebuildAssumption, IInv
  PROVE  ~RefusesService
<1> SUFFICES ASSUME CanService
             PROVE  /\ WithinBound
                    /\ job.tiny => TinyIsExact
                    /\ job.building /\ ScanDone(job) => ScanIsExact
                    /\ job.queue # <<>> => ReplayInOrder
                    /\ Settled => HandoffIsExact
  BY DEF RefusesService
<1>1. PICK j \in Jobs : j = job /\ JobIsSound(j)
  BY ServiceFacts
<1>2. FreezeIsSound(j) /\ ScanIsSound(j) /\ QueueIsSound(j) /\ WorkIsBounded(j)
  BY <1>1 DEF JobIsSound
<1>3. WithinBound
  <2>1. Len(j.queue) = j.admitted - j.replayed /\ j.admitted <= j.horizon /\ (j.eager => j.admitted = 0)
    BY <1>2 DEF QueueIsSound
  <2>2. j.committed + Price(j) <= j.bound + j.admitted * ActionBound
    BY <1>2, <2>1, NextIsCovered
  <2> QED BY <1>1, <2>2 DEF WithinBound
<1>4. job.tiny => TinyIsExact
  BY <1>1, TinyAgrees DEF TinyIsExact
<1>5. job.building /\ ScanDone(job) => ScanIsExact
  BY <1>1, ScanAgrees DEF ScanIsExact
<1>6. job.queue # <<>> => ReplayInOrder
  <2> SUFFICES ASSUME job.queue # <<>> PROVE ReplayInOrder
    OBVIOUS
  <2>1. PICK q \in Seq(Entries) : q = j.queue /\ q # <<>>
    BY <1>1, JobTypes
  <2>2. 1 \in 1..Len(q) /\ Head(q) = q[1]
    BY <2>1
  <2>3. q[1].ordinal = j.frozen_ordinal + j.replayed + 1
    BY <1>2, <2>1, <2>2 DEF QueueIsSound
  <2> QED BY <1>1, <2>1, <2>2, <2>3 DEF ReplayInOrder
<1>7. Settled => HandoffIsExact
  BY <1>1, QueueAgrees DEF Settled, HandoffIsExact
<1> QED BY <1>3, <1>4, <1>5, <1>6, <1>7

\* No check of the executor ever fires: a rebuild keeps within what is reserved
\* for it, finishes before its horizon, and its counts and tables agree with the
\* foreground's (the require()s of replacement_rebuild.h).
THEOREM NeverRefusesHolds == Spec => []NeverRefuses
<1>1. IInv => NeverRefuses
  <2> SUFFICES ASSUME IInv PROVE NeverRefuses
    OBVIOUS
  <2>1. ~RefusesEntry
    <3>1. SUFFICES ASSUME control.at = "apply"
                   PROVE  ~due /\ (job.active => ~(job.admitted >= job.horizon))
      BY DEF RefusesEntry
    <3>2. ~due /\ control.input # <<>>
      BY <3>1 DEF IInv, ControlIsSound
    <3>3. job.active => job.admitted < job.horizon /\ job.admitted \in Nat /\ job.horizon \in Nat
      BY <3>1, <3>2, InTime, JobIsTyped, JobTypes DEF IInv
    <3> QED BY <3>2, <3>3
  <2>2. ~RefusesSettlement
    <3>1. SUFFICES ASSUME control.at = "settle"
                   PROVE  (control.input # <<>> => ~Overdue) /\ Validates(Publication)
      BY DEF RefusesSettlement
    <3>2. ASSUME control.input # <<>>
          PROVE  ~Overdue
      <4>1. job.active => /\ ~job.eager /\ job.admitted < job.horizon
                          /\ job.admitted \in Nat /\ job.horizon \in Nat
        BY <3>1, <3>2, InTime, JobIsTyped, JobTypes DEF IInv
      <4> QED BY <4>1 DEF Overdue
    <3> QED BY <3>1, <3>2, RebuildAssumption, PublicationIsSound
  <2>3. ~RefusesService
    BY RebuildAssumption, ServiceAgrees
  <2>4. foreground.mass = base + mutations
    BY DEF IInv, GenerationIsSound
  <2> QED BY <2>1, <2>2, <2>3, <2>4 DEF NeverRefuses
<1> QED BY <1>1, InvariantHolds, PTL

\* No write is lost or applied out of order while a rebuild runs, and obsolete
\* records are a bounded share of the generation (service() and apply()).
THEOREM CandidateKeepsUpHolds == Spec => []CandidateKeepsUp
<1>1. IInv => CandidateKeepsUp
  <2> SUFFICES ASSUME IInv PROVE CandidateKeepsUp
    OBVIOUS
  <2>1. CandidateCatchesUp
    <3> SUFFICES ASSUME job.active
                 PROVE  Changes(job.queue, Scanned(job)) = foreground.table
      BY DEF CandidateCatchesUp, Scanned
    <3> QED BY DEF IInv, JobIsSound, QueueIsSound
  <2>2. HistoryIsBounded
    <3>1. PICK t \in [Keys -> State] : t = foreground.table
      BY EngineTypes DEF IInv, TypeOK
    <3>2. PICK a, b, m, s \in Nat : /\ a = Live(t) /\ b = base /\ m = mutations /\ s = SmallLimit
      BY RebuildAssumption, LiveFacts DEF IInv, TypeOK, RebuildAssumption
    <3>3. PICK l, h \in Nat : l = Trigger(b) /\ h = Horizon(b + l)
      <4>1. PICK l \in Nat : l = Trigger(b)
        BY RebuildAssumption, HorizonFacts
      <4>2. PICK x \in Nat : x = b + l
        OBVIOUS
      <4>3. PICK h \in Nat : h = Horizon(x)
        BY RebuildAssumption, HorizonFacts
      <4> QED BY <4>1, <4>2, <4>3
    <3>4. foreground.mass = b + m /\ b <= a + m
      BY <3>1, <3>2 DEF IInv, GenerationIsSound
    <3>5. m <= IF b < s THEN 1 ELSE l + h
      <4>1. CASE job.active
        BY <3>2, <3>3, <4>1 DEF IInv, GenerationIsSound
      <4>2. CASE ~job.active
        <5>1. IF b < s THEN m = 0 ELSE m < l
          BY <3>2, <3>3, <4>2 DEF IInv, GenerationIsSound
        <5> QED BY <5>1
      <4> QED BY <4>1, <4>2
    <3>6. (b + m) - a <= 2 * m
      BY <3>4
    <3> QED BY <3>1, <3>2, <3>3, <3>4, <3>5, <3>6 DEF HistoryIsBounded
  <2> QED BY <2>1, <2>2 DEF CandidateKeepsUp
<1> QED BY <1>1, InvariantHolds, PTL

-----------------------------------------------------------------------------
(***************************************************************************)
(* Readers: the executor implements an atomic table.                       *)
(***************************************************************************)

Calls == {"apply", "service", "settle"}
Asked == IF control.at \in Calls THEN control.input ELSE <<>>

\* A step of a call that is not its last one shows readers nothing.
LEMMA SilentStep ==
  ASSUME published' = published,
         \/ control' = control
         \/ control.at \in Calls /\ control'.at \in Calls /\ control'.input = control.input
         \/ Asked = <<>> /\ control'.input = <<>>
  PROVE  published'.table = published.table /\ Asked' = Asked
BY DEF Asked

\* The last one shows the whole batch (publish_snapshot).
LEMMA PublishShows ==
  ASSUME IInv, Publish
  PROVE  /\ Asked' = <<>>
         /\ IF Asked = <<>> THEN published'.table = published.table
            ELSE published'.table = Table!Apply(Asked, published.table)
<1>1. /\ control.at = "settle" /\ control.left = <<>> /\ published' = Publication /\ control' = Idle
  BY DEF Publish
<1>2. PICK b \in Seq(Change) : b = control.input
  BY DEF IInv, TypeOK, Controls
<1>3. Asked = b /\ Asked' = <<>>
  BY <1>1, <1>2 DEF Asked, Calls, Idle
<1>4. PICK old, new \in [Keys -> State] : old = published.table /\ new = foreground.table
  BY EngineTypes DEF IInv, TypeOK, Snapshots
<1>5. published'.table = new
  BY <1>1, <1>4 DEF Publication
<1>6. PICK n \in Nat : n = Len(b)
  OBVIOUS
<1>7. Applied(b, n, old, new)
  <2>1. Len(control.input) - Len(control.left) = n
    BY <1>1, <1>2, <1>6
  <2>2. control.at # "failed"
    BY <1>1
  <2> QED BY <1>2, <1>4, <2>1, <2>2 DEF IInv, BatchIsApplied, Applied
<1>8. CASE b = <<>>
  <2>1. \A k \in Keys : new[k] = old[k]
    BY <1>6, <1>7, <1>8 DEF Applied
  <2>2. new = old
    BY <2>1
  <2> QED BY <1>3, <1>4, <1>5, <1>8, <2>2
<1>9. CASE b # <<>>
  <2>1. b \in Batch
    BY <1>2, <1>9 DEF IInv, ControlIsSound
  <2>2. \A i, j \in 1..n : b[i].key = b[j].key => i = j
    BY <1>6, <2>1, BatchFacts
  <2>3. DOMAIN b = 1..n
    BY <1>6
  <2>4. ASSUME NEW k \in Keys
        PROVE  new[k] = IF \E i \in DOMAIN b : b[i].key = k
                        THEN b[CHOOSE i \in DOMAIN b : b[i].key = k].value ELSE old[k]
    <3>1. CASE \E i \in 1..n : b[i].key = k
      <4>1. PICK i \in 1..n : b[i].key = k
        BY <3>1
      <4>2. \A j \in 1..n : b[j].key = k <=> j = i
        BY <2>2, <4>1
      <4>3. (CHOOSE j \in DOMAIN b : b[j].key = k) = i
        BY <2>3, <4>2
      <4>4. new[k] = b[i].value
        BY <1>7, <4>1 DEF Applied
      <4> QED BY <2>3, <4>1, <4>3, <4>4
    <3>2. CASE \A i \in 1..n : b[i].key # k
      BY <1>7, <2>3, <3>2 DEF Applied
    <3> QED BY <3>1, <3>2
  <2>5. new = Table!Apply(b, old)
    BY <2>4 DEF Table!Apply
  <2> QED BY <1>3, <1>4, <1>5, <1>9, <2>5
<1> QED BY <1>8, <1>9

\* Each step of the executor is a step of the table that its readers see, or none.
LEMMA StepRefines ==
  ASSUME IInv, [Next]_vars
  PROVE  \/ published'.table = published.table /\ Asked' = Asked
         \/ /\ Asked = <<>> /\ Asked' \in Batch /\ published'.table = published.table
            /\ \A i \in DOMAIN Asked' : Asked'[i].value = NoValue => published.table[Asked'[i].key] # NoValue
         \/ /\ Asked # <<>> /\ Asked' = <<>>
            /\ \/ published'.table = Table!Apply(Asked, published.table)
               \/ published'.table = published.table
<1>1. ASSUME NEW batch \in Batch, Contribute(batch)
      PROVE  /\ Asked = <<>> /\ Asked' \in Batch /\ published'.table = published.table
             /\ \A i \in DOMAIN Asked' :
                  Asked'[i].value = NoValue => published.table[Asked'[i].key] # NoValue
  <2>1. /\ control.at = "idle"
        /\ \A i \in DOMAIN batch : batch[i].value = NoValue => foreground.table[batch[i].key] # NoValue
        /\ control' = [at |-> "apply", input |-> batch, left |-> batch] /\ published' = published
    BY <1>1 DEF Contribute
  <2>2. Asked = <<>> /\ Asked' = batch
    BY <2>1 DEF Asked, Calls
  <2>3. \A k \in Keys : foreground.table[k] = published.table[k]
    <3>1. control.input = <<>> /\ control.at # "failed"
      BY <2>1 DEF IInv, ControlIsSound
    <3> QED BY <3>1, IdleFacts
  <2>4. \A i \in DOMAIN batch : batch[i].key \in Keys
    <3> SUFFICES ASSUME NEW i \in DOMAIN batch PROVE batch[i].key \in Keys
      OBVIOUS
    <3>1. PICK b \in Seq(Change) : b = batch
      BY BatchFacts
    <3>2. b[i] \in Change
      BY <3>1
    <3> QED BY <3>1, <3>2 DEF Change
  <2> QED BY <2>1, <2>2, <2>3, <2>4
<1>2. CASE Publish
  BY <1>2, PublishShows
<1>3. CASE Fail \/ Restart
  <2>1. published' = published /\ control'.at \notin Calls
    <3>1. Failed.at = "failed" /\ Idle.at = "idle"
      BY DEF Failed, Idle
    <3>2. published' = published /\ (control' = Failed \/ control' = Idle)
      BY <1>3 DEF Fail, Restart
    <3> QED BY <3>1, <3>2 DEF Calls
  <2>2. Asked' = <<>>
    BY <2>1 DEF Asked
  <2> QED BY <2>1, <2>2
<1>4. ASSUME \/ AdvanceForeground \/ InitializeSorted \/ ApplyEntry \/ NextEntry \/ Service
             \/ \E budget \in Budgets : Advance(budget)
             \/ UNCHANGED vars
      PROVE  published'.table = published.table /\ Asked' = Asked
  <2>1. control \in Controls
    BY DEF IInv, TypeOK
  <2>2. CASE AdvanceForeground \/ UNCHANGED vars
    BY <2>2, SilentStep DEF AdvanceForeground, vars
  <2>3. CASE InitializeSorted
    <3>1. control'.at \in Calls /\ control.at \in Calls /\ control'.input = control.input
          /\ published' = published
      BY <2>1, <2>3 DEF InitializeSorted, Controls, Calls
    <3> QED BY <3>1, SilentStep
  <2>4. CASE ApplyEntry
    <3>1. PICK place \in {"settle", "service"} :
             /\ control' = [control EXCEPT !.at = place, !.left = Tail(@)]
             /\ control.at = "apply" /\ published' = published
      BY <2>4 DEF ApplyEntry, ApplyClean, ApplyTriggering, ApplyQueued, AdmitEntry
    <3>2. control'.at \in Calls /\ control.at \in Calls /\ control'.input = control.input
      BY <2>1, <3>1 DEF Controls, Calls
    <3> QED BY <3>1, <3>2, SilentStep
  <2>5. CASE NextEntry \/ EndService
    <3>1. control'.at \in Calls /\ control.at \in Calls /\ control'.input = control.input
          /\ published' = published
      BY <2>1, <2>5 DEF NextEntry, EndService, Goto, Controls, Calls
    <3> QED BY <3>1, SilentStep
  <2>6. CASE Service /\ ~EndService
    <3>1. control' = control /\ published' = published
      BY <2>6 DEF Service, OpenCandidate, ScanOne, CopyRow, FinishScan, Replay, CandidateAdvance,
         Handoff, TinyRebuild, AdmitToCandidate, Serviced, Install
    <3> QED BY <3>1, SilentStep
  <2>7. ASSUME NEW budget \in Budgets, Advance(budget)
        PROVE  published'.table = published.table /\ Asked' = Asked
    <3>1. control.at = "idle" /\ control'.input = <<>> /\ published' = published
      BY <2>7 DEF Advance, Idle
    <3>2. Asked = <<>>
      BY <3>1 DEF Asked, Calls
    <3> QED BY <3>1, <3>2, SilentStep
  <2> QED BY <1>4, <2>2, <2>3, <2>4, <2>5, <2>6, <2>7
<1> QED BY <1>1, <1>2, <1>3, <1>4 DEF Next, Working

\* Readers see whole batches, and nothing else changes what they read
\* (contribute, advance, from_snapshot).
THEOREM RefinesTable == Spec => ImplementsTable
<1>1. Init => Table!Init
  <2> SUFFICES ASSUME Init PROVE Table!Init
    OBVIOUS
  <2>1. published \in Snapshots
    BY RebuildAssumption, InitIsSound DEF IInv, TypeOK
  <2>2. control.at = "idle"
    BY DEF Init, Idle
  <2> QED BY <2>1, <2>2 DEF Table!Init, Table!Table, Table!NoBatch, Snapshots, State
<1>2. IInv /\ [Next]_vars => [Table!Next]_Table!vars
  <2> SUFFICES ASSUME IInv, [Next]_vars
               PROVE  [Table!Next]_Table!vars
    OBVIOUS
  <2>1. Batch = Table!Batch
    BY DEF Batch, Table!Batch, Change, Table!Change, State
  <2> QED BY <2>1, StepRefines DEF Table!Next, Table!Ask, Table!Answer, Table!Drop, Table!vars,
         Table!NoBatch, Table!Admissible, Asked, Calls
<1> QED BY <1>1, <1>2, InvariantHolds, PTL DEF Spec, ImplementsTable, Table!Spec

-----------------------------------------------------------------------------
(***************************************************************************)
(* The publication of a merge, for any number of manifests, generations    *)
(* and checkpoints.                                                        *)
(***************************************************************************)

\* A manifest is prepared only over a durable output, and is never prepared again.
Backed(m) == m \in manifests /\ content[m] \in whole

\* What may be the root: the manifest published last, and the one in doubt.
CandidatesAreBacked ==
  /\ manifests \subseteq Manifests /\ content = [m \in Manifests |-> content[m]]
  /\ afloat \subseteq {pending_manifest} /\ None \notin afloat
  /\ root = durable_manifest \/ (root = pending_manifest /\ pending_manifest # None)
  /\ durable_manifest # OldManifest => Backed(durable_manifest)
  /\ pending_manifest # None => Backed(pending_manifest)

\* Where the protocol stands says how many candidates there are, and what is held.
StageIsTrue ==
  /\ stage \in {"building", "output_durable", "manifest_pending", "uncertain", "published"}
  /\ stage \in {"building", "output_durable"} =>
       pending_manifest = None /\ root = durable_manifest /\ afloat = {}
  /\ stage = "output_durable" => generation \in whole
  /\ stage = "manifest_pending" => pending_manifest # None
  /\ stage = "published" =>
       durable_manifest # OldManifest /\ root = durable_manifest /\ afloat = {}
  /\ old_pins_retained \/ stage = "published"

PublicationIInv == CandidatesAreBacked /\ StageIsTrue

(* The merge starts with no candidate but the old manifest, which is held.
   Manifests are named by neither of the two null values.  *)
LEMMA PublicationStarts ==
  ASSUME PublicationAssumption, PublicationInit
  PROVE  PublicationIInv
  BY DEF PublicationAssumption, PublicationInit, PublicationIInv, CandidatesAreBacked, StageIsTrue, None, OldManifest

(* No operation of the merge, and no late effect of its writes, makes a second
   manifest doubtful or lets go of what a possible root needs.  *)
LEMMA PublicationSteps ==
  ASSUME PublicationAssumption, PublicationIInv, [PublicationNext]_publicationVars
  PROVE  PublicationIInv'
<1> USE DEF PublicationAssumption, PublicationIInv, CandidatesAreBacked, StageIsTrue, Backed
<1>1. ASSUME NEW candidate, NEW r \in Results, complete_checkpoint(candidate, r) PROVE PublicationIInv'
  BY <1>1 DEF complete_checkpoint
<1>2. ASSUME NEW r \in Results, complete_output(r) PROVE PublicationIInv'
  BY <1>2 DEF complete_output
<1>3. ASSUME NEW r \in Results, complete_manifest(r) PROVE PublicationIInv'
  BY <1>3 DEF complete_manifest
<1>4. ASSUME NEW m \in Manifests, prepare_manifest(m) PROVE PublicationIInv'
  <2>1. /\ content'[m] = generation /\ generation \in whole
        /\ \A n \in manifests : content'[n] = content[n]
    BY <1>4 DEF prepare_manifest
  <2>2. StageIsTrue' /\ Backed(m)'
    BY <1>4, <2>1 DEF prepare_manifest
  <2>3. durable_manifest # OldManifest => Backed(durable_manifest)'
    BY <1>4, <2>1 DEF prepare_manifest
  <2>4. content' = [n \in Manifests |-> content'[n]]
    BY <1>4 DEF prepare_manifest
  <2>5. CandidatesAreBacked'
    BY <1>4, <2>2, <2>3, <2>4 DEF prepare_manifest
  <2>6. QED
    BY <2>2, <2>5
<1>5. ASSUME NEW m \in Manifests, surface(m) PROVE PublicationIInv'
  BY <1>5 DEF surface, protocol
<1>6. CASE report_io_failure
  BY <1>6 DEF report_io_failure, store
<1>7. CASE select_old_root
  BY <1>7 DEF select_old_root, protocol
<1>8. CASE accept_recovered_publication
  BY <1>8 DEF accept_recovered_publication, store
<1>9. CASE release_old_pins
  BY <1>9 DEF release_old_pins, store
<1>10. ASSUME NEW g \in Generations, NEW c, NEW s, resume(g, c, s) PROVE PublicationIInv'
  BY <1>10 DEF resume, Reconciled, OldRootSelected, store
<1>11. CASE UNCHANGED publicationVars
  BY <1>11 DEF publicationVars, protocol, store
<1>12. QED
  BY <1>1, <1>2, <1>3, <1>4, <1>5, <1>6, <1>7, <1>8, <1>9, <1>10, <1>11 DEF PublicationNext

(* The root survives every doubt, whatever the manifests, generations and records:
   complete_manifest, resume, accept_recovered_publication, release_old_pins.  *)
THEOREM RootSurvives == PublicationSpec => []RootSurvivesDoubt
<1>1. PublicationInit => PublicationIInv
  BY PublicationAssumption, PublicationStarts
<1>2. PublicationIInv /\ [PublicationNext]_publicationVars => PublicationIInv'
  BY PublicationAssumption, PublicationSteps
<1>3. PublicationIInv => RootSurvivesDoubt
  BY DEF PublicationIInv, CandidatesAreBacked, StageIsTrue, Backed, RootSurvivesDoubt, RootIsComplete
<1>4. QED
  BY <1>1, <1>2, <1>3, PTL DEF PublicationSpec

-----------------------------------------------------------------------------
(***************************************************************************)
(* The output budget, for any number of threads and any limit.             *)
(***************************************************************************)

\* What a thread holds: its lease and the lease of its last output.
HeldBytes == [t \in Threads |-> lease[t].bytes + retained[t]]

BudgetTypeOK ==
  /\ used \in Nat
  /\ call \in [Threads -> [at : {"idle", "loaded"}, seen : Nat, bytes : Nat]]
  /\ lease \in [Threads -> [bytes : Nat, state : BOOLEAN]]
  /\ retained \in [Threads -> Nat]

\* A call works on a value that was once the charge, and its thread has no lease yet.
CallsAreSound ==
  \A t \in Threads :
    /\ call[t].at = "loaded" => call[t].seen <= Limit /\ ~lease[t].state
    /\ ~lease[t].state => lease[t].bytes = 0

BudgetIInv ==
  /\ BudgetTypeOK /\ CallsAreSound
  /\ used = Total(HeldBytes, Threads) /\ used <= Limit

\* Nothing is held at first.
LEMMA NothingHeld ==
  ASSUME BudgetAssumption, BudgetInit
  PROVE  BudgetIInv
<1> USE DEF BudgetAssumption
<1>1. BudgetTypeOK /\ CallsAreSound /\ used = 0
  BY DEF BudgetInit, BudgetTypeOK, CallsAreSound, NoCall, NoLease
<1>2. HeldBytes \in [Threads -> Nat] /\ \A t \in Threads : HeldBytes[t] = 0
  BY DEF BudgetInit, HeldBytes, NoLease
<1>3. Total(HeldBytes, Threads) = 0
  <2> DEFINE Bad == {T \in FiniteSubsetsOf(Threads) : Total(HeldBytes, T) # 0}
  <2> SUFFICES ASSUME Bad # {} PROVE FALSE
    BY DEF FiniteSubsetsOf
  <2>1. PICK T \in Bad : \A U \in Bad : ~(U \subseteq T /\ U # T)
    <3>1. Bad \subseteq FiniteSubsetsOf(Threads)
      OBVIOUS
    <3> HIDE DEF Bad
    <3>2. QED
      BY <3>1, SmallestSet
  <2>2. T \in SUBSET Threads /\ IsFiniteSet(T) /\ Total(HeldBytes, T) # 0
    BY <2>1 DEF FiniteSubsetsOf
  <2>3. T # {}
    BY <2>2, TotalEmpty
  <2>4. PICK x \in T : TRUE
    BY <2>3
  <2>5. T \ {x} \in FiniteSubsetsOf(Threads) /\ T \ {x} \subseteq T /\ T \ {x} # T
    BY <2>2, <2>4, FS_Subset DEF FiniteSubsetsOf
  <2>6. Total(HeldBytes, T \ {x}) = 0
    BY <2>1, <2>5
  <2>7. Total(HeldBytes, T \ {x}) = Total(HeldBytes, T) - HeldBytes[x] /\ Total(HeldBytes, T) \in Nat
    BY <1>2, <2>2, TotalRemove, TotalType
  <2>8. QED
    BY <1>2, <2>2, <2>4, <2>6, <2>7
<1>4. QED
  BY <1>1, <1>3 DEF BudgetIInv

\* A step of one thread that charges the difference keeps the account.
LEMMA OneHolds ==
  ASSUME BudgetAssumption, BudgetIInv, NEW t \in Threads,
         lease' \in [Threads -> [bytes : Nat, state : BOOLEAN]], retained' \in [Threads -> Nat],
         \A u \in Threads \ {t} : lease'[u].bytes = lease[u].bytes /\ retained'[u] = retained[u],
         used' = used - (lease[t].bytes + retained[t]) + (lease'[t].bytes + retained'[t])
  PROVE  used' = Total(HeldBytes, Threads)' /\ used' \in Nat
<1> DEFINE v == HeldBytes
           w == [u \in Threads |-> lease'[u].bytes + retained'[u]]
<1>1. v \in [Threads -> Nat] /\ w \in [Threads -> Nat] /\ \A u \in Threads \ {t} : v[u] = w[u]
  BY DEF BudgetIInv, BudgetTypeOK, HeldBytes
<1>2. v[t] = lease[t].bytes + retained[t] /\ w[t] = lease'[t].bytes + retained'[t]
  BY DEF HeldBytes
<1>3. used = Total(v, Threads) /\ IsFiniteSet(Threads)
  BY DEF BudgetIInv, BudgetAssumption
<1>4. Total(HeldBytes, Threads)' = Total(w, Threads)
  BY DEF HeldBytes
<1> HIDE DEF v, w
<1>7. ASSUME NEW V \in [Threads -> Nat], NEW W \in [Threads -> Nat], \A u \in Threads \ {t} : V[u] = W[u]
      PROVE  Total(W, Threads) = Total(V, Threads) - V[t] + W[t] /\ Total(W, Threads) \in Nat
  BY <1>3, <1>7, TotalChange
<1>5. Total(w, Threads) = Total(v, Threads) - v[t] + w[t] /\ Total(w, Threads) \in Nat
  BY <1>1, <1>7
<1>6. QED
  BY <1>2, <1>3, <1>4, <1>5

\* Racing acquisitions, shrinking, handing on and dropping all charge the difference.
LEMMA BudgetStep ==
  ASSUME BudgetAssumption, BudgetIInv, [BudgetNext]_budgetVars
  PROVE  BudgetIInv'
<1>1. BudgetTypeOK /\ CallsAreSound /\ used <= Limit /\ Limit \in Nat
  BY DEF BudgetIInv, BudgetAssumption
<1>2. ASSUME UNCHANGED <<used, lease, retained>> PROVE used' = Total(HeldBytes, Threads)' /\ used' <= Limit
  BY <1>2 DEF BudgetIInv, HeldBytes
<1> USE DEF BudgetTypeOK, CallsAreSound
<1>3. ASSUME NEW t \in Threads, NEW bytes \in Sizes, load(t, bytes) PROVE BudgetIInv'
  <2>1. BudgetTypeOK' /\ CallsAreSound'
    BY <1>1, <1>3 DEF load, Sizes
  <2>2. QED
    BY <1>2, <1>3, <2>1 DEF load, BudgetIInv
<1>4. ASSUME NEW t \in Threads, exchange_fails(t) PROVE BudgetIInv'
  <2>1. BudgetTypeOK' /\ CallsAreSound'
    BY <1>1, <1>4 DEF exchange_fails
  <2>2. QED
    BY <1>2, <1>4, <2>1 DEF exchange_fails, BudgetIInv
<1>5. ASSUME NEW t \in Threads, refuse(t) PROVE BudgetIInv'
  <2>1. BudgetTypeOK' /\ CallsAreSound'
    BY <1>1, <1>5 DEF refuse, NoCall
  <2>2. QED
    BY <1>2, <1>5, <2>1 DEF refuse, BudgetIInv
<1>6. ASSUME NEW t \in Threads, exchange(t) PROVE BudgetIInv'
  <2>1. used' \in Nat /\ used' <= Limit
    BY <1>1, <1>6 DEF exchange, Unchanged
  <2>2. BudgetTypeOK' /\ CallsAreSound'
    BY <1>1, <1>6, <2>1 DEF exchange, NoCall
  <2>3. /\ lease[t].bytes = 0 /\ lease'[t].bytes = call[t].bytes /\ used' = used + call[t].bytes
        /\ \A u \in Threads \ {t} : lease'[u] = lease[u]
        /\ retained' = retained
    BY <1>1, <1>6 DEF exchange, Unchanged
  <2>4. used' = used - (lease[t].bytes + retained[t]) + (lease'[t].bytes + retained'[t])
    BY <1>1, <2>2, <2>3
  <2>5. QED
    BY <2>1, <2>2, <2>3, <2>4, OneHolds DEF BudgetIInv
<1>7. ASSUME NEW t \in Threads, lease' \in [Threads -> [bytes : Nat, state : BOOLEAN]],
             retained' \in [Threads -> Nat], call' = call, call[t].at = "idle" \/ lease' = lease,
             ~lease'[t].state => lease'[t].bytes = 0,
             \A u \in Threads \ {t} : lease'[u] = lease[u] /\ retained'[u] = retained[u],
             lease'[t].bytes + retained'[t] <= lease[t].bytes + retained[t],
             used' = used - (lease[t].bytes + retained[t]) + (lease'[t].bytes + retained'[t])
      PROVE  BudgetIInv'
  <2>1. used' = Total(HeldBytes, Threads)' /\ used' \in Nat
    BY <1>7, OneHolds
  <2>2. used' <= Limit
    BY <1>1, <1>7, <2>1
  <2>3. BudgetTypeOK' /\ CallsAreSound'
    BY <1>1, <1>7, <2>1
  <2>4. QED
    BY <2>1, <2>2, <2>3 DEF BudgetIInv
<1>8. ASSUME NEW t \in Threads, NEW bytes \in Sizes, shrink(t, bytes) PROVE BudgetIInv'
  <2>1. /\ lease' \in [Threads -> [bytes : Nat, state : BOOLEAN]] /\ retained' = retained /\ call' = call
        /\ lease'[t].bytes = bytes /\ lease'[t].state = lease[t].state /\ bytes <= lease[t].bytes /\ bytes \in Nat
        /\ call[t].at = "idle"
        /\ \A u \in Threads \ {t} : lease'[u] = lease[u]
    BY <1>1, <1>8 DEF shrink, Sizes
  <2>2. used' = used - (lease[t].bytes - bytes)
    BY <1>1, <1>8, <2>1 DEF shrink
  <2>3. used' = used - (lease[t].bytes + retained[t]) + (lease'[t].bytes + retained'[t])
    BY <1>1, <2>1, <2>2
  <2>4. lease'[t].bytes + retained'[t] <= lease[t].bytes + retained[t]
    BY <1>1, <2>1
  <2>5. ~lease'[t].state => lease'[t].bytes = 0
    BY <1>1, <2>1
  <2>6. QED
    BY <1>1, <1>7, <2>1, <2>3, <2>4, <2>5
<1>9. ASSUME NEW t \in Threads, reset(t) PROVE BudgetIInv'
  <2>1. /\ lease' \in [Threads -> [bytes : Nat, state : BOOLEAN]] /\ retained' = retained /\ call' = call
        /\ lease'[t].bytes = 0 /\ call[t].at = "idle"
        /\ \A u \in Threads \ {t} : lease'[u] = lease[u]
    BY <1>1, <1>9 DEF reset, NoLease
  <2>2. used' = used - lease[t].bytes
    BY <1>1, <1>9 DEF reset
  <2>3. /\ used' = used - (lease[t].bytes + retained[t]) + (lease'[t].bytes + retained'[t])
        /\ lease'[t].bytes + retained'[t] <= lease[t].bytes + retained[t]
    BY <1>1, <2>1, <2>2
  <2>4. QED
    BY <1>1, <1>7, <2>1, <2>3
<1>10. ASSUME NEW t \in Threads, attach(t) PROVE BudgetIInv'
  <2>1. /\ lease' \in [Threads -> [bytes : Nat, state : BOOLEAN]] /\ retained' \in [Threads -> Nat]
        /\ call' = call /\ lease'[t].bytes = 0 /\ call[t].at = "idle" /\ retained'[t] = lease[t].bytes
        /\ \A u \in Threads \ {t} : lease'[u] = lease[u] /\ retained'[u] = retained[u]
        /\ used' = used - retained[t]
    BY <1>1, <1>10 DEF attach, NoLease
  <2>2. /\ used' = used - (lease[t].bytes + retained[t]) + (lease'[t].bytes + retained'[t])
        /\ lease'[t].bytes + retained'[t] <= lease[t].bytes + retained[t]
    BY <1>1, <2>1
  <2>3. QED
    BY <1>7, <2>1, <2>2
<1>11. ASSUME NEW t \in Threads, drop(t) PROVE BudgetIInv'
  <2>1. /\ lease' = lease /\ retained' \in [Threads -> Nat] /\ call' = call /\ retained'[t] = 0
        /\ \A u \in Threads \ {t} : retained'[u] = retained[u]
        /\ used' = used - retained[t]
    BY <1>1, <1>11 DEF drop
  <2>2. /\ used' = used - (lease[t].bytes + retained[t]) + (lease'[t].bytes + retained'[t])
        /\ lease'[t].bytes + retained'[t] <= lease[t].bytes + retained[t]
    BY <1>1, <2>1
  <2>3. QED
    BY <1>1, <1>7, <2>1, <2>2
<1>12. CASE UNCHANGED budgetVars
  BY <1>1, <1>2, <1>12 DEF budgetVars, BudgetIInv
<1>13. QED
  BY <1>3, <1>4, <1>5, <1>6, <1>8, <1>9, <1>10, <1>11, <1>12 DEF BudgetNext

\* The fold over the threads that ChargesAreExact takes is the sum.
LEMMA FoldOfHeld ==
  ASSUME BudgetAssumption
  PROVE  MapThenSumSet(LAMBDA t : lease[t].bytes + retained[t], Threads) = Total(HeldBytes, Threads)
<1> DEFINE F(g) == [s \in SUBSET Threads |->
                      IF s = {} THEN 0 ELSE (lease[Chosen(s)].bytes + retained[Chosen(s)]) + g[s \ {Chosen(s)}]]
           h == CHOOSE g : g = F(g)
<1>1. MapThenSumSet(LAMBDA t : lease[t].bytes + retained[t], Threads) = h[Threads]
  BY DEF MapThenSumSet, MapThenFoldSet, Chosen
<1>2. \A s \in SUBSET Threads : s # {} => Chosen(s) \in Threads
  BY ChosenIn
<1>3. ASSUME NEW g
      PROVE  F(g) = [s \in SUBSET Threads |-> IF s = {} THEN 0
                                              ELSE HeldBytes[Chosen(s)] + g[s \ {Chosen(s)}]]
  BY <1>2 DEF HeldBytes
<1>4. \A g : Sums(g, HeldBytes, Threads) <=> g = F(g)
  <2> HIDE DEF F
  <2>1. QED
    BY <1>3 DEF Sums
<1>5. IsFiniteSet(Threads)
  BY DEF BudgetAssumption
<1>6. \E g : g = F(g)
  BY <1>4, <1>5, SumsExist
<1>7. h = F(h)
  <2> HIDE DEF F
  <2>1. QED
    BY <1>6
<1>8. Sums(h, HeldBytes, Threads) /\ Sums(CHOOSE g : Sums(g, HeldBytes, Threads), HeldBytes, Threads)
  BY <1>4, <1>5, <1>7, SumsExist
<1> HIDE DEF h
<1> DEFINE k == CHOOSE g : Sums(g, HeldBytes, Threads)
<1>9. Sums(k, HeldBytes, Threads)
  BY <1>8
<1>10. Total(HeldBytes, Threads) = k[Threads]
  BY DEF Total
<1> HIDE DEF k
<1>11. h[Threads] = k[Threads]
  BY <1>5, <1>8, <1>9, SumsAgree
<1>12. QED
  BY <1>1, <1>10, <1>11

(* The invariant holds: a loaded value was once within the limit, and the
   allowance charged is the sum of what threads hold (output_budget:
   try_acquire, reset, shrink, attach).                                     *)
THEOREM BudgetInvariance == BudgetSpec => []BudgetIInv
<1>1. BudgetInit => BudgetIInv
  BY BudgetAssumption, NothingHeld
<1>2. BudgetIInv /\ [BudgetNext]_budgetVars => BudgetIInv'
  BY BudgetAssumption, BudgetStep
<1>3. QED
  BY <1>1, <1>2, PTL DEF BudgetSpec

(* However many threads race for whatever limit, what is charged is what leases
   and finished outputs hold, and stays within it (try_acquire's loop).      *)
THEOREM ChargesHold == BudgetSpec => []ChargesAreExact
<1>1. BudgetIInv => ChargesAreExact
  BY BudgetAssumption, FoldOfHeld DEF BudgetIInv, ChargesAreExact
<1>2. QED
  BY <1>1, BudgetInvariance, PTL

----------------------------------------------------------------------------
(* A round of batches: the ring                                            *)

\* a and b are the same element of the ring.
Same(a, b) == \E z \in Int : a = b + Modulus * z

\* A number is the same as its remainder.
LEMMA SameRemainder ==
  ASSUME RoundAssumption, NEW a \in Int
  PROVE  a % Modulus \in 0..(Modulus - 1) /\ Same(a, a % Modulus) /\ Same(a % Modulus, a)
<1>1. Modulus \in Nat \ {0}
  BY DEF RoundAssumption
<1>2. a % Modulus \in 0..(Modulus - 1) /\ a \div Modulus \in Int /\ a = Modulus * (a \div Modulus) + (a % Modulus)
  BY <1>1
<1>3. Same(a, a % Modulus)
  <2>1. Modulus * (a \div Modulus) \in Int
    BY <1>1, <1>2
  <2>2. a = (a % Modulus) + Modulus * (a \div Modulus)
    BY <1>2, <2>1
  <2>3. QED
    BY <1>2, <2>2 DEF Same
<1>4. Same(a % Modulus, a)
  <2>1. Modulus * (-(a \div Modulus)) = -(Modulus * (a \div Modulus))
    BY <1>1, <1>2
  <2>2. a % Modulus = a + Modulus * (-(a \div Modulus)) /\ -(a \div Modulus) \in Int
    BY <1>1, <1>2, <2>1
  <2>3. QED
    BY <2>2 DEF Same
<1>5. QED
  BY <1>2, <1>3, <1>4

\* What is the same stays the same when the same is added.
LEMMA SameSum ==
  ASSUME RoundAssumption, NEW a \in Int, NEW b \in Int, NEW c \in Int, NEW d \in Int, Same(a, b), Same(c, d)
  PROVE  Same(a + c, b + d)
<1>1. PICK x \in Int : a = b + Modulus * x
  BY DEF Same
<1>2. PICK y \in Int : c = d + Modulus * y
  BY DEF Same
<1>3. Modulus \in Int
  BY DEF RoundAssumption
<1>4. Modulus * (x + y) = Modulus * x + Modulus * y
  BY <1>3
<1>5. Modulus * x \in Int /\ Modulus * y \in Int /\ x + y \in Int
  BY <1>3
<1>6. a + c = (b + d) + Modulus * (x + y)
  BY <1>1, <1>2, <1>4, <1>5
<1>7. QED
  BY <1>5, <1>6 DEF Same

LEMMA SameThrough ==
  ASSUME RoundAssumption, NEW a \in Int, NEW b \in Int, NEW c \in Int, Same(a, b), Same(b, c)
  PROVE  Same(a, c)
<1>1. PICK x \in Int : a = b + Modulus * x
  BY DEF Same
<1>2. PICK y \in Int : b = c + Modulus * y
  BY DEF Same
<1>3. Modulus \in Int
  BY DEF RoundAssumption
<1>4. Modulus * (x + y) = Modulus * x + Modulus * y
  BY <1>3
<1>5. Modulus * x \in Int /\ Modulus * y \in Int /\ x + y \in Int
  BY <1>3
<1>6. a = c + Modulus * (x + y)
  BY <1>1, <1>2, <1>4, <1>5
<1>7. QED
  BY <1>5, <1>6 DEF Same

\* A multiple of the modulus is less than it only if it is zero or negative.
LEMMA SmallMultiple ==
  ASSUME NEW m \in Nat \ {0}, NEW z \in Int, m * z < m, -m < m * z
  PROVE  z = 0
<1>1. CASE z >= 1
  <2>1. m * z = m + m * (z - 1)
    OBVIOUS
  <2>2. m * (z - 1) >= 0
    BY <1>1
  <2>3. m * (z - 1) \in Int /\ m * z \in Int
    OBVIOUS
  <2>4. QED
    BY <2>1, <2>2, <2>3
<1>2. CASE z <= -1
  <2>1. m * z = -m - m * (-z - 1)
    OBVIOUS
  <2>2. m * (-z - 1) >= 0
    BY <1>2
  <2>3. m * (-z - 1) \in Int /\ m * z \in Int
    OBVIOUS
  <2>4. QED
    BY <2>1, <2>2, <2>3
<1>3. QED
  BY <1>1, <1>2

\* What is the same has the same remainder.
LEMMA RemaindersAgree ==
  ASSUME RoundAssumption, NEW a \in Int, NEW b \in Int, Same(a, b)
  PROVE  a % Modulus = b % Modulus
<1> DEFINE r == a % Modulus
           s == b % Modulus
<1>1. r \in 0..(Modulus - 1) /\ s \in 0..(Modulus - 1) /\ Modulus \in Nat \ {0}
  BY SameRemainder DEF RoundAssumption
<1>2. Same(r, s)
  <2>1. Same(r, a) /\ Same(b, s) /\ r \in Int /\ s \in Int
    BY <1>1, SameRemainder
  <2> HIDE DEF r, s
  <2>2. Same(r, b)
    BY <2>1, SameThrough
  <2>3. QED
    BY <2>1, <2>2, SameThrough
<1> HIDE DEF r, s
<1>3. PICK z \in Int : r = s + Modulus * z
  BY <1>2 DEF Same
<1> DEFINE q == Modulus * z
<1>4. q \in Int /\ r = s + q
  BY <1>1, <1>3
<1>5. q < Modulus /\ -Modulus < q
  <2> HIDE DEF q
  <2>1. QED
    BY <1>1, <1>4
<1>6. z = 0
  BY <1>1, <1>5, SmallMultiple
<1>7. QED
  BY <1>1, <1>3, <1>6 DEF r, s

\* A key's contribution is an element of the ring, and absence contributes nothing.
LEMMA BindingType ==
  ASSUME RoundAssumption, NEW k \in WorldKeys, NEW v \in KeyValues, NEW w \in KeyValues
  PROVE  /\ Binding(k, v) \in 0..(Modulus - 1) /\ Delta(k, v, w) \in 0..(Modulus - 1)
         /\ Binding(k, Absent) = 0
<1>1. KeyHash[k] \in Int /\ Hash(v) \in Int /\ Hash(w) \in Int /\ Modulus \in Nat \ {0}
  BY DEF RoundAssumption, KeyValues, Hash
<1>2. KeyHash[k] * Hash(v) \in Int /\ KeyHash[k] * (Hash(w) - Hash(v)) \in Int
  BY <1>1
<1>3. Binding(k, v) \in 0..(Modulus - 1) /\ Delta(k, v, w) \in 0..(Modulus - 1)
  BY <1>2, SameRemainder DEF Binding, Delta
<1>4. KeyHash[k] * Hash(Absent) = 0
  BY <1>1 DEF Hash
<1>5. 0 % Modulus = 0
  BY <1>1
<1>6. QED
  BY <1>3, <1>4, <1>5 DEF Binding

\* An edit changes what its key contributes by its delta.
LEMMA DeltaMoves ==
  ASSUME RoundAssumption, NEW k \in WorldKeys, NEW v \in KeyValues, NEW w \in KeyValues
  PROVE  Same(Binding(k, v) + Delta(k, v, w), Binding(k, w))
<1> DEFINE x == KeyHash[k] * Hash(v)
           y == KeyHash[k] * (Hash(w) - Hash(v))
           u == KeyHash[k] * Hash(w)
<1>1. KeyHash[k] \in Int /\ Hash(v) \in Int /\ Hash(w) \in Int
  BY DEF RoundAssumption, KeyValues, Hash
<1>2. x \in Int /\ y \in Int /\ u \in Int /\ x + y = u
  BY <1>1
<1>3. Binding(k, v) = x % Modulus /\ Delta(k, v, w) = y % Modulus /\ Binding(k, w) = u % Modulus
  BY DEF Binding, Delta
<1> HIDE DEF x, y, u
<1>4. /\ Same(x % Modulus, x) /\ Same(y % Modulus, y) /\ Same(u, u % Modulus)
      /\ x % Modulus \in Int /\ y % Modulus \in Int /\ u % Modulus \in Int
  BY <1>2, SameRemainder
<1>5. Same((x % Modulus) + (y % Modulus), u)
  BY <1>2, <1>4, SameSum
<1>6. QED
  BY <1>2, <1>3, <1>4, <1>5, SameThrough

----------------------------------------------------------------------------
(* A round of batches: tables and their signatures                         *)

WorldTables == [WorldKeys -> KeyValues]
Bindings(t) == [k \in WorldKeys |-> Binding(k, t[k])]
Signature(t) == Total(Bindings(t), WorldKeys) % Modulus

\* The fold of a function is the sum of its values.
LEMMA RingSumIs ==
  ASSUME NEW S, IsFiniteSet(S), NEW f, DOMAIN f = S
  PROVE  RingSum(f) = Total(f, S) % Modulus
  BY SumIsTotal DEF RingSum

LEMMA BindingsType ==
  ASSUME RoundAssumption, NEW t \in WorldTables
  PROVE  /\ Bindings(t) \in [WorldKeys -> Nat] /\ Total(Bindings(t), WorldKeys) \in Nat
         /\ Signature(t) \in 0..(Modulus - 1)
<1>1. \A k \in WorldKeys : Bindings(t)[k] \in Nat
  BY BindingType DEF Bindings, WorldTables, RoundAssumption
<1>2. Bindings(t) \in [WorldKeys -> Nat]
  BY <1>1 DEF Bindings
<1>3. Total(Bindings(t), WorldKeys) \in Nat
  BY <1>2, TotalType DEF RoundAssumption
<1>4. QED
  BY <1>2, <1>3, SameRemainder DEF Signature

\* What from_records adds up is the signature: absent keys contribute nothing.
LEMMA LiveSum ==
  ASSUME RoundAssumption, NEW t \in WorldTables
  PROVE  /\ RingSum([k \in LiveKeys(t) |-> Binding(k, t[k])]) = Signature(t)
         /\ LiveKeys(t) = {} => Signature(t) = 0
<1> DEFINE live == LiveKeys(t)
           f == [k \in live |-> Binding(k, t[k])]
<1>1. live \subseteq WorldKeys /\ IsFiniteSet(WorldKeys) /\ IsFiniteSet(live)
  BY FS_Subset DEF LiveKeys, RoundAssumption
<1>2. RingSum(f) = Total(f, live) % Modulus
  BY <1>1, RingSumIs
<1>3. Total(f, live) = Total(Bindings(t), live)
  BY <1>1, TotalSame DEF Bindings
<1>4. \A k \in WorldKeys \ live : Bindings(t)[k] = 0
  BY BindingType DEF Bindings, LiveKeys, WorldTables
<1>5. Total(Bindings(t), WorldKeys) = Total(Bindings(t), live)
  BY <1>1, <1>4, BindingsType, TotalZeros
<1>6. live = {} => Signature(t) = 0
  <2>1. live = {} => Total(Bindings(t), WorldKeys) = 0
    BY <1>5, TotalEmpty
  <2>2. 0 % Modulus = 0
    BY DEF RoundAssumption
  <2>3. QED
    BY <2>1, <2>2 DEF Signature
<1>7. QED
  BY <1>2, <1>3, <1>5, <1>6 DEF Signature

\* The table after some edits.
Edited(t, edits, K) == [k \in WorldKeys |-> IF k \in K THEN edits[k].after ELSE t[k]]
AreEdits(t, edits) ==
  /\ DOMAIN edits \subseteq WorldKeys
  /\ \A k \in DOMAIN edits : edits[k].before = t[k] /\ edits[k].after \in KeyValues
Deltas(edits) == [k \in DOMAIN edits |-> Delta(k, edits[k].before, edits[k].after)]

LEMMA EditedType ==
  ASSUME RoundAssumption, NEW t \in WorldTables, NEW edits, AreEdits(t, edits), NEW K \in SUBSET DOMAIN edits
  PROVE  /\ Edited(t, edits, K) \in WorldTables /\ IsFiniteSet(DOMAIN edits)
         /\ Deltas(edits) \in [DOMAIN edits -> Nat]
<1>1. Edited(t, edits, K) \in WorldTables
  BY DEF Edited, WorldTables, AreEdits
<1>2. IsFiniteSet(DOMAIN edits)
  BY FS_Subset DEF AreEdits, RoundAssumption
<1>3. ASSUME NEW k \in DOMAIN edits PROVE Delta(k, edits[k].before, edits[k].after) \in Nat
  <2>1. k \in WorldKeys /\ edits[k].before \in KeyValues /\ edits[k].after \in KeyValues
    BY DEF AreEdits, WorldTables
  <2>2. QED
    BY <2>1, BindingType DEF RoundAssumption
<1>4. QED
  BY <1>1, <1>2, <1>3 DEF Deltas

\* Edits change the sum of the bindings by the sum of their deltas.
LEMMA EditsMove ==
  ASSUME RoundAssumption, NEW t \in WorldTables, NEW edits, AreEdits(t, edits)
  PROVE  Same(Total(Bindings(t), WorldKeys) + Total(Deltas(edits), DOMAIN edits),
              Total(Bindings(Edited(t, edits, DOMAIN edits)), WorldKeys))
<1> DEFINE A == Total(Bindings(t), WorldKeys)
           D(K) == Total(Deltas(edits), K)
           B(K) == Total(Bindings(Edited(t, edits, K)), WorldKeys)
           Bad == {K \in FiniteSubsetsOf(DOMAIN edits) : ~Same(A + D(K), B(K))}
<1> SUFFICES ASSUME Bad # {} PROVE FALSE
  BY EditedType DEF FiniteSubsetsOf
<1>1. PICK K \in Bad : \A J \in Bad : ~(J \subseteq K /\ J # K)
  <2>1. Bad \subseteq FiniteSubsetsOf(DOMAIN edits)
    OBVIOUS
  <2> HIDE DEF Bad
  <2>2. QED
    BY <2>1, SmallestSet
<1>2. K \in SUBSET DOMAIN edits /\ IsFiniteSet(K) /\ ~Same(A + D(K), B(K))
  BY DEF FiniteSubsetsOf
<1>3. A \in Nat /\ \A J \in SUBSET DOMAIN edits : B(J) \in Nat /\ D(J) \in Nat
  <2>1. A \in Nat
    BY BindingsType
  <2>2. ASSUME NEW J \in SUBSET DOMAIN edits PROVE B(J) \in Nat /\ D(J) \in Nat
    <3>1. B(J) \in Nat
      BY EditedType, BindingsType
    <3>2. IsFiniteSet(J) /\ Deltas(edits) \in [DOMAIN edits -> Nat]
      BY EditedType, FS_Subset
    <3>3. D(J) \in Nat
      BY <3>2, TotalType
    <3>4. QED
      BY <3>1, <3>3
  <2>3. QED
    BY <2>1, <2>2
<1>4. CASE K = {}
  <2>1. D(K) = 0
    BY <1>4, TotalEmpty
  <2>2. Edited(t, edits, K) = t
    BY <1>4 DEF Edited, WorldTables
  <2>3. A + D(K) = B(K)
    BY <1>3, <2>1, <2>2
  <2> DEFINE b == B(K)
  <2>4. b \in Int /\ b = b + Modulus * 0 /\ A + D(K) = b
    BY <1>2, <1>3, <2>3 DEF RoundAssumption
  <2> HIDE DEF b, A, D
  <2>5. Same(A + D(K), b)
    BY <2>4 DEF Same
  <2>6. QED
    BY <1>2, <2>5 DEF b
<1>5. CASE K # {}
  <2> DEFINE c == Chosen(K)
             J == K \ {c}
             v == Edited(t, edits, J)
             w == Edited(t, edits, K)
  <2>1. c \in K /\ J \subseteq K /\ J # K /\ c \notin J
    BY <1>5, ChosenIn
  <2> HIDE DEF c
  <2>2. J \in SUBSET DOMAIN edits /\ J \in FiniteSubsetsOf(DOMAIN edits) /\ IsFiniteSet(J)
    BY <1>2, <2>1, FS_Subset DEF FiniteSubsetsOf
  <2>3. Same(A + D(J), B(J))
    BY <1>1, <2>1, <2>2
  <2>4. c \in WorldKeys /\ c \in DOMAIN edits /\ t[c] \in KeyValues /\ edits[c].after \in KeyValues /\ edits[c].before = t[c]
    BY <1>2, <2>1 DEF AreEdits, WorldTables
  <2> DEFINE d == Delta(c, t[c], edits[c].after)
             x == Binding(c, t[c])
             y == Binding(c, edits[c].after)
  <2>5. d \in Int /\ x \in Int /\ y \in Int /\ Same(x + d, y)
    BY <2>4, BindingType, DeltaMoves DEF RoundAssumption
  <2>6. D(K) = D(J) + d
    <3>1. Deltas(edits) \in [DOMAIN edits -> Nat] /\ J \cup {c} = K /\ c \in DOMAIN edits \ J
      BY <2>1, <2>2, <2>4, EditedType
    <3>2. Total(Deltas(edits), J \cup {c}) = Deltas(edits)[c] + Total(Deltas(edits), J)
      BY <2>2, <3>1, TotalAdd
    <3>3. Deltas(edits)[c] = d
      BY <2>4 DEF Deltas
    <3>4. D(J) \in Int /\ d \in Int
      BY <1>3, <2>2, <2>5
    <3>5. QED
      BY <3>1, <3>2, <3>3, <3>4
  <2>7. B(K) = B(J) - x + y
    <3>1. v \in WorldTables /\ w \in WorldTables
      BY <1>2, <2>2, EditedType
    <3>2. Bindings(v) \in [WorldKeys -> Nat] /\ Bindings(w) \in [WorldKeys -> Nat] /\ IsFiniteSet(WorldKeys)
      BY <3>1, BindingsType DEF RoundAssumption
    <3>3. Bindings(v)[c] = x /\ Bindings(w)[c] = y /\ \A k \in WorldKeys \ {c} : Bindings(v)[k] = Bindings(w)[k]
      BY <2>1, <2>4 DEF Bindings, Edited
    <3> DEFINE f == Bindings(v)
               g == Bindings(w)
    <3>4. /\ f \in [WorldKeys -> Nat] /\ g \in [WorldKeys -> Nat] /\ IsFiniteSet(WorldKeys) /\ c \in WorldKeys
          /\ f[c] = x /\ g[c] = y /\ \A k \in WorldKeys \ {c} : f[k] = g[k]
      BY <2>4, <3>2, <3>3
    <3> HIDE DEF f, g, x, y
    <3>5. Total(g, WorldKeys) = Total(f, WorldKeys) - x + y
      BY <3>4, TotalChange
    <3>6. QED
      BY <3>5 DEF f, g
  <2> DEFINE a == A + D(J)
             b == B(J)
  <2>8. a \in Int /\ b \in Int /\ A + D(K) = a + d /\ B(K) = (b - x) + y /\ Same(a, b)
    BY <1>3, <2>2, <2>3, <2>5, <2>6, <2>7
  <2> HIDE DEF a, b, d, x, y, A, B, D
  <2>9. Same(d, y - x)
    <3>1. PICK z \in Int : x + d = y + Modulus * z
      BY <2>5 DEF Same
    <3>2. Modulus * z \in Int
      BY DEF RoundAssumption
    <3>3. d = (y - x) + Modulus * z
      BY <2>5, <3>1, <3>2
    <3>4. QED
      BY <3>3 DEF Same
  <2>10. y - x \in Int
    BY <2>5
  <2>11. Same(a + d, b + (y - x))
    BY <2>5, <2>8, <2>9, <2>10, SameSum
  <2>12. b + (y - x) = (b - x) + y
    BY <2>5, <2>8
  <2>13. QED
    BY <1>2, <2>8, <2>11, <2>12
<1>6. QED
  BY <1>4, <1>5

----------------------------------------------------------------------------
(* A round of batches: worlds                                              *)

PinnedRuns == [records : UNION {[ks -> KeyValues] : ks \in SUBSET WorldKeys}, contribution : 0..(Modulus - 1)]
Contributions(entries) == [i \in DOMAIN entries |-> entries[i].contribution]

\* The world shows this table, and counts and signs it.
IsWorld(w, t) ==
  /\ w = [owner |-> [entries |-> w.owner.entries, signature |-> Signature(t)],
          live_size |-> Cardinality(LiveKeys(t))]
  /\ w.owner.entries \in Seq(PinnedRuns)
  /\ RingSum(Contributions(w.owner.entries)) = Signature(t)
  /\ resolved(w) = t

\* What the runs answer for a key.
Answer(e, k) ==
  LET hits == {i \in DOMAIN e : k \in DOMAIN e[i].records}
  IN  IF hits = {} THEN Absent ELSE e[Max(hits)].records[k]

LEMMA GetIsAnswer == \A w, k : get(w, k) = Answer(w.owner.entries, k)
  BY DEF get, Answer

\* A run that is added answers for its keys, and the others as before.
LEMMA AnswerAppended ==
  ASSUME NEW e \in Seq(PinnedRuns), NEW item \in PinnedRuns, NEW k
  PROVE  Answer(Append(e, item), k) = IF k \in DOMAIN item.records THEN item.records[k] ELSE Answer(e, k)
<1> DEFINE f == Append(e, item)
           n == Len(e)
           H == {i \in DOMAIN e : k \in DOMAIN e[i].records}
           G == {i \in DOMAIN f : k \in DOMAIN f[i].records}
<1>1. /\ n \in Nat /\ DOMAIN e = 1..n /\ DOMAIN f = 1..(n + 1) /\ f[n + 1] = item
      /\ \A i \in 1..n : f[i] = e[i]
  OBVIOUS
<1>2. /\ Answer(e, k) = IF H = {} THEN Absent ELSE e[Max(H)].records[k]
      /\ Answer(f, k) = IF G = {} THEN Absent ELSE f[Max(G)].records[k]
  BY DEF Answer
<1>3. /\ \A i : i \in H <=> i \in 1..n /\ k \in DOMAIN e[i].records
      /\ \A i : i \in G <=> i \in 1..(n + 1) /\ k \in DOMAIN f[i].records
  BY <1>1
<1> HIDE DEF f, n, H, G
<1>4. ASSUME k \in DOMAIN item.records PROVE Answer(f, k) = item.records[k]
  <2>1. n + 1 \in G /\ \A i \in G : i \in 1..(n + 1)
    BY <1>1, <1>3, <1>4
  <2>2. \A i \in G : n + 1 >= i
    BY <1>1, <2>1
  <2>3. Max(G) \in G /\ \A i \in G : Max(G) >= i
    BY <2>1, <2>2 DEF Max
  <2>4. Max(G) = n + 1
    BY <1>1, <2>1, <2>2, <2>3
  <2>5. QED
    BY <1>1, <1>2, <1>4, <2>1, <2>4
<1>5. ASSUME k \notin DOMAIN item.records PROVE Answer(f, k) = Answer(e, k)
  <2>1. G = H
    <3>1. \A i \in 1..(n + 1) : i = n + 1 \/ i \in 1..n
      BY <1>1
    <3>2. \A i \in 1..n : i \in 1..(n + 1)
      BY <1>1
    <3>3. \A i : i \in G <=> i \in H
      BY <1>1, <1>3, <1>5, <3>1, <3>2
    <3>4. QED
      BY <3>3
  <2>2. CASE H = {}
    BY <1>2, <1>5, <2>1, <2>2
  <2>3. CASE H # {}
    <3>1. H \subseteq 1..n
      BY <1>3
    <3>2. PICK i \in H : \A h \in H : h <= i
      BY <1>1, <2>3, <3>1, LastPlace
    <3>3. \A h \in H : i >= h
      BY <1>1, <3>1, <3>2
    <3>4. Max(H) \in H
      BY <3>2, <3>3 DEF Max
    <3>5. f[Max(H)] = e[Max(H)]
      BY <1>1, <3>1, <3>4
    <3>6. QED
      BY <1>2, <1>5, <2>1, <2>3, <3>5
  <2>4. QED
    BY <2>2, <2>3
<1>6. QED
  BY <1>4, <1>5 DEF f

\* And its contribution is added to the sum of the entries.
LEMMA ContributionAppended ==
  ASSUME RoundAssumption, NEW e \in Seq(PinnedRuns), NEW item \in PinnedRuns
  PROVE  /\ Append(e, item) \in Seq(PinnedRuns)
         /\ RingSum(Contributions(Append(e, item))) = (RingSum(Contributions(e)) + item.contribution) % Modulus
<1> DEFINE n == Len(e)
           f == Append(e, item)
           C == Contributions(e)
           D == Contributions(f)
           c == item.contribution
<1>1. /\ n \in Nat /\ DOMAIN e = 1..n /\ DOMAIN f = 1..(n + 1) /\ f[n + 1] = item
      /\ \A i \in 1..n : f[i] = e[i] /\ e[i] \in PinnedRuns
      /\ f \in Seq(PinnedRuns)
  OBVIOUS
<1>2. Modulus \in Nat \ {0} /\ \A x \in PinnedRuns : x.contribution \in Nat
  BY DEF PinnedRuns, RoundAssumption
<1> HIDE DEF n, f
<1>3. /\ D \in [1..(n + 1) -> Nat] /\ D[n + 1] = c /\ \A i \in 1..n : D[i] = C[i]
      /\ DOMAIN C = 1..n /\ C \in [1..n -> Nat] /\ c \in Nat
  <2>1. \A i \in 1..(n + 1) : f[i] \in PinnedRuns
    BY <1>1
  <2>2. \A i \in 1..n : i \in 1..(n + 1)
    BY <1>1
  <2>3. n + 1 \in 1..(n + 1)
    BY <1>1
  <2>4. QED
    BY <1>1, <1>2, <2>1, <2>2, <2>3 DEF Contributions
<1> HIDE DEF C, D, c
<1>4. IsFiniteSet(1..n) /\ IsFiniteSet(1..(n + 1))
  BY <1>1, FS_Interval
<1>5. RingSum(C) = Total(C, 1..n) % Modulus /\ RingSum(D) = Total(D, 1..(n + 1)) % Modulus
  <2>1. DOMAIN D = 1..(n + 1)
    BY <1>3
  <2>2. QED
    BY <1>3, <1>4, <2>1, RingSumIs
<1>6. 1..(n + 1) = (1..n) \cup {n + 1} /\ n + 1 \in 1..(n + 1) \ 1..n /\ 1..n \in SUBSET (1..(n + 1))
  BY <1>1
<1>7. Total(D, 1..(n + 1)) = c + Total(D, 1..n)
  <2> DEFINE R == 1..(n + 1)
             S == 1..n
             x == n + 1
  <2>1. D \in [R -> Nat] /\ S \in SUBSET R /\ IsFiniteSet(S) /\ x \in R \ S
    BY <1>3, <1>4, <1>6
  <2> HIDE DEF R, S, x
  <2>2. Total(D, S \cup {x}) = D[x] + Total(D, S)
    BY <2>1, TotalAdd
  <2>3. QED
    BY <1>3, <1>6, <2>2 DEF S, x
<1>8. Total(D, 1..n) = Total(C, 1..n)
  BY ZenonT(30), <1>3, TotalSame
<1>9. Total(C, 1..n) \in Nat
  BY <1>3, <1>4, TotalType
<1> DEFINE T == Total(C, 1..n)
<1>10. RingSum(D) = (T + c) % Modulus
  BY <1>3, <1>5, <1>7, <1>8, <1>9
<1>11. (T + c) % Modulus = ((T % Modulus) + c) % Modulus
  <2> DEFINE q == T % Modulus
  <2>1. T \in Int /\ c \in Int /\ q \in Int /\ Same(T, q)
    BY <1>3, <1>9, SameRemainder
  <2>2. Same(c, c)
    <3>1. c = c + Modulus * 0
      BY <1>2, <2>1
    <3>2. QED
      BY <3>1 DEF Same
  <2> HIDE DEF T, q
  <2>3. Same(T + c, q + c) /\ T + c \in Int /\ q + c \in Int
    BY <2>1, <2>2, SameSum
  <2>4. (T + c) % Modulus = (q + c) % Modulus
    BY <2>3, RemaindersAgree
  <2>5. QED
    BY <2>4 DEF q
<1>12. RingSum(D) = (RingSum(C) + c) % Modulus
  BY <1>5, <1>10, <1>11
<1>13. QED
  BY <1>1, <1>12 DEF f, C, D, c

\* Without entries nothing is found, and the sum is nothing.
LEMMA WithoutEntries ==
  ASSUME RoundAssumption, NEW w, w.owner.entries = <<>>
  PROVE  (\A k : get(w, k) = Absent) /\ RingSum(Contributions(<<>>)) = 0
<1>1. \A k : get(w, k) = Absent
  BY DEF get
<1>2. DOMAIN Contributions(<<>>) = {}
  BY DEF Contributions
<1>3. RingSum(Contributions(<<>>)) = 0 % Modulus
  BY <1>2, FS_EmptySet, RingSumIs, TotalEmpty
<1>4. 0 % Modulus = 0
  BY DEF RoundAssumption
<1>5. QED
  BY <1>1, <1>3, <1>4

\* A world that is built from a table is a world of that table.
LEMMA FromRecordsDescribes ==
  ASSUME RoundAssumption, NEW t \in WorldTables
  PROVE  IsWorld(from_records(t), t)
<1> DEFINE live == LiveKeys(t)
           sum == RingSum([k \in live |-> Binding(k, t[k])])
           item == Pin([k \in live |-> t[k]], sum)
           w == from_records(t)
           none == [owner |-> NoPins]
<1>1. sum = Signature(t) /\ Signature(t) \in 0..(Modulus - 1) /\ Modulus \in Nat \ {0}
  BY LiveSum, BindingsType DEF RoundAssumption
<1>2. \A k \in WorldKeys : (k \in live <=> t[k] # Absent) /\ t[k] \in KeyValues
  BY DEF LiveKeys, WorldTables
<1>3. live \subseteq WorldKeys
  BY DEF LiveKeys
<1>4. t = [k \in WorldKeys |-> t[k]]
  BY DEF WorldTables
<1>5. CASE live = {}
  <2>1. w = [owner |-> [entries |-> <<>>, signature |-> 0], live_size |-> Cardinality(live)]
    BY <1>5 DEF from_records, NoPins
  <2>2. Signature(t) = 0
    BY <1>5, LiveSum
  <2> HIDE DEF w
  <2> DEFINE own == [entries |-> <<>>, signature |-> 0]
             size == Cardinality(live)
  <2>3. w.owner.entries = <<>> /\ w.owner.entries \in Seq(PinnedRuns)
    <3>1. own.entries = <<>>
      OBVIOUS
    <3>2. w = [owner |-> own, live_size |-> size]
      BY <2>1
    <3> HIDE DEF own, size
    <3>3. w.owner = own
      BY <3>2
    <3>4. <<>> \in Seq(PinnedRuns)
      OBVIOUS
    <3>5. QED
      BY <3>1, <3>3, <3>4
  <2>4. resolved(w) = t
    <3>1. \A k \in WorldKeys : get(w, k) = t[k]
      BY <1>2, <1>5, <2>3, WithoutEntries
    <3>2. QED
      BY <1>4, <3>1 DEF resolved
  <2>5. RingSum(Contributions(w.owner.entries)) = Signature(t)
    BY <2>2, <2>3, WithoutEntries
  <2>6. QED
    BY <2>1, <2>2, <2>3, <2>4, <2>5 DEF IsWorld, w
<1>6. CASE live # {}
  <2>1. w = [owner |-> [entries |-> Append(<<>>, item), signature |-> (0 + item.contribution) % Modulus], live_size |-> Cardinality(live)]
    BY <1>6 DEF from_records, add, NoPins
  <2>2. item \in PinnedRuns /\ item.contribution = Signature(t) /\ DOMAIN item.records = live
        /\ \A k \in live : item.records[k] = t[k]
    <3>1. [k \in live |-> t[k]] \in [live -> KeyValues]
      BY <1>2, <1>3
    <3>2. QED
      BY <1>1, <1>3, <3>1 DEF Pin, PinnedRuns
  <2> HIDE DEF item, sum, w
  <2>3. (0 + Signature(t)) % Modulus = Signature(t)
    BY <1>1
  <2>4. none.owner.entries = <<>> /\ <<>> \in Seq(PinnedRuns)
    BY DEF NoPins
  <2>5. w.owner.entries = Append(none.owner.entries, item) /\ none.owner.entries \in Seq(PinnedRuns)
    BY <2>1, <2>4
  <2> HIDE DEF none
  <2>6. resolved(w) = t
    <3>1. ASSUME NEW k \in WorldKeys PROVE get(w, k) = t[k]
      <4>1. /\ <<>> \in Seq(PinnedRuns) /\ item \in PinnedRuns
            /\ get(w, k) = Answer(Append(<<>>, item), k)
        BY <2>2, <2>4, <2>5, GetIsAnswer
      <4>2. get(w, k) = IF k \in DOMAIN item.records THEN item.records[k] ELSE Answer(<<>>, k)
        BY <4>1, AnswerAppended
      <4>3. Answer(<<>>, k) = Absent
        BY <2>4, WithoutEntries, GetIsAnswer
      <4>4. QED
        BY <1>2, <2>2, <4>2, <4>3
    <3>2. QED
      BY <1>4, <3>1 DEF resolved
  <2>7. RingSum(Contributions(w.owner.entries)) = Signature(t) /\ w.owner.entries \in Seq(PinnedRuns)
    <3>1. RingSum(Contributions(<<>>)) = 0
      BY <2>4, WithoutEntries
    <3>2. /\ RingSum(Contributions(Append(<<>>, item))) = (RingSum(Contributions(<<>>)) + item.contribution) % Modulus
          /\ Append(<<>>, item) \in Seq(PinnedRuns)
      BY <2>2, <2>4, ContributionAppended
    <3>3. w.owner.entries = Append(<<>>, item)
      BY <2>1
    <3>4. QED
      BY <2>2, <2>3, <3>1, <3>2, <3>3
  <2>8. w = [owner |-> [entries |-> w.owner.entries, signature |-> Signature(t)], live_size |-> Cardinality(live)]
    BY <2>1, <2>2, <2>3
  <2>9. QED
    BY <2>6, <2>7, <2>8 DEF IsWorld, w
<1>7. QED
  BY <1>5, <1>6

\* The keys that live after some edits: those born are added, those gone removed.
LEMMA LiveAfterEdits ==
  ASSUME RoundAssumption, NEW t \in WorldTables, NEW edits, AreEdits(t, edits)
  PROVE  Cardinality(LiveKeys(Edited(t, edits, DOMAIN edits)))
           = Cardinality(LiveKeys(t))
             + Cardinality({k \in DOMAIN edits : edits[k].before = Absent /\ edits[k].after # Absent})
             - Cardinality({k \in DOMAIN edits : edits[k].before # Absent /\ edits[k].after = Absent})
<1> DEFINE L == LiveKeys(t)
           B == {k \in DOMAIN edits : edits[k].before = Absent /\ edits[k].after # Absent}
           G == {k \in DOMAIN edits : edits[k].before # Absent /\ edits[k].after = Absent}
           N == LiveKeys(Edited(t, edits, DOMAIN edits))
<1>1. /\ L \subseteq WorldKeys /\ B \subseteq WorldKeys /\ G \subseteq WorldKeys
      /\ \A k \in WorldKeys : /\ k \in L <=> t[k] # Absent
                              /\ k \in N <=> (IF k \in DOMAIN edits THEN edits[k].after ELSE t[k]) # Absent
      /\ N \subseteq WorldKeys
  BY DEF LiveKeys, Edited, AreEdits
<1>2. \A k \in DOMAIN edits : edits[k].before = t[k]
  BY DEF AreEdits
<1>3. B \cap L = {} /\ G \cap (L \cup B) = G /\ N = (L \cup B) \ G
  BY <1>1, <1>2
<1>4. IsFiniteSet(L) /\ IsFiniteSet(B) /\ IsFiniteSet(G)
  BY <1>1, FS_Subset DEF RoundAssumption
<1> HIDE DEF L, B, G, N
<1>5. Cardinality(L) \in Nat /\ Cardinality(B) \in Nat /\ Cardinality(G) \in Nat
  BY <1>4, FS_CardinalityType
<1>6. IsFiniteSet(L \cup B) /\ Cardinality(L \cup B) = Cardinality(L) + Cardinality(B)
  <2>1. L \cap B = {}
    BY <1>3
  <2>2. Cardinality(L \cap B) = 0
    BY <2>1, FS_EmptySet
  <2>3. IsFiniteSet(L \cup B) /\ Cardinality(L \cup B) = Cardinality(L) + Cardinality(B) - Cardinality(L \cap B)
    BY <1>4, FS_Union
  <2>4. QED
    BY <1>5, <2>2, <2>3
<1>7. Cardinality(N) = Cardinality(L \cup B) - Cardinality(G)
  <2>1. (L \cup B) \cap G = G
    BY <1>3
  <2>2. Cardinality((L \cup B) \ G) = Cardinality(L \cup B) - Cardinality((L \cup B) \cap G)
    BY <1>6, FS_Difference
  <2>3. QED
    BY <1>3, <2>1, <2>2
<1>8. QED
  BY <1>5, <1>6, <1>7 DEF L, B, G, N

\* A world after some edits is a world of the table after them.
LEMMA AppendDescribes ==
  ASSUME RoundAssumption, NEW t \in WorldTables, NEW w, IsWorld(w, t), NEW edits, AreEdits(t, edits)
  PROVE  IsWorld(append(w, edits), Edited(t, edits, DOMAIN edits))
<1> DEFINE keys == DOMAIN edits
           n == Edited(t, edits, keys)
           v == append(w, edits)
           sum == RingSum([k \in keys |-> Delta(k, edits[k].before, edits[k].after)])
           item == Pin([k \in keys |-> edits[k].after], sum)
           size == Cardinality(LiveKeys(n))
           e == w.owner.entries
<1>1. n \in WorldTables /\ IsFiniteSet(keys) /\ Deltas(edits) \in [keys -> Nat]
  BY EditedType
<1>2. Signature(t) \in 0..(Modulus - 1) /\ Signature(n) \in 0..(Modulus - 1) /\ Modulus \in Nat \ {0}
  BY <1>1, BindingsType DEF RoundAssumption
<1>3. /\ e \in Seq(PinnedRuns) /\ RingSum(Contributions(e)) = Signature(t)
      /\ w.owner = [entries |-> e, signature |-> Signature(t)]
      /\ w.live_size = Cardinality(LiveKeys(t)) /\ \A k \in WorldKeys : get(w, k) = t[k]
  <2> DEFINE own == [entries |-> e, signature |-> Signature(t)]
             live == Cardinality(LiveKeys(t))
  <2>1. w = [owner |-> own, live_size |-> live] /\ e \in Seq(PinnedRuns) /\ RingSum(Contributions(e)) = Signature(t)
        /\ resolved(w) = t
    BY DEF IsWorld
  <2> HIDE DEF own, live, e
  <2>2. w.owner = own /\ w.live_size = live
    BY <2>1
  <2>3. \A k \in WorldKeys : get(w, k) = t[k]
    BY <2>1 DEF resolved
  <2>4. QED
    BY <2>1, <2>2, <2>3 DEF own, live
<1>4. v.live_size = size
  <2>1. v.live_size = w.live_size
             + Cardinality({k \in keys : edits[k].before = Absent /\ edits[k].after # Absent})
             - Cardinality({k \in keys : edits[k].before # Absent /\ edits[k].after = Absent})
    BY DEF append
  <2>2. QED
    BY <1>3, <2>1, LiveAfterEdits
<1>5. v = [owner |-> v.owner, live_size |-> v.live_size]
  BY DEF append
<1>6. /\ sum \in 0..(Modulus - 1)
      /\ (Signature(t) + sum) % Modulus = Signature(n)
  <2> DEFINE A == Total(Bindings(t), WorldKeys)
             D == Total(Deltas(edits), keys)
             B == Total(Bindings(n), WorldKeys)
  <2>1. A \in Nat /\ B \in Nat /\ D \in Nat
    BY <1>1, BindingsType, TotalType
  <2>2. Same(A + D, B)
    BY EditsMove
  <2>3. sum = D % Modulus
    BY <1>1, RingSumIs DEF Deltas
  <2>4. Signature(t) = A % Modulus /\ Signature(n) = B % Modulus
    BY DEF Signature
  <2> DEFINE a == A % Modulus
             d == D % Modulus
  <2>5. Same(a, A) /\ Same(d, D) /\ a \in Int /\ d \in 0..(Modulus - 1) /\ d \in Int
    BY <1>2, <2>1, SameRemainder
  <2> HIDE DEF A, B, D, a, d
  <2>6. Same(a + d, A + D)
    BY <2>1, <2>5, SameSum
  <2>7. Same(a + d, B) /\ a + d \in Int
    BY <2>1, <2>2, <2>5, <2>6, SameThrough
  <2>8. (a + d) % Modulus = B % Modulus
    BY <2>1, <2>7, RemaindersAgree
  <2>9. QED
    BY <2>3, <2>4, <2>5, <2>8 DEF a, d
<1>7. \A k \in WorldKeys : n[k] = IF k \in keys THEN edits[k].after ELSE t[k]
  BY DEF Edited
<1>8. n = [k \in WorldKeys |-> n[k]] /\ t = [k \in WorldKeys |-> t[k]]
  BY <1>1 DEF WorldTables
<1>9. CASE keys = {}
  <2>1. n = t
    BY <1>7, <1>8, <1>9
  <2>2. v.owner = w.owner
    BY <1>9 DEF append
  <2>3. resolved(v) = resolved(w)
    BY <2>2 DEF resolved, get
  <2>4. v = [owner |-> [entries |-> v.owner.entries, signature |-> Signature(n)], live_size |-> size]
    BY <1>3, <1>4, <1>5, <2>1, <2>2
  <2> HIDE DEF v, n, size
  <2>5. QED
    BY <1>3, <2>1, <2>2, <2>3, <2>4 DEF IsWorld, size, n, v
<1>10. CASE keys # {}
  <2>1. v.owner = [entries |-> Append(e, item), signature |-> (w.owner.signature + item.contribution) % Modulus]
    BY <1>10 DEF append, add
  <2>2. w.owner.signature = Signature(t)
    BY <1>3
  <2>3. item \in PinnedRuns /\ item.contribution = sum /\ DOMAIN item.records = keys
        /\ \A k \in keys : item.records[k] = edits[k].after
    <3>1. [k \in keys |-> edits[k].after] \in [keys -> KeyValues] /\ keys \subseteq WorldKeys
      BY DEF AreEdits
    <3>2. QED
      BY <1>6, <3>1 DEF Pin, PinnedRuns
  <2> DEFINE own == [entries |-> Append(e, item), signature |-> Signature(n)]
  <2>4. v.owner = own
    BY <1>6, <2>1, <2>2, <2>3
  <2> HIDE DEF item, sum, v
  <2>5. v.owner.entries = Append(e, item)
    BY <2>4
  <2>6. v.owner = [entries |-> v.owner.entries, signature |-> Signature(n)]
    BY <2>4, <2>5
  <2>7. v = [owner |-> [entries |-> v.owner.entries, signature |-> Signature(n)], live_size |-> size]
    BY <1>4, <1>5, <2>6
  <2>8. v.owner.entries \in Seq(PinnedRuns) /\ RingSum(Contributions(v.owner.entries)) = Signature(n)
    BY <1>3, <1>6, <2>3, <2>5, ContributionAppended
  <2>9. resolved(v) = n
    <3>1. ASSUME NEW k \in WorldKeys PROVE get(v, k) = n[k]
      <4>1. /\ e \in Seq(PinnedRuns) /\ item \in PinnedRuns
            /\ get(v, k) = Answer(Append(e, item), k) /\ get(w, k) = Answer(e, k)
        BY <1>3, <2>3, <2>5, GetIsAnswer
      <4> HIDE DEF e
      <4>2. get(v, k) = IF k \in DOMAIN item.records THEN item.records[k] ELSE get(w, k)
        BY <4>1, AnswerAppended
      <4>3. QED
        BY <1>3, <1>7, <2>3, <4>2
    <3>2. QED
      BY <1>8, <3>1 DEF resolved
  <2>10. QED
    BY <2>7, <2>8, <2>9 DEF IsWorld, v
<1>11. QED
  BY <1>9, <1>10

\* Compaction leaves the world that its table would be loaded as.
LEMMA CompactIsFresh ==
  ASSUME RoundAssumption, NEW t \in WorldTables, NEW w, IsWorld(w, t)
  PROVE  compact(w) = {from_records(t)}
<1> DEFINE s == Signature(t)
           f == from_records(t)
           live == Cardinality(LiveKeys(t))
           items == f.owner.entries
           e == w.owner.entries
           sum == RingSum(Contributions(items))
           removed == RingSum(Contributions(e))
<1>1. IsWorld(f, t) /\ s \in 0..(Modulus - 1) /\ Modulus \in Nat \ {0}
  BY FromRecordsDescribes, BindingsType DEF RoundAssumption
<1>2. /\ f = [owner |-> [entries |-> items, signature |-> s], live_size |-> live]
      /\ w = [owner |-> [entries |-> e, signature |-> s], live_size |-> live]
      /\ sum = s /\ removed = s /\ resolved(w) = t
  BY <1>1 DEF IsWorld
<1>3. compact(w) = {[owner |-> o, live_size |-> w.live_size] : o \in replaced(w.owner, items)}
  BY <1>2 DEF compact
<1>4. replaced(w.owner, items)
        = IF sum # removed THEN {} ELSE {[entries |-> items, signature |-> (w.owner.signature - removed + sum) % Modulus]}
  BY DEF replaced, Contributions
<1> HIDE DEF s, f, live, items, e, sum, removed
<1>5. w.owner.signature = s /\ w.live_size = live
  BY <1>2
<1>6. (w.owner.signature - removed + sum) % Modulus = s
  <2>1. s - s + s = s /\ s % Modulus = s
    BY <1>1
  <2>2. QED
    BY <1>2, <1>5, <2>1
<1>7. replaced(w.owner, items) = {[entries |-> items, signature |-> s]}
  BY <1>2, <1>4, <1>6
<1>8. compact(w) = {f}
  BY <1>2, <1>3, <1>5, <1>7
<1>9. QED
  BY <1>8 DEF f

\* What the property asks of a world.
LEMMA WorldDescribes ==
  ASSUME RoundAssumption, NEW t \in WorldTables, NEW w, IsWorld(w, t)
  PROVE  Describes(w, t)
<1> DEFINE s == Signature(t)
           live == Cardinality(LiveKeys(t))
           f == from_records(t)
<1>1. IsWorld(f, t)
  BY FromRecordsDescribes
<1>2. /\ f = [owner |-> [entries |-> f.owner.entries, signature |-> s], live_size |-> live]
      /\ w = [owner |-> [entries |-> w.owner.entries, signature |-> s], live_size |-> live]
      /\ resolved(w) = t
  BY <1>1 DEF IsWorld
<1> HIDE DEF s, live, f
<1>3. f.owner.signature = s /\ w.owner.signature = s /\ w.live_size = live
  BY <1>2
<1>4. QED
  BY <1>2, <1>3 DEF Describes, s, live, f

----------------------------------------------------------------------------
(* A round of batches: the invariant                                       *)

\* Batches that were accepted edit the base, no two of them the same key.
AreApart(S) ==
  /\ \A b \in S : AreEdits(Base, b.edits)
  /\ \A b \in S, c \in S : b # c => DOMAIN b.edits \cap DOMAIN c.edits = {}

\* The keys they claim, and the base with their edits.
ClaimedBy(S) == UNION {DOMAIN b.edits : b \in S}
AfterAll(S) ==
  [k \in WorldKeys |->
     IF k \in ClaimedBy(S) THEN (CHOOSE b \in S : k \in DOMAIN b.edits).edits[k].after ELSE Base[k]]

PeerIsExact(p) ==
  /\ AreApart(taken[p])
  /\ IsWorld(current[p], AfterAll(taken[p]))

ReaderIsExact(p) ==
  /\ held[p].table \in WorldTables
  /\ IsWorld(held[p].world, held[p].table)

RoundIInv ==
  /\ current = [p \in Peers |-> current[p]]
  /\ taken = [p \in Peers |-> taken[p]]
  /\ held = [p \in Peers |-> [world |-> held[p].world, table |-> held[p].table]]
  /\ \A p \in Peers : PeerIsExact(p) /\ ReaderIsExact(p)

\* What is expected of a peer depends on what it accepted alone.
LEMMA ExpectedOf ==
  ASSUME NEW p
  PROVE  claimed(p) = ClaimedBy(taken[p]) /\ Expected(p) = AfterAll(taken[p])
<1>1. claimed(p) = ClaimedBy(taken[p])
  BY DEF claimed, ClaimedBy
<1>2. QED
  BY <1>1 DEF Expected, AfterAll

\* A key that is claimed has one batch, and the table that batch's edit.
LEMMA AfterAllIs ==
  ASSUME RoundAssumption, NEW S, AreApart(S)
  PROVE  /\ AfterAll(S) \in WorldTables
         /\ \A k \in WorldKeys : k \notin ClaimedBy(S) => AfterAll(S)[k] = Base[k]
         /\ \A b \in S : \A k \in DOMAIN b.edits :
              k \in WorldKeys /\ k \in ClaimedBy(S) /\ AfterAll(S)[k] = b.edits[k].after
<1> DEFINE Of(k) == CHOOSE b \in S : k \in DOMAIN b.edits
           E == AfterAll(S)
<1>1. \A k : k \in ClaimedBy(S) <=> \E b \in S : k \in DOMAIN b.edits
  BY DEF ClaimedBy
<1>2. /\ E = [k \in WorldKeys |-> E[k]]
      /\ \A k \in WorldKeys : E[k] = IF k \in ClaimedBy(S) THEN Of(k).edits[k].after ELSE Base[k]
  BY DEF AfterAll
<1>3. \A k \in ClaimedBy(S) : Of(k) \in S /\ k \in DOMAIN Of(k).edits
  BY <1>1
<1>4. ASSUME NEW b \in S, NEW k \in DOMAIN b.edits
      PROVE  k \in WorldKeys /\ k \in ClaimedBy(S) /\ Of(k) = b /\ b.edits[k].after \in KeyValues
  <2>1. k \in ClaimedBy(S)
    BY <1>1
  <2>2. Of(k) \in S /\ k \in DOMAIN Of(k).edits
    BY <1>3, <2>1
  <2> HIDE DEF Of
  <2>3. Of(k) = b
    BY <2>2 DEF AreApart
  <2>4. k \in WorldKeys /\ b.edits[k].after \in KeyValues
    BY DEF AreApart, AreEdits
  <2>5. QED
    BY <2>1, <2>3, <2>4
<1> HIDE DEF Of, E
<1>5. ASSUME NEW k \in WorldKeys PROVE E[k] \in KeyValues
  <2>1. CASE k \in ClaimedBy(S)
    BY <1>2, <1>3, <1>4, <2>1
  <2>2. CASE k \notin ClaimedBy(S)
    BY <1>2, <2>2 DEF RoundAssumption
  <2>3. QED
    BY <2>1, <2>2
<1>6. E \in WorldTables
  BY <1>2, <1>5 DEF WorldTables
<1>7. ASSUME NEW b \in S, NEW k \in DOMAIN b.edits
      PROVE  k \in WorldKeys /\ k \in ClaimedBy(S) /\ E[k] = b.edits[k].after
  <2>1. k \in WorldKeys /\ k \in ClaimedBy(S) /\ Of(k) = b
    BY <1>4
  <2>2. E[k] = Of(k).edits[k].after
    BY <1>2, <2>1
  <2>3. QED
    BY <2>1, <2>2
<1>8. \A k \in WorldKeys : k \notin ClaimedBy(S) => E[k] = Base[k]
  BY <1>2
<1>9. QED
  BY <1>6, <1>7, <1>8 DEF E

\* One more batch, of keys that nobody had claimed, is edited in.
LEMMA OneMore ==
  ASSUME RoundAssumption, NEW S, AreApart(S), NEW b, DOMAIN b.edits \subseteq WorldKeys,
         \A k \in DOMAIN b.edits :
           k \notin ClaimedBy(S) /\ b.edits[k].before = Base[k] /\ b.edits[k].after \in KeyValues
  PROVE  /\ AreApart(S \cup {b}) /\ AreEdits(AfterAll(S), b.edits)
         /\ AfterAll(S \cup {b}) = Edited(AfterAll(S), b.edits, DOMAIN b.edits)
<1> DEFINE T == S \cup {b}
           keys == DOMAIN b.edits
           t == AfterAll(S)
           u == AfterAll(T)
           n == Edited(t, b.edits, keys)
<1>1. \A U : \A k : k \in ClaimedBy(U) <=> \E c \in U : k \in DOMAIN c.edits
  BY DEF ClaimedBy
<1>2. \A c \in S : DOMAIN c.edits \cap keys = {}
  BY <1>1
<1>3. AreApart(T)
  <2>1. \A c \in T : AreEdits(Base, c.edits)
    BY DEF AreApart, AreEdits
  <2>2. \A c \in T, d \in T : c # d => DOMAIN c.edits \cap DOMAIN d.edits = {}
    BY <1>2 DEF AreApart
  <2>3. QED
    BY <2>1, <2>2 DEF AreApart
<1>4. /\ t \in WorldTables /\ \A k \in WorldKeys : k \notin ClaimedBy(S) => t[k] = Base[k]
      /\ \A c \in S : \A k \in DOMAIN c.edits : t[k] = c.edits[k].after
  BY AfterAllIs
<1>5. /\ u \in WorldTables /\ \A k \in WorldKeys : k \notin ClaimedBy(T) => u[k] = Base[k]
      /\ \A c \in T : \A k \in DOMAIN c.edits : u[k] = c.edits[k].after
  <2> HIDE DEF T
  <2>1. QED
    BY <1>3, AfterAllIs
<1>6. AreEdits(t, b.edits)
  BY <1>4 DEF AreEdits
<1>7. n \in WorldTables /\ \A k \in WorldKeys : n[k] = IF k \in keys THEN b.edits[k].after ELSE t[k]
  BY <1>4, <1>6, EditedType DEF Edited
<1>8. ASSUME NEW k \in WorldKeys PROVE u[k] = n[k]
  <2> HIDE DEF u, n, t
  <2>1. CASE k \in keys
    BY <1>5, <1>7, <2>1
  <2>2. CASE k \notin keys /\ k \in ClaimedBy(S)
    <3>1. PICK c \in S : k \in DOMAIN c.edits
      BY <1>1, <2>2
    <3>2. QED
      BY <1>4, <1>5, <1>7, <2>2, <3>1
  <2>3. CASE k \notin keys /\ k \notin ClaimedBy(S)
    <3>1. k \notin ClaimedBy(T)
      BY <1>1, <2>3
    <3>2. QED
      BY <1>4, <1>5, <1>7, <2>3, <3>1
  <2>4. QED
    BY <2>1, <2>2, <2>3
<1>9. u = n
  <2> HIDE DEF u, n, t
  <2>1. QED
    BY <1>5, <1>7, <1>8 DEF WorldTables
<1>10. QED
  BY <1>3, <1>6, <1>9

\* A batch is a set of edits of the keys.
LEMMA BatchEdits ==
  ASSUME RoundAssumption, NEW b \in Batches
  PROVE  /\ DOMAIN b.edits \subseteq WorldKeys
         /\ \A k \in DOMAIN b.edits : b.edits[k].after \in KeyValues
<1>1. PICK t \in {Base, OtherBase}, id \in BatchIds, o \in PartitionOwners, w \in Writes : b = make_batch(t, id, o, w)
  BY DEF Batches
<1>2. PICK ks \in SUBSET WorldKeys : w \in [ks -> KeyValues]
  BY DEF Writes
<1>3. b.edits = [k \in ks |-> [before |-> t[k], after |-> w[k]]]
  BY <1>1, <1>2 DEF make_batch
<1> DEFINE edit(k) == [before |-> t[k], after |-> w[k]]
<1>4. \A k \in ks : b.edits[k] = edit(k)
  BY <1>3
<1>5. \A k \in ks : edit(k).after = w[k]
  OBVIOUS
<1>6. DOMAIN b.edits = ks
  BY <1>3
<1> HIDE DEF edit
<1>7. QED
  BY <1>2, <1>4, <1>5, <1>6

\* Every peer starts from the base.
LEMMA RoundStarts ==
  ASSUME RoundAssumption, RoundInit
  PROVE  RoundIInv
<1> DEFINE w == from_records(Base)
<1>1. Base \in WorldTables
  BY DEF RoundAssumption, WorldTables
<1>2. IsWorld(w, Base)
  BY <1>1, FromRecordsDescribes
<1> HIDE DEF w
<1>3. /\ current = [p \in Peers |-> w] /\ taken = [p \in Peers |-> {}]
      /\ held = [p \in Peers |-> [world |-> w, table |-> Base]]
  BY DEF RoundInit, w
<1>4. /\ current = [p \in Peers |-> current[p]] /\ taken = [p \in Peers |-> taken[p]]
      /\ held = [p \in Peers |-> [world |-> held[p].world, table |-> held[p].table]]
  BY <1>3
<1>5. AreApart({})
  BY DEF AreApart
<1>6. AfterAll({}) = Base
  <2>1. ClaimedBy({}) = {}
    BY DEF ClaimedBy
  <2>2. AfterAll({}) \in WorldTables /\ \A k \in WorldKeys : AfterAll({})[k] = Base[k]
    BY <1>5, <2>1, AfterAllIs
  <2>3. QED
    BY <1>1, <2>2 DEF WorldTables
<1>7. ASSUME NEW p \in Peers PROVE PeerIsExact(p) /\ ReaderIsExact(p)
  <2>1. current[p] = w /\ taken[p] = {} /\ held[p].world = w /\ held[p].table = Base
    BY <1>3
  <2>2. QED
    BY <1>1, <1>2, <1>5, <1>6, <2>1 DEF PeerIsExact, ReaderIsExact
<1>8. QED
  BY <1>4, <1>7 DEF RoundIInv

\* A batch that is applied edits keys nobody had claimed, and the base's values.
LEMMA ApplyKeeps ==
  ASSUME RoundAssumption, RoundIInv, NEW p \in Peers, NEW b \in Batches, apply(p, b)
  PROVE  RoundIInv'
<1> DEFINE S == taken[p]
           edits == b.edits
           v == append(current[p], edits)
<1>1. AreApart(S) /\ IsWorld(current[p], AfterAll(S))
  BY DEF RoundIInv, PeerIsExact
<1>2. \A k \in DOMAIN edits : k \notin ClaimedBy(S) /\ edits[k].before = Base[k]
  <2>1. \A k \in DOMAIN edits : k \notin claimed(p) /\ edits[k].before = Base[k]
    BY DEF apply, Fits
  <2>2. QED
    BY <2>1, ExpectedOf
<1>3. DOMAIN edits \subseteq WorldKeys /\ \A k \in DOMAIN edits : edits[k].after \in KeyValues
  BY BatchEdits
<1>4. /\ AreApart(S \cup {b}) /\ AreEdits(AfterAll(S), edits)
      /\ AfterAll(S \cup {b}) = Edited(AfterAll(S), edits, DOMAIN edits)
  BY <1>1, <1>2, <1>3, OneMore
<1>5. IsWorld(v, AfterAll(S \cup {b}))
  <2>1. AfterAll(S) \in WorldTables
    BY <1>1, AfterAllIs
  <2>2. QED
    BY <1>1, <1>4, <2>1, AppendDescribes
<1>6. /\ current' = [current EXCEPT ![p] = v] /\ taken' = [taken EXCEPT ![p] = S \cup {b}]
      /\ held' = held
  BY DEF apply
<1> HIDE DEF v
<1>7. /\ current' = [q \in Peers |-> current'[q]] /\ current'[p] = v
      /\ \A q \in Peers \ {p} : current'[q] = current[q]
  BY <1>6 DEF RoundIInv
<1>8. /\ taken' = [q \in Peers |-> taken'[q]] /\ taken'[p] = S \cup {b}
      /\ \A q \in Peers \ {p} : taken'[q] = taken[q]
  BY <1>6 DEF RoundIInv
<1>9. ASSUME NEW q \in Peers PROVE PeerIsExact(q)'
  <2>1. CASE q = p
    BY <1>4, <1>5, <1>7, <1>8, <2>1 DEF PeerIsExact
  <2>2. CASE q # p
    <3>1. PeerIsExact(q) /\ current'[q] = current[q] /\ taken'[q] = taken[q]
      BY <1>7, <1>8, <2>2 DEF RoundIInv
    <3>2. QED
      BY <3>1 DEF PeerIsExact
  <2>3. QED
    BY <2>1, <2>2
<1>10. ASSUME NEW q \in Peers PROVE ReaderIsExact(q)'
  BY <1>6 DEF RoundIInv, ReaderIsExact
<1>11. held' = [q \in Peers |-> [world |-> held'[q].world, table |-> held'[q].table]]
  BY <1>6 DEF RoundIInv
<1>12. QED
  BY <1>7, <1>8, <1>9, <1>10, <1>11 DEF RoundIInv

\* A reader that changes what it holds for a world of its table holds one again.
LEMMA HoldKeeps ==
  ASSUME RoundIInv, NEW p \in Peers, NEW w, NEW t \in WorldTables, IsWorld(w, t),
         held' = [held EXCEPT ![p] = [world |-> w, table |-> t]], UNCHANGED <<current, taken>>
  PROVE  RoundIInv'
<1> DEFINE h == [world |-> w, table |-> t]
<1>1. h.world = w /\ h.table = t /\ h = [world |-> h.world, table |-> h.table]
  OBVIOUS
<1> HIDE DEF h
<1>2. held' = [held EXCEPT ![p] = h] /\ held = [q \in Peers |-> [world |-> held[q].world, table |-> held[q].table]]
  BY DEF RoundIInv, h
<1>3. DOMAIN held' = Peers /\ held' = [q \in Peers |-> held'[q]]
      /\ held'[p] = h /\ \A q \in Peers \ {p} : held'[q] = held[q]
  BY <1>2
<1>4. \A q \in Peers : held[q] = [world |-> held[q].world, table |-> held[q].table]
  BY <1>2
<1>5. \A q \in Peers : held'[q] = [world |-> held'[q].world, table |-> held'[q].table]
  BY <1>1, <1>3, <1>4
<1>6. held' = [q \in Peers |-> [world |-> held'[q].world, table |-> held'[q].table]]
  BY <1>3, <1>5
<1>7. ASSUME NEW q \in Peers PROVE ReaderIsExact(q)'
  <2>1. CASE q = p
    BY <1>1, <1>3, <2>1 DEF ReaderIsExact
  <2>2. CASE q # p
    BY <1>3, <2>2 DEF RoundIInv, ReaderIsExact
  <2>3. QED
    BY <2>1, <2>2
<1>8. ASSUME NEW q \in Peers PROVE PeerIsExact(q)'
  BY DEF RoundIInv, PeerIsExact
<1>9. QED
  BY <1>6, <1>7, <1>8 DEF RoundIInv

LEMMA TakeKeeps ==
  ASSUME RoundAssumption, RoundIInv, NEW p \in Peers, take_snapshot(p)
  PROVE  RoundIInv'
<1> DEFINE t == AfterAll(taken[p])
<1>1. AreApart(taken[p]) /\ IsWorld(current[p], t)
  BY DEF RoundIInv, PeerIsExact
<1>2. t \in WorldTables /\ resolved(current[p]) = t
  BY <1>1, AfterAllIs DEF IsWorld
<1>3. held' = [held EXCEPT ![p] = [world |-> current[p], table |-> t]] /\ UNCHANGED <<current, taken>>
  BY <1>2 DEF take_snapshot
<1> HIDE DEF t
<1>4. QED
  BY <1>1, <1>2, <1>3, HoldKeeps

LEMMA CompactKeeps ==
  ASSUME RoundAssumption, RoundIInv, NEW p \in Peers, compact_snapshot(p)
  PROVE  RoundIInv'
<1> DEFINE t == held[p].table
<1>1. t \in WorldTables /\ IsWorld(held[p].world, t)
  BY DEF RoundIInv, ReaderIsExact
<1>2. PICK w \in compact(held[p].world) : held' = [held EXCEPT ![p].world = w]
  BY DEF compact_snapshot
<1>3. w = from_records(t)
  BY <1>1, CompactIsFresh
<1>4. IsWorld(w, t)
  BY <1>1, <1>3, FromRecordsDescribes
<1>5. [held[p] EXCEPT !.world = w] = [world |-> w, table |-> t]
  <2>1. held[p] = [world |-> held[p].world, table |-> held[p].table]
    BY DEF RoundIInv
  <2>2. QED
    BY <2>1
<1>6. held' = [held EXCEPT ![p] = [world |-> w, table |-> t]] /\ UNCHANGED <<current, taken>>
  BY <1>2, <1>5 DEF compact_snapshot
<1> HIDE DEF t
<1>7. QED
  BY <1>1, <1>4, <1>6, HoldKeeps

\* The invariant gives the property.
LEMMA RoundIsExact ==
  ASSUME RoundAssumption, RoundIInv
  PROVE  RoundsConverge
<1> SUFFICES ASSUME NEW p \in Peers
             PROVE  /\ Describes(current[p], Expected(p)) /\ Describes(held[p].world, held[p].table)
                    /\ compact(held[p].world) # {}
  BY DEF RoundsConverge
<1>1. AreApart(taken[p]) /\ IsWorld(current[p], AfterAll(taken[p])) /\ AfterAll(taken[p]) \in WorldTables
  BY AfterAllIs DEF RoundIInv, PeerIsExact
<1>2. Describes(current[p], Expected(p))
  <2>1. Describes(current[p], AfterAll(taken[p]))
    BY <1>1, WorldDescribes
  <2>2. QED
    BY <2>1, ExpectedOf
<1>3. held[p].table \in WorldTables /\ IsWorld(held[p].world, held[p].table)
  BY DEF RoundIInv, ReaderIsExact
<1>4. Describes(held[p].world, held[p].table) /\ compact(held[p].world) # {}
  BY <1>3, WorldDescribes, CompactIsFresh
<1>5. QED
  BY <1>2, <1>4

(* However the batches of a round arrive, twice, in other orders or from a peer
   on another base, every peer's world is the base with each accepted batch done
   once, counted and signed like a fresh one, and readers keep their tables
   (apply, append, compact).  *)
THEOREM RoundsAgree == RoundSpec => []RoundsConverge
<1>1. RoundAssumption
  BY RoundAssumption
<1>2. RoundInit => RoundIInv
  BY <1>1, RoundStarts
<1>3. RoundIInv /\ [RoundNext]_roundVars => RoundIInv'
  <2> SUFFICES ASSUME RoundIInv, [RoundNext]_roundVars
               PROVE  RoundIInv'
    OBVIOUS
  <2>1. ASSUME NEW p \in Peers, take_snapshot(p) PROVE RoundIInv'
    BY <1>1, <2>1, TakeKeeps
  <2>2. ASSUME NEW p \in Peers, compact_snapshot(p) PROVE RoundIInv'
    BY <1>1, <2>2, CompactKeeps
  <2>3. ASSUME NEW p \in Peers, NEW b \in Batches, apply(p, b) PROVE RoundIInv'
    BY <1>1, <2>3, ApplyKeeps
  <2>4. CASE UNCHANGED roundVars
    BY <2>4 DEF roundVars, RoundIInv, PeerIsExact, ReaderIsExact
  <2>5. QED
    BY <2>1, <2>2, <2>3, <2>4 DEF RoundNext
<1>4. RoundIInv => RoundsConverge
  BY <1>1, RoundIsExact
<1>5. QED
  BY <1>2, <1>3, <1>4, PTL DEF RoundSpec
=============================================================================
