--------------------------- MODULE RedundantProofs ---------------------------
(***************************************************************************)
(* The redundant runtime's frontier, proved: after every step the levels   *)
(* below the root hold all the records admitted, each run in its place and *)
(* each slot in the state its level's merge has reached.  A level has one  *)
(* of six places, and the proof has a lemma for every step of the frontier *)
(* that says which places it changes.  That what is published stays whole  *)
(* follows, and that every reader's runs are exact.                        *)
(***************************************************************************)
EXTENDS RedundantRuntime, DataLemmas

-----------------------------------------------------------------------------
(* What a frontier is, level by level.  A level holds no run yet; one; two   *)
(* that wait for their merge; when that is done, the two it consumed, and    *)
(* then a fresh one beside them until a root reaches it.  Level 0 becomes    *)
(* the root.  The place of a level names its slots and the objects in them.  *)

Kinds == {"none", "one", "fresh", "two", "done", "root"}

\* into is the route to the latest runs of the level, before the one to those
\* before them; end is where its records end, and seen that a root reached them.
Place == [kind : Kinds, a : Slots, b : Slots, c : Slots,
          into : Route, before : Route, end : Nat, seen : BOOLEAN]
Places == {q \in Place : q.a # q.b /\ q.a # q.c /\ q.b # q.c}

\* Above the last level there is nothing.
IsBare(q) == q.kind = "none" /\ q.into = Nowhere /\ q.before = Nowhere /\ q.end = 0 /\ q.seen

IsRun(objects, id, i, first, secondary, next) ==
  /\ id \in DOMAIN objects
  /\ objects[id].first = first /\ objects[id].last = first + RunMass[i] /\ objects[id].level = i
  /\ objects[id].secondary <=> secondary
  /\ objects[id].next = next

OneRun(objects, q, above, i) ==
  /\ IsRun(objects, q.into.main, i, above.end, FALSE, above.into)
  /\ q.into.secondary = Null /\ q.before = Nowhere
  /\ q.end = above.end + RunMass[i]
  /\ IF q.seen THEN above.seen ELSE above.kind = "none"

FreshRun(objects, q, above, i) ==
  /\ IsRun(objects, q.into.main, i, above.end, FALSE, above.into)
  /\ IsRun(objects, q.before.main, i, above.end - 2 * RunMass[i], FALSE, above.before)
  /\ IsRun(objects, q.before.secondary, i, above.end - RunMass[i], TRUE, Nowhere)
  /\ q.into.secondary = Null
  /\ q.end = above.end + RunMass[i] /\ above.end >= 2 * RunMass[i]
  /\ ~q.seen /\ ~above.seen /\ above.kind # "none"

TwoRuns(objects, q, above, i) ==
  /\ IsRun(objects, q.into.main, i, above.end, FALSE, above.into)
  /\ IsRun(objects, q.into.secondary, i, above.end + RunMass[i], TRUE, Nowhere)
  /\ q.before = [main |-> q.into.main, secondary |-> Null]
  /\ q.end = above.end + 2 * RunMass[i]
  /\ above.seen

DoneRuns(objects, q, above, i) ==
  /\ IsRun(objects, q.into.main, i, above.end - 2 * RunMass[i], FALSE, above.before)
  /\ IsRun(objects, q.into.secondary, i, above.end - RunMass[i], TRUE, Nowhere)
  /\ q.before = [main |-> q.into.main, secondary |-> Null]
  /\ q.end = above.end /\ above.end >= 2 * RunMass[i]
  /\ ~above.seen /\ above.kind # "none"

RootRun(objects, q, above, i) ==
  /\ i = 0 /\ q.into.main \in DOMAIN objects
  /\ LET run == objects[q.into.main] IN
       run.first = 0 /\ run.last = 0 /\ run.level = 0 /\ ~run.secondary /\ run.next = above.into
  /\ q.into.secondary = Null /\ q.before = Nowhere
  /\ q.end = above.end
  /\ q.seen /\ above.seen /\ above.kind # "none"

RunsAreSound(objects, q, above, i) ==
  /\ q.kind = "none" => IsBare(q) /\ above.kind = "none"
  /\ q.kind = "one" => OneRun(objects, q, above, i)
  /\ q.kind = "fresh" => FreshRun(objects, q, above, i)
  /\ q.kind = "two" => TwoRuns(objects, q, above, i)
  /\ q.kind = "done" => DoneRuns(objects, q, above, i)
  /\ q.kind = "root" => RootRun(objects, q, above, i)

\* The slot that a merge of the level below has reserved, and what is there if none has.
Reserved(f, i) == i # 0 /\ (i - 1) \in Working(f)
Waiting(f, i, idle) ==
  IF Reserved(f, i)
  THEN [state |-> "reserved", object |-> f.jobs[i - 1].output, route |-> idle.route, ever_visible |-> FALSE]
  ELSE idle

Keeping(state, id, seen) == [state |-> state, object |-> id, route |-> Nowhere, ever_visible |-> seen]
Rooting(id, route) == [state |-> "root_carrier", object |-> id, route |-> route, ever_visible |-> TRUE]

SlotsAre(f, i, q, x, y, z) == f.slots[i][q.a] = x /\ f.slots[i][q.b] = y /\ f.slots[i][q.c] = z

SlotsAreSound(f, i, q, above) ==
  /\ q.kind = "none" => SlotsAre(f, i, q, Waiting(f, i, Empty), Empty, Empty)
  /\ q.kind = "one" => SlotsAre(f, i, q, Keeping("active", q.into.main, q.seen), Waiting(f, i, Empty), Empty)
  /\ q.kind = "fresh" => SlotsAre(f, i, q, Keeping("active", q.into.main, FALSE),
                                  Keeping("consumed", q.before.main, TRUE),
                                  Keeping("consumed", q.before.secondary, TRUE))
  /\ q.kind = "two" => SlotsAre(f, i, q, Keeping("active", q.into.main, TRUE),
                                Keeping("active", q.into.secondary, q.seen),
                                IF i \in Working(f) THEN Holding("carrier_building", Null) ELSE Empty)
  /\ q.kind = "done" => SlotsAre(f, i, q, Keeping("consumed", q.into.main, TRUE),
                                 Keeping("consumed", q.into.secondary, q.seen),
                                 Waiting(f, i, Carrier("carrier_ready", Null, above.into)))
  /\ q.kind = "root" => SlotsAre(f, i, q, Rooting(q.into.main, above.into), Empty, Empty)

Newest(q) == IF q.kind \in {"two", "done"} THEN q.into.secondary
             ELSE IF q.kind \in {"one", "fresh"} THEN q.into.main ELSE Null

LastIsSound(f, i, q) ==
  /\ f.last[i].identity \in {Null, Newest(q)}
  /\ q.seen <=> f.last[i].identity = Null \/ f.last[i].visible

\* The slot that a merge into a level is given.
Vacancy(q) == IF q.kind = "none" THEN q.a ELSE IF q.kind = "one" THEN q.b ELSE q.c

JobIsSound(f, p, i) ==
  LET job == f.jobs[i]
      q == p[i]
      above == p[i + 1]
  IN
  /\ i + 1 \in Level /\ i + 1 < f.height
  /\ q.kind = "two" /\ above.kind \in {"none", "one", "done"}
  /\ job = [inputs |-> <<q.a, q.b>>, destination |-> Vacancy(above), carrier_slot |-> q.c,
            new_main |-> job.new_main,
            route |-> IF above.kind = "done" THEN p[i + 2].into ELSE Nowhere,
            existing_main |-> IF above.kind = "one" THEN above.into.main ELSE Null,
            output |-> job.output, stage |-> job.stage]
  /\ job.new_main <=> above.kind # "one"
  /\ job.stage = "destination_index" => job.new_main
  /\ IF job.stage \in {"carrier_index", "commit"}
     THEN IsRun(f.objects, job.output, i + 1, above.end, above.kind = "one", job.route) ELSE job.output = Null

FrontierFields == {"admissions", "service_due", "height", "objects", "root", "slots", "jobs", "last"}

IsTyped(f) == IsFrontier(f) /\ DOMAIN f = FrontierFields

LevelIsSound(f, p, i) ==
  /\ RunsAreSound(f.objects, p[i], p[i + 1], i)
  /\ SlotsAreSound(f, i, p[i], p[i + 1])
  /\ LastIsSound(f, i, p[i])
  /\ i >= f.height => p[i].kind = "none"

IsLaidOut(f, p) ==
  /\ IsTyped(f)
  /\ p \in [0..Levels -> Places] /\ IsBare(p[Levels])
  /\ \A i \in Level : LevelIsSound(f, p, i)
  /\ \A i \in Working(f) : JobIsSound(f, p, i)

\* Between two steps: every record admitted is below the root.
IsWhole(f, p) ==
  /\ IsLaidOut(f, p)
  /\ f.admissions = p[0].end /\ f.admissions <= MaxAdmissions
  /\ f.root = p[0].into /\ f.last[0].identity = Null
  /\ p[0].kind \in {"none", "one", "two", "root"}

\* Between two levels that wait for their merges there is room: fewer records
\* came since than a run of the upper one has.
IsRegular(f, p) ==
  \A j \in Level : p[j].kind = "two" => f.admissions - p[j].end < RunMass[j]
-----------------------------------------------------------------------------
(* Counting *)

\* A set of numbers that is not empty has a least one.
LEMMA LeastNatural ==
  ASSUME NEW S, S \subseteq Nat, S # {}
  PROVE  \E n \in S : \A m \in S : n <= m
<1> DEFINE Bad == {0..n : n \in S}
<1>1. \A n \in S : 0..n \in FiniteSubsetsOf(Nat)
  BY FS_Interval DEF FiniteSubsetsOf
<1>2. PICK T \in Bad : \A U \in Bad : ~(U \subseteq T /\ U # T)
  <2>1. Bad \subseteq FiniteSubsetsOf(Nat) /\ Bad # {}
    BY <1>1
  <2> HIDE DEF Bad
  <2>2. QED
    BY <2>1, SmallestSet
<1>3. PICK n \in S : T = 0..n
  BY <1>2
<1>4. ASSUME NEW m \in S, m < n
      PROVE  FALSE
  <2>1. 0..m \subseteq 0..n /\ n \notin 0..m /\ n \in 0..n /\ 0..m \in Bad
    BY <1>4
  <2>2. QED
    BY <2>1, <1>2, <1>3
<1>5. QED
  BY <1>4

\* What holds of 0, and of a number when it holds of the one before, leaves no
\* least exception: the form in which inductions over levels are done.
LEMMA NoException ==
  ASSUME NEW N \in Nat, NEW Bad, Bad \subseteq 0..N, 0 \notin Bad,
         \A n \in 1..N : n \in Bad => n - 1 \in Bad
  PROVE  Bad = {}
<1> SUFFICES ASSUME Bad # {} PROVE FALSE
  OBVIOUS
<1>1. PICK n \in Bad : \A m \in Bad : n <= m
  <2>1. Bad \subseteq Nat
    OBVIOUS
  <2>2. QED
    BY <2>1, LeastNatural
<1>2. n \in 1..N
  BY <1>1
<1>3. QED
  BY <1>1, <1>2

\* The equation that a recursive function of a number stands for.
LEMMA RunMassExists ==
  \E g : g = [i \in 0..Levels |-> IF i = 0 THEN 1 ELSE 2 * g[i - 1]] /\ g \in [0..Levels -> Nat \ {0}]
<1> DEFINE Is(g, n) == g = [i \in 0..n |-> IF i = 0 THEN 1 ELSE 2 * g[i - 1]] /\ g \in [0..n -> Nat \ {0}]
<1> DEFINE Bad == {n \in 0..Levels : ~ \E g : Is(g, n)}
<1>1. 0 \notin Bad
  <2>1. Is([i \in 0..0 |-> 1], 0)
    OBVIOUS
  <2>2. QED
    BY <2>1
<1>2. ASSUME NEW n \in 1..Levels, n \in Bad
      PROVE  n - 1 \in Bad
  <2>0. n - 1 \in 0..Levels
    BY RuntimeAssumption
  <2> SUFFICES ASSUME NEW g, Is(g, n - 1) PROVE \E h : Is(h, n)
    BY <1>2, <2>0
  <2> DEFINE h == [i \in 0..n |-> IF i = 0 THEN 1 ELSE 2 * g[i - 1]]
  <2>1. n - 1 \in Nat /\ 0..n = (0..(n - 1)) \cup {n}
    OBVIOUS
  <2>2. \A i \in 0..(n - 1) : h[i] = g[i] /\ g[i] \in Nat \ {0}
    BY <2>1
  <2>3. \A i \in 0..n : h[i] = (IF i = 0 THEN 1 ELSE 2 * h[i - 1]) /\ h[i] \in Nat \ {0}
    <3> TAKE i \in 0..n
    <3>1. CASE i = 0
      BY <3>1
    <3>2. CASE i # 0
      <4>1. i - 1 \in 0..(n - 1)
        BY <3>2
      <4>2. h[i] = 2 * g[i - 1] /\ h[i - 1] = g[i - 1] /\ g[i - 1] \in Nat \ {0}
        BY <4>1, <2>2, <3>2
      <4>3. QED
        BY <4>2, <3>2
    <3>3. QED
      BY <3>1, <3>2
  <2>4. h = [i \in 0..n |-> IF i = 0 THEN 1 ELSE 2 * h[i - 1]]
    BY <2>3
  <2>5. h \in [0..n -> Nat \ {0}]
    BY <2>3
  <2>6. QED
    BY <2>4, <2>5
<1>3. Bad = {}
  <2> HIDE DEF Bad
  <2>1. Bad \subseteq 0..Levels /\ Levels \in Nat
    BY RuntimeAssumption DEF Bad
  <2>2. QED
    BY <2>1, <1>1, <1>2, NoException
<1>4. Levels \in 0..Levels
  BY RuntimeAssumption
<1>5. QED
  BY <1>3, <1>4

\* A run of a level has twice the records of a run of the level below.
LEMMA RunMassIs ==
  /\ RunMass \in [0..Levels -> Nat \ {0}]
  /\ RunMass[0] = 1
  /\ \A i \in Level : RunMass[i + 1] = 2 * RunMass[i]
<1>1. RunMass = [i \in 0..Levels |-> IF i = 0 THEN 1 ELSE 2 * RunMass[i - 1]]
  BY RunMassExists, Zenon DEF RunMass
<1>2. 0 \in 0..Levels /\ \A i \in Level : i + 1 \in 0..Levels /\ i \in 0..Levels /\ i + 1 # 0 /\ (i + 1) - 1 = i
  BY RuntimeAssumption DEF Level
<1>3. RunMass[0] = 1 /\ \A i \in Level : RunMass[i + 1] = 2 * RunMass[i]
  BY <1>1, <1>2
<1> DEFINE Bad == {i \in 0..Levels : RunMass[i] \notin Nat \ {0}}
<1>4. Bad = {}
  <2>1. 0 \notin Bad
    BY <1>3
  <2>2. ASSUME NEW n \in 1..Levels, n \in Bad
        PROVE  n - 1 \in Bad
    <3>1. n - 1 \in Level /\ (n - 1) + 1 = n /\ n - 1 \in 0..Levels
      BY RuntimeAssumption DEF Level
    <3>2. RunMass[n] = 2 * RunMass[n - 1]
      BY <3>1, <1>3
    <3>3. QED
      BY <3>1, <3>2, <2>2
  <2> HIDE DEF Bad
  <2>3. Bad \subseteq 0..Levels /\ Levels \in Nat
    BY RuntimeAssumption DEF Bad
  <2>4. QED
    BY <2>1, <2>2, <2>3, NoException
<1>5. QED
  BY <1>1, <1>3, <1>4

\* So a higher level has longer runs.
LEMMA RunMassGrows ==
  \A i, j \in 0..Levels : /\ i <= j => RunMass[i] <= RunMass[j]
                          /\ i < j => 2 * RunMass[i] <= RunMass[j]
<1> SUFFICES ASSUME NEW i \in 0..Levels
             PROVE  \A j \in 0..Levels : /\ i <= j => RunMass[i] <= RunMass[j]
                                         /\ i < j => 2 * RunMass[i] <= RunMass[j]
  OBVIOUS
<1> DEFINE Bad == {n \in 0..Levels : ~(/\ i <= n => RunMass[i] <= RunMass[n]
                                       /\ i < n => 2 * RunMass[i] <= RunMass[n])}
<1>1. 0 \notin Bad
  BY RunMassIs, RuntimeAssumption
<1>2. ASSUME NEW n \in 1..Levels, n \in Bad
      PROVE  n - 1 \in Bad
  <2>1. n - 1 \in Level /\ n - 1 \in 0..Levels /\ (n - 1) + 1 = n
    BY RuntimeAssumption DEF Level
  <2>2. RunMass[n] = 2 * RunMass[n - 1] /\ RunMass[n] \in Nat \ {0} /\ RunMass[n - 1] \in Nat \ {0} /\ RunMass[i] \in Nat \ {0}
    BY <2>1, RunMassIs
  <2>3. QED
    BY <2>1, <2>2, <1>2
<1>3. Bad = {}
  <2> HIDE DEF Bad
  <2>1. Bad \subseteq 0..Levels /\ Levels \in Nat
    BY RuntimeAssumption DEF Bad
  <2>2. QED
    BY <2>1, <1>1, <1>2, NoException
<1>4. QED
  BY <1>3
-----------------------------------------------------------------------------
(* Walks *)

\* The routes a walk takes from one level to the next: only a main run leads on.
IsChain(objects, R) ==
  /\ R \in [0..Levels -> Route] /\ R[Levels] = Nowhere
  /\ \A i \in Level :
       /\ R[i].main = Null => R[i] = Nowhere /\ R[i + 1] = Nowhere
       /\ R[i].main # Null => /\ R[i].main \in DOMAIN objects
                              /\ objects[R[i].main].level = i /\ objects[R[i].main].next = R[i + 1]
       /\ R[i].secondary # Null => /\ R[i].secondary \in DOMAIN objects
                                   /\ objects[R[i].secondary].level = i
                                   /\ objects[R[i].secondary].next = Nowhere

OnChain(R, n) == UNION {Ends(R[i]) : i \in 0..n}

\* The routes of a chain go down level by level to objects of their level.
LEMMA ChainEnds ==
  ASSUME NEW objects, NEW R, IsChain(objects, R), NEW i \in Level
  PROVE  /\ Ends(R[i + 1]) = UNION {Ends(objects[id].next) : id \in Ends(R[i])}
         /\ \A id \in Ends(R[i]) : id \in DOMAIN objects /\ objects[id].level = i
<1>1. R[i] \in Route /\ R[i + 1] \in Route
  BY RuntimeAssumption DEF IsChain, Level
<1>2. Ends(Nowhere) = {}
  BY DEF Ends, Nowhere
<1>3. CASE R[i].main = Null
  <2>1. Ends(R[i]) = {} /\ Ends(R[i + 1]) = {}
    BY <1>3, <1>2 DEF IsChain
  <2>2. QED
    BY <2>1
<1>4. CASE R[i].main # Null /\ R[i].secondary = Null
  <2>1. Ends(R[i]) = {R[i].main}
    BY <1>4 DEF Ends
  <2>2. QED
    BY <2>1, <1>4 DEF IsChain
<1>5. CASE R[i].main # Null /\ R[i].secondary # Null
  <2>1. Ends(R[i]) = {R[i].main, R[i].secondary}
    BY <1>5 DEF Ends
  <2>2. /\ Ends(objects[R[i].main].next) = Ends(R[i + 1])
        /\ Ends(objects[R[i].secondary].next) = {}
    BY <1>5, <1>2 DEF IsChain
  <2>3. QED
    BY <2>1, <2>2, <1>5 DEF IsChain
<1>6. QED
  BY <1>3, <1>4, <1>5

\* The objects on a chain are found one level after another.
LEMMA OnChainNext ==
  ASSUME NEW objects, NEW R, IsChain(objects, R), NEW n \in 1..Levels
  PROVE  OnChain(R, n) = OnChain(R, n - 1) \cup UNION {Ends(objects[id].next) : id \in OnChain(R, n - 1)}
<1> USE RuntimeAssumption
<1>1. \A i \in 0..(n - 1) : i \in Level
  BY DEF Level
<1>2. \A i \in 0..(n - 1) : Ends(R[i + 1]) = UNION {Ends(objects[id].next) : id \in Ends(R[i])}
  BY <1>1, ChainEnds
<1>3. ASSUME NEW x \in OnChain(R, n)
      PROVE  x \in OnChain(R, n - 1) \cup UNION {Ends(objects[id].next) : id \in OnChain(R, n - 1)}
  <2>1. PICK i \in 0..n : x \in Ends(R[i])
    BY <1>3 DEF OnChain
  <2>2. CASE i \in 0..(n - 1)
    BY <2>1, <2>2 DEF OnChain
  <2>3. CASE i = n
    <3>1. n - 1 \in 0..(n - 1) /\ (n - 1) + 1 = n
      OBVIOUS
    <3>2. x \in UNION {Ends(objects[id].next) : id \in Ends(R[n - 1])}
      BY <2>1, <2>3, <3>1, <1>2
    <3>3. Ends(R[n - 1]) \subseteq OnChain(R, n - 1)
      BY <3>1 DEF OnChain
    <3>4. QED
      BY <3>2, <3>3
  <2>4. QED
    BY <2>1, <2>2, <2>3
<1>4. ASSUME NEW x \in OnChain(R, n - 1)
      PROVE  x \in OnChain(R, n)
  <2>1. 0..(n - 1) \subseteq 0..n
    OBVIOUS
  <2>2. QED
    BY <2>1 DEF OnChain
<1>5. ASSUME NEW id \in OnChain(R, n - 1), NEW x \in Ends(objects[id].next)
      PROVE  x \in OnChain(R, n)
  <2>1. PICK i \in 0..(n - 1) : id \in Ends(R[i])
    BY DEF OnChain
  <2>2. x \in Ends(R[i + 1]) /\ i + 1 \in 0..n
    BY <2>1, <1>2
  <2>3. QED
    BY <2>2 DEF OnChain
<1>6. QED
  BY <1>3, <1>4, <1>5

\* The objects a walk visits are the ends of its routes.
LEMMA Walk ==
  ASSUME NEW f, NEW R, IsChain(f.objects, R)
  PROVE  Reached(f, R[0]) = OnChain(R, Levels)
<1> DEFINE Step(above) == above \cup UNION {Ends(f.objects[id].next) : id \in above}
           F(g) == [n \in 0..Levels |-> IF n = 0 THEN Ends(R[0]) ELSE Step(g[n - 1])]
           All == [n \in 0..Levels |-> OnChain(R, n)]
           upTo == CHOOSE g : g = F(g)
<1> USE RuntimeAssumption
<1>1. All = F(All)
  <2>1. OnChain(R, 0) = Ends(R[0])
    BY DEF OnChain
  <2>2. \A n \in 1..Levels : All[n] = Step(All[n - 1])
    BY OnChainNext
  <2>3. ASSUME NEW n \in 0..Levels
        PROVE  All[n] = IF n = 0 THEN Ends(R[0]) ELSE Step(All[n - 1])
    <3>1. CASE n = 0
      BY <2>1, <3>1
    <3>2. CASE n # 0
      <4>1. n \in 1..Levels
        BY <3>2
      <4>2. QED
        BY <4>1, <3>2, <2>2
    <3>3. QED
      BY <3>1, <3>2
  <2>4. QED
    BY <2>3
<1>2. upTo = F(upTo)
  <2>1. \E g : g = F(g)
    BY <1>1
  <2>2. QED
    BY <2>1, Zenon
<1>3. upTo = All
  <2> DEFINE Bad == {n \in 0..Levels : upTo[n] # All[n]}
  <2> HIDE DEF upTo, All
  <2>1. 0 \notin Bad
    <3>1. upTo[0] = Ends(R[0]) /\ All[0] = Ends(R[0])
      BY <1>1, <1>2
    <3>2. QED
      BY <3>1
  <2>2. ASSUME NEW n \in 1..Levels, n \in Bad
        PROVE  n - 1 \in Bad
    <3>1. n \in 0..Levels /\ n # 0 /\ n - 1 \in 0..Levels
      OBVIOUS
    <3>2. upTo[n] = Step(upTo[n - 1]) /\ All[n] = Step(All[n - 1])
      BY <1>1, <1>2, <3>1
    <3>3. QED
      BY <3>1, <3>2, <2>2
  <2>3. Bad = {}
    <3> HIDE DEF Bad
    <3>1. Bad \subseteq 0..Levels /\ Levels \in Nat
      BY DEF Bad
    <3>2. QED
      BY <3>1, <2>1, <2>2, NoException
  <2>4. \A n \in 0..Levels : upTo[n] = All[n]
    BY <2>3
  <2>5. upTo = [n \in 0..Levels |-> upTo[n]] /\ All = [n \in 0..Levels |-> All[n]]
    BY <1>1, <1>2
  <2> HIDE DEF F
  <2>6. QED
    BY <2>4, <2>5
<1>4. Reached(f, R[0]) = upTo[Levels]
  BY DEF Reached
<1>5. Levels \in 0..Levels
  OBVIOUS
<1>6. QED
  <2> HIDE DEF upTo, F
  <2>1. QED
    BY <1>3, <1>4, <1>5

\* On its level, an object is visible exactly when the route there leads to it.
LEMMA VisibleAt ==
  ASSUME NEW f, NEW R, IsChain(f.objects, R), NEW i \in Level, NEW id, id # Null =>
           id \in DOMAIN f.objects /\ f.objects[id].level = i
  PROVE  id \in Reached(f, R[0]) <=> id \in Ends(R[i])
<1>1. Reached(f, R[0]) = OnChain(R, Levels)
  BY Walk
<1>2. Ends(R[Levels]) = {}
  BY DEF IsChain, Ends, Nowhere
<1>3. i \in 0..Levels /\ \A j \in 0..Levels : j \in Level \/ j = Levels
  BY RuntimeAssumption DEF Level
<1>4. \A j \in Level : \A x \in Ends(R[j]) : x # Null /\ f.objects[x].level = j
  BY ChainEnds DEF Ends
<1>5. QED
  BY <1>1, <1>2, <1>3, <1>4 DEF OnChain
-----------------------------------------------------------------------------
(* What a root shows *)

IsStack(objects, p) ==
  /\ p \in [0..Levels -> Places] /\ IsBare(p[Levels])
  /\ \A i \in Level : RunsAreSound(objects, p[i], p[i + 1], i)

\* The route by which a reader comes to the runs of a level.
Shows(q) == IF q.seen THEN q.into ELSE q.before
ShownRoutes(p) == [i \in 0..Levels |-> Shows(p[i])]

\* What a place consists of.
LEMMA PlaceType ==
  ASSUME NEW q \in Places
  PROVE  /\ q.kind \in Kinds /\ q.a \in Slots /\ q.b \in Slots /\ q.c \in Slots
         /\ q.a # q.b /\ q.a # q.c /\ q.b # q.c
         /\ q.into \in Route /\ q.before \in Route /\ q.end \in Nat /\ q.seen \in BOOLEAN
         /\ q.into.main \in Nat /\ q.into.secondary \in Nat
         /\ q.before.main \in Nat /\ q.before.secondary \in Nat
  BY DEF Places, Place, Route

\* What a stack says of one level and the level above it.
LEMMA StackAt ==
  ASSUME NEW objects, NEW p, IsStack(objects, p), NEW i \in Level
  PROVE  /\ i \in 0..Levels /\ i + 1 \in 0..Levels /\ p[i] \in Places /\ p[i + 1] \in Places
         /\ RunsAreSound(objects, p[i], p[i + 1], i)
         /\ RunMass[i] \in Nat \ {0} /\ RunMass[i + 1] = 2 * RunMass[i]
  BY RuntimeAssumption, RunMassIs DEF IsStack, Level

\* A level without a run is bare.
LEMMA BareIs ==
  ASSUME NEW objects, NEW p, IsStack(objects, p), NEW i \in 0..Levels, p[i].kind = "none"
  PROVE  IsBare(p[i])
<1>1. CASE i \in Level
  BY <1>1, StackAt DEF RunsAreSound
<1>2. CASE i \notin Level
  BY <1>2, RuntimeAssumption DEF Level, IsStack
<1>3. QED
  BY <1>1, <1>2

\* The routes that readers follow through a stack are a chain: each leads to
\* objects of its level, and these to the next route.
LEMMA StackChain ==
  ASSUME NEW objects \in Seq(Object), NEW p, IsStack(objects, p)
  PROVE  IsChain(objects, ShownRoutes(p))
<1> DEFINE R == ShownRoutes(p)
<1>1. R \in [0..Levels -> Route] /\ R[Levels] = Nowhere
  BY RuntimeAssumption, PlaceType DEF ShownRoutes, Shows, IsStack, IsBare
<1>2. ASSUME NEW i \in Level
      PROVE  /\ R[i].main = Null => R[i] = Nowhere /\ R[i + 1] = Nowhere
             /\ R[i].main # Null => /\ R[i].main \in DOMAIN objects
                                    /\ objects[R[i].main].level = i /\ objects[R[i].main].next = R[i + 1]
             /\ R[i].secondary # Null => /\ R[i].secondary \in DOMAIN objects
                                         /\ objects[R[i].secondary].level = i
                                         /\ objects[R[i].secondary].next = Nowhere
  <2> DEFINE q == p[i]
             above == p[i + 1]
  <2>1. /\ q \in Places /\ above \in Places /\ RunsAreSound(objects, q, above, i)
        /\ R[i] = Shows(q) /\ R[i + 1] = Shows(above)
    BY StackAt DEF ShownRoutes
  <2> HIDE DEF q, above, R
  <2>2. 0 \notin DOMAIN objects /\ q.kind \in Kinds /\ (above.kind = "none" => IsBare(above))
    <3>1. above.kind = "none" => IsBare(above)
      BY BareIs, StackAt DEF above
    <3>2. QED
      BY <2>1, <3>1, PlaceType
  <2>3. CASE q.kind = "none"
    BY <2>1, <2>2, <2>3 DEF RunsAreSound, IsBare, Shows, Nowhere, Null
  <2>4. CASE q.kind = "one"
    BY <2>1, <2>2, <2>4 DEF RunsAreSound, OneRun, IsRun, IsBare, Shows, Nowhere, Null
  <2>5. CASE q.kind = "fresh"
    BY <2>1, <2>2, <2>5 DEF RunsAreSound, FreshRun, IsRun, Shows, Nowhere, Null
  <2>6. CASE q.kind = "two"
    BY <2>1, <2>2, <2>6 DEF RunsAreSound, TwoRuns, IsRun, Shows, Nowhere, Null
  <2>7. CASE q.kind = "done"
    BY <2>1, <2>2, <2>7 DEF RunsAreSound, DoneRuns, IsRun, Shows, Nowhere, Null
  <2>8. CASE q.kind = "root"
    BY <2>1, <2>2, <2>8 DEF RunsAreSound, RootRun, Shows, Nowhere, Null
  <2>9. QED
    BY <2>1, <2>3, <2>4, <2>5, <2>6, <2>7, <2>8, PlaceType DEF Kinds
<1>3. QED
  BY <1>1, <1>2 DEF IsChain

\* What visibility makes of a slot, given what is visible on its level.
Marked(x, ends) ==
  IF x.state = "consumed" /\ x.ever_visible /\ x.object \notin ends THEN Empty
  ELSE [x EXCEPT !.ever_visible = @ \/ x.object \in ends]
Noticed(l, ends) == [l EXCEPT !.visible = @ \/ l.identity \in ends]
MarkedSlots(f, R) == [i \in Level |-> [s \in Slots |-> Marked(f.slots[i][s], Ends(R[i]))]]
NoticedLast(f, R) == [i \in Level |-> Noticed(f.last[i], Ends(R[i]))]

\* What a frontier names on a level is of that level.
NamesAreHome(f) ==
  \A i \in Level :
    /\ \A s \in Slots : f.slots[i][s].object # Null =>
         f.slots[i][s].object \in DOMAIN f.objects /\ f.objects[f.slots[i][s].object].level = i
    /\ f.last[i].identity # Null =>
         f.last[i].identity \in DOMAIN f.objects /\ f.objects[f.last[i].identity].level = i

\* note_visible sets marks and changes nothing else.
LEMMA ShownIs ==
  ASSUME NEW f, DOMAIN f = FrontierFields, NEW R, IsChain(f.objects, R), f.root = R[0], NamesAreHome(f)
  PROVE  /\ DOMAIN Shown(f) = FrontierFields
         /\ Shown(f).admissions = f.admissions /\ Shown(f).service_due = f.service_due
         /\ Shown(f).height = f.height /\ Shown(f).objects = f.objects
         /\ Shown(f).root = f.root /\ Shown(f).jobs = f.jobs
         /\ Shown(f).slots = MarkedSlots(f, R) /\ Shown(f).last = NoticedLast(f, R)
<1> DEFINE V == Reached(f, f.root)
<1>1. ASSUME NEW i \in Level, NEW s \in Slots
      PROVE  Marked(f.slots[i][s], V) = Marked(f.slots[i][s], Ends(R[i]))
  <2>1. f.slots[i][s].object \in V <=> f.slots[i][s].object \in Ends(R[i])
    BY VisibleAt DEF NamesAreHome
  <2>2. QED
    BY <2>1 DEF Marked
<1>2. ASSUME NEW i \in Level
      PROVE  Noticed(f.last[i], V) = Noticed(f.last[i], Ends(R[i]))
  <2>1. f.last[i].identity \in V <=> f.last[i].identity \in Ends(R[i])
    BY VisibleAt DEF NamesAreHome
  <2>2. QED
    BY <2>1 DEF Noticed
<1>3. Shown(f) = [f EXCEPT
          !.slots = [i \in Level |-> [s \in Slots |-> Marked(f.slots[i][s], V)]],
          !.last = [i \in Level |-> Noticed(f.last[i], V)]]
  BY Zenon DEF Shown, Marked, Noticed
<1>4. [i \in Level |-> [s \in Slots |-> Marked(f.slots[i][s], V)]]
      = MarkedSlots(f, R)
  BY <1>1 DEF MarkedSlots
<1>5. [i \in Level |-> Noticed(f.last[i], V)] = NoticedLast(f, R)
  BY <1>2 DEF NoticedLast
<1> HIDE DEF V
<1>6. QED
  BY <1>3, <1>4, <1>5 DEF FrontierFields
-----------------------------------------------------------------------------
(* The slots of a level *)

\* A level has three slots, and a place names them all.
LEMMA SlotIs ==
  ASSUME NEW q \in Places, NEW s \in Slots
  PROVE  s = q.a \/ s = q.b \/ s = q.c
  BY PlaceType DEF Slots

\* What a slot is made of, for each way one is filled.
LEMMA SlotForms ==
  /\ Empty = [state |-> "empty", object |-> 0, route |-> [main |-> 0, secondary |-> 0], ever_visible |-> FALSE]
  /\ Empty \in Slot
  /\ \A state, id : Holding(state, id)
       = [state |-> state, object |-> id, route |-> [main |-> 0, secondary |-> 0], ever_visible |-> FALSE]
  /\ \A state, id, route : Carrier(state, id, route)
       = [state |-> state, object |-> id, route |-> route, ever_visible |-> FALSE]
<1>1. Empty = [state |-> "empty", object |-> 0, route |-> [main |-> 0, secondary |-> 0], ever_visible |-> FALSE]
  BY DEF Empty, Nowhere, Null
<1>2. Empty \in Slot
  BY <1>1 DEF Slot, Route, States
<1>3. ASSUME NEW state, NEW id
      PROVE  Holding(state, id)
             = [state |-> state, object |-> id, route |-> [main |-> 0, secondary |-> 0], ever_visible |-> FALSE]
  BY DEF Holding, Carrier, Nowhere, Null
<1>4. ASSUME NEW state, NEW id, NEW route
      PROVE  Carrier(state, id, route)
             = [state |-> state, object |-> id, route |-> route, ever_visible |-> FALSE]
  BY DEF Carrier
<1>5. QED
  BY <1>1, <1>2, <1>3, <1>4

\* What a frontier laid out is made of.
LEMMA StackOf ==
  ASSUME NEW f, NEW p, IsLaidOut(f, p)
  PROVE  /\ IsStack(f.objects, p) /\ f.objects \in Seq(Object)
         /\ f.admissions \in Nat /\ f.service_due \in Nat /\ f.height \in 1..Levels /\ f.root \in Route
         /\ f.slots \in [Level -> [Slots -> Slot]]
         /\ Working(f) \subseteq Level /\ f.jobs \in [Working(f) -> Job]
         /\ f.last \in [Level -> [identity : Nat, visible : BOOLEAN]]
         /\ DOMAIN f = FrontierFields
  BY DEF IsLaidOut, LevelIsSound, IsStack, IsTyped, IsFrontier, Working

\* What a frontier laid out says of one level.
LEMMA LevelAt ==
  ASSUME NEW f, NEW p, IsLaidOut(f, p), NEW i \in Level
  PROVE  /\ i \in 0..Levels /\ i + 1 \in 0..Levels /\ p[i] \in Places /\ p[i + 1] \in Places
         /\ RunsAreSound(f.objects, p[i], p[i + 1], i)
         /\ RunMass[i] \in Nat \ {0} /\ RunMass[i + 1] = 2 * RunMass[i]
         /\ SlotsAreSound(f, i, p[i], p[i + 1])
         /\ LastIsSound(f, i, p[i])
         /\ i >= f.height => p[i].kind = "none"
  BY StackOf, StackAt DEF IsLaidOut, LevelIsSound

\* Only a level that may take a run is reserved.
LEMMA ReservedIs ==
  ASSUME NEW f, NEW p, IsLaidOut(f, p), NEW i \in Level, Reserved(f, i)
  PROVE  /\ i - 1 \in Level /\ i - 1 \in Working(f) /\ JobIsSound(f, p, i - 1) /\ (i - 1) + 1 = i
         /\ p[i - 1].kind = "two" /\ p[i].kind \in {"none", "one", "done"} /\ p[i].seen
         /\ f.jobs[i - 1].destination = Vacancy(p[i])
         /\ \/ f.jobs[i - 1].output = Null
            \/ IsRun(f.objects, f.jobs[i - 1].output, i, p[i].end, p[i].kind = "one", f.jobs[i - 1].route)
<1>1. i - 1 \in Level /\ (i - 1) + 1 = i /\ i - 1 \in Working(f)
  BY StackOf DEF Reserved, Level
<1>2. JobIsSound(f, p, i - 1)
  BY <1>1 DEF IsLaidOut
<1>3. /\ p[i - 1].kind = "two" /\ p[i].kind \in {"none", "one", "done"}
      /\ f.jobs[i - 1].destination = Vacancy(p[i])
      /\ \/ f.jobs[i - 1].output = Null
         \/ IsRun(f.objects, f.jobs[i - 1].output, i, p[i].end, p[i].kind = "one", f.jobs[i - 1].route)
  BY <1>1, <1>2 DEF JobIsSound
<1>4. p[i].seen
  BY <1>1, <1>3, LevelAt DEF RunsAreSound, TwoRuns
<1>5. QED
  BY <1>1, <1>2, <1>3, <1>4

\* The kind of a place tells which slots of its level are in which state.
LEMMA InLevel ==
  ASSUME NEW f, NEW p, IsLaidOut(f, p), NEW i \in Level
  PROVE  /\ In(f, i, "active") = IF p[i].kind = "two" THEN {p[i].a, p[i].b}
                                 ELSE IF p[i].kind \in {"one", "fresh"} THEN {p[i].a} ELSE {}
         /\ In(f, i, "carrier_ready") = IF p[i].kind = "done" /\ ~Reserved(f, i) THEN {p[i].c} ELSE {}
         /\ In(f, i, "root_carrier") = IF p[i].kind = "root" THEN {p[i].a} ELSE {}
         /\ In(f, i, "reserved") = IF Reserved(f, i) THEN {Vacancy(p[i])} ELSE {}
         /\ In(f, i, "carrier_building") = IF i \in Working(f) THEN {p[i].c} ELSE {}
         /\ In(f, i, "empty") = CASE p[i].kind = "none" -> IF Reserved(f, i) THEN {p[i].b, p[i].c} ELSE Slots
                                  [] p[i].kind = "one"  -> IF Reserved(f, i) THEN {p[i].c} ELSE {p[i].b, p[i].c}
                                  [] p[i].kind = "two"  -> IF i \in Working(f) THEN {} ELSE {p[i].c}
                                  [] p[i].kind = "root" -> {p[i].b, p[i].c}
                                  [] OTHER -> {}
<1> DEFINE q == p[i]
<1>1. /\ q \in Places /\ SlotsAreSound(f, i, q, p[i + 1])
      /\ q.a \in Slots /\ q.b \in Slots /\ q.c \in Slots
      /\ q.a # q.b /\ q.a # q.c /\ q.b # q.c /\ q.kind \in Kinds
  BY LevelAt, PlaceType
<1>2. /\ Reserved(f, i) => q.kind \in {"none", "one", "done"}
      /\ i \in Working(f) => q.kind = "two"
  <2>1. i \in Working(f) => q.kind = "two"
    BY DEF IsLaidOut, JobIsSound
  <2>2. QED
    BY <2>1, ReservedIs
<1>3. \A s \in Slots : s = q.a \/ s = q.b \/ s = q.c
  BY <1>1, SlotIs
<1> DEFINE st(s) == f.slots[i][s].state
<1>4. /\ q.kind = "none" => st(q.a) = (IF Reserved(f, i) THEN "reserved" ELSE "empty") /\ st(q.b) = "empty" /\ st(q.c) = "empty"
      /\ q.kind = "one" => st(q.a) = "active" /\ st(q.b) = (IF Reserved(f, i) THEN "reserved" ELSE "empty") /\ st(q.c) = "empty"
      /\ q.kind = "fresh" => st(q.a) = "active" /\ st(q.b) = "consumed" /\ st(q.c) = "consumed"
      /\ q.kind = "two" => st(q.a) = "active" /\ st(q.b) = "active" /\ st(q.c) = (IF i \in Working(f) THEN "carrier_building" ELSE "empty")
      /\ q.kind = "done" => st(q.a) = "consumed" /\ st(q.b) = "consumed" /\ st(q.c) = (IF Reserved(f, i) THEN "reserved" ELSE "carrier_ready")
      /\ q.kind = "root" => st(q.a) = "root_carrier" /\ st(q.b) = "empty" /\ st(q.c) = "empty"
  <2>1. \A idle : Waiting(f, i, idle).state = IF Reserved(f, i) THEN "reserved" ELSE idle.state
    BY DEF Waiting
  <2>2. Empty.state = "empty"
    BY DEF Empty
  <2>3. \A state, id, route : Carrier(state, id, route).state = state
    BY DEF Carrier
  <2>4. \A state, id : Holding(state, id).state = state
    BY DEF Holding, Carrier
  <2>5. \A state, id, seen : Keeping(state, id, seen).state = state
    BY DEF Keeping
  <2>6. Rooting(q.into.main, p[i + 1].into).state = "root_carrier"
    BY DEF Rooting
  <2> DEFINE W(idle) == Waiting(f, i, idle).state
  <2>8. /\ W(Empty) = IF Reserved(f, i) THEN "reserved" ELSE "empty"
        /\ W(Carrier("carrier_ready", Null, p[i + 1].into)) = IF Reserved(f, i) THEN "reserved" ELSE "carrier_ready"
    BY <2>1, <2>2, <2>3
  <2> HIDE DEF W
  <2>9. CASE q.kind = "none"
    BY <1>1, <2>2, <2>8, <2>9 DEF SlotsAreSound, SlotsAre, W
  <2>10. CASE q.kind = "one"
    BY <1>1, <2>2, <2>5, <2>8, <2>10 DEF SlotsAreSound, SlotsAre, W
  <2>11. CASE q.kind = "fresh"
    BY <1>1, <2>11 DEF SlotsAreSound, SlotsAre, Keeping
  <2>12. CASE q.kind = "two"
    BY <1>1, <2>2, <2>4, <2>12 DEF SlotsAreSound, SlotsAre, Keeping
  <2>13. CASE q.kind = "done"
    BY <1>1, <2>8, <2>13 DEF SlotsAreSound, SlotsAre, Keeping, W
  <2>14. CASE q.kind = "root"
    BY <1>1, <2>2, <2>6, <2>14 DEF SlotsAreSound, SlotsAre
  <2>15. QED
    BY <1>1, <2>9, <2>10, <2>11, <2>12, <2>13, <2>14 DEF Kinds
<1>5. \A state : In(f, i, state) = {s \in Slots : st(s) = state}
  BY DEF In
<1> HIDE DEF st
<1>6. CASE q.kind = "none"
  BY <1>1, <1>2, <1>3, <1>4, <1>5, <1>6 DEF Vacancy
<1>7. CASE q.kind = "one"
  BY <1>1, <1>2, <1>3, <1>4, <1>5, <1>7 DEF Vacancy
<1>8. CASE q.kind = "fresh"
  BY <1>1, <1>2, <1>3, <1>4, <1>5, <1>8 DEF Vacancy
<1>9. CASE q.kind = "two"
  BY <1>1, <1>2, <1>3, <1>4, <1>5, <1>9 DEF Vacancy
<1>10. CASE q.kind = "done"
  BY <1>1, <1>2, <1>3, <1>4, <1>5, <1>10 DEF Vacancy
<1>11. CASE q.kind = "root"
  BY <1>1, <1>2, <1>3, <1>4, <1>5, <1>11 DEF Vacancy
<1>12. QED
  BY <1>1, <1>6, <1>7, <1>8, <1>9, <1>10, <1>11 DEF Kinds

\* How many elements a pair, a singleton and the empty set have.
LEMMA PairSize ==
  /\ \A x, y : x # y => Cardinality({x, y}) = 2
  /\ \A x : Cardinality({x}) = 1
  /\ Cardinality({}) = 0
<1>1. Cardinality({}) = 0 /\ IsFiniteSet({})
  BY FS_EmptySet
<1>2. ASSUME NEW x PROVE Cardinality({x}) = 1 /\ IsFiniteSet({x})
  BY FS_Singleton
<1>3. ASSUME NEW x, NEW y, x # y PROVE Cardinality({x, y}) = 2
  <2>1. {x, y} = {x} \cup {y} /\ y \notin {x}
    BY <1>3
  <2>2. Cardinality({x} \cup {y}) = Cardinality({x}) + 1
    BY <1>2, <2>1, FS_AddElement
  <2>3. Cardinality({x}) = 1
    BY <1>2
  <2>4. Cardinality({x, y}) = 1 + 1
    BY <2>1, <2>2, <2>3, Zenon
  <2>5. QED
    BY <2>4
<1>4. QED
  BY <1>1, <1>2, <1>3

\* A level is unsafe when it has two runs.
LEMMA UnsafeIs ==
  ASSUME NEW f, NEW p, IsLaidOut(f, p)
  PROVE  Unsafe(f) = {i \in Level : p[i].kind = "two"}
<1>1. ASSUME NEW i \in Level
      PROVE  i \in Unsafe(f) <=> p[i].kind = "two"
  <2>1. i \in Working(f) => p[i].kind = "two"
    BY DEF IsLaidOut, JobIsSound
  <2>2. p[i].a # p[i].b
    BY LevelAt, PlaceType
  <2>3. In(f, i, "active") = IF p[i].kind = "two" THEN {p[i].a, p[i].b}
                             ELSE IF p[i].kind \in {"one", "fresh"} THEN {p[i].a} ELSE {}
    BY InLevel
  <2>4. Cardinality(In(f, i, "active")) = 2 <=> p[i].kind = "two"
    <3>1. CASE p[i].kind = "two"
      <4>1. In(f, i, "active") = {p[i].a, p[i].b}
        BY <3>1, <2>3
      <4>2. Cardinality({p[i].a, p[i].b}) = 2
        BY <2>2, PairSize
      <4>3. QED
        BY <3>1, <4>1, <4>2
    <3>2. CASE p[i].kind \in {"one", "fresh"}
      <4>1. In(f, i, "active") = {p[i].a} /\ p[i].kind # "two"
        BY <3>2, <2>3
      <4>2. Cardinality({p[i].a}) = 1
        BY PairSize
      <4>3. QED
        BY <4>1, <4>2
    <3>3. CASE p[i].kind \notin {"one", "fresh", "two"}
      <4>1. In(f, i, "active") = {} /\ p[i].kind # "two"
        BY <3>3, <2>3
      <4>2. QED
        BY <4>1, PairSize
    <3>4. QED
      BY <3>1, <3>2, <3>3
  <2>5. QED
    BY <2>1, <2>4 DEF Unsafe
<1>2. QED
  BY <1>1 DEF Unsafe
-----------------------------------------------------------------------------
(* What a step leaves alone *)

\* Objects are only added.
Grown(objects, more) ==
  /\ objects \in Seq(Object) /\ more \in Seq(Object)
  /\ Len(objects) <= Len(more)
  /\ \A id \in DOMAIN objects : more[id] = objects[id]

\* An object stored later leaves the earlier ones in place,
LEMMA GrownAppend ==
  ASSUME NEW objects \in Seq(Object), NEW o \in Object
  PROVE  /\ Grown(objects, Append(objects, o))
         /\ Len(objects) + 1 \in DOMAIN Append(objects, o)
         /\ Append(objects, o)[Len(objects) + 1] = o
         /\ Len(objects) + 1 \notin DOMAIN objects
         /\ DOMAIN Append(objects, o) = 1..(Len(objects) + 1)
  BY DEF Grown

\* and so does storing none.
LEMMA GrownSame ==
  ASSUME NEW objects \in Seq(Object)
  PROVE  Grown(objects, objects)
  BY DEF Grown

\* A run is still that run when objects were stored after it.
LEMMA RunGrows ==
  ASSUME NEW objects, NEW more, Grown(objects, more),
         NEW id, NEW i, NEW first, NEW secondary, NEW next,
         IsRun(objects, id, i, first, secondary, next)
  PROVE  IsRun(more, id, i, first, secondary, next)
<1>1. id \in DOMAIN more /\ more[id] = objects[id]
  BY DEF Grown, IsRun
<1>2. QED
  BY <1>1 DEF IsRun

\* Two places that look alike from the level below.
LooksAlike(above, other) ==
  /\ other.into = above.into /\ other.before = above.before /\ other.end = above.end
  /\ other.seen = above.seen /\ (other.kind = "none" <=> above.kind = "none")

\* A level keeps its runs while the level above it looks the same.
LEMMA RunsStay ==
  ASSUME NEW objects, NEW more, Grown(objects, more), NEW q, NEW above, NEW other, NEW i,
         LooksAlike(above, other), RunsAreSound(objects, q, above, i)
  PROVE  RunsAreSound(more, q, other, i)
<1>1. ASSUME q.kind = "one" PROVE OneRun(more, q, other, i)
  BY <1>1, RunGrows DEF RunsAreSound, OneRun, LooksAlike
<1>2. ASSUME q.kind = "fresh" PROVE FreshRun(more, q, other, i)
  BY ZenonT(30), <1>2, RunGrows DEF RunsAreSound, FreshRun, LooksAlike
<1>3. ASSUME q.kind = "two" PROVE TwoRuns(more, q, other, i)
  <2>1. TwoRuns(objects, q, above, i)
    BY <1>3 DEF RunsAreSound
  <2>2. /\ IsRun(more, q.into.main, i, above.end, FALSE, above.into)
        /\ IsRun(more, q.into.secondary, i, above.end + RunMass[i], TRUE, Nowhere)
    BY <2>1 DEF TwoRuns, IsRun, Grown
  <2>3. QED
    BY <2>1, <2>2 DEF TwoRuns, LooksAlike
<1>4. ASSUME q.kind = "done" PROVE DoneRuns(more, q, other, i)
  BY <1>4, RunGrows DEF RunsAreSound, DoneRuns, LooksAlike
<1>5. ASSUME q.kind = "root" PROVE RootRun(more, q, other, i)
  BY <1>5 DEF RunsAreSound, RootRun, LooksAlike, Grown
<1>6. q.kind = "none" => other.kind = "none" /\ IsBare(q)
  BY DEF RunsAreSound, LooksAlike
<1>7. QED
  BY <1>1, <1>2, <1>3, <1>4, <1>5, <1>6 DEF RunsAreSound

\* It keeps its slots when the step touches none of them,
LEMMA SlotsStay ==
  ASSUME NEW f, NEW g, NEW i, NEW q, NEW above, NEW other,
         g.slots[i] = f.slots[i], above.into = other.into,
         Reserved(g, i) <=> Reserved(f, i),
         Reserved(f, i) => g.jobs[i - 1].output = f.jobs[i - 1].output,
         i \in Working(g) <=> i \in Working(f),
         SlotsAreSound(f, i, q, above)
  PROVE  SlotsAreSound(g, i, q, other)
<1>1. \A idle : Waiting(g, i, idle) = Waiting(f, i, idle)
  BY DEF Waiting
<1>2. \A x, y, z : SlotsAre(g, i, q, x, y, z) <=> SlotsAre(f, i, q, x, y, z)
  BY DEF SlotsAre
<1>3. ASSUME q.kind = "two"
      PROVE  SlotsAre(g, i, q, Keeping("active", q.into.main, TRUE), Keeping("active", q.into.secondary, q.seen),
                      IF i \in Working(g) THEN Holding("carrier_building", Null) ELSE Empty)
  BY <1>3 DEF SlotsAreSound, SlotsAre
<1>4. QED
  BY <1>1, <1>2, <1>3 DEF SlotsAreSound

\* and its merge, when neither of the merge's levels changed.
LEMMA JobStays ==
  ASSUME NEW f, NEW g, NEW p, NEW r, NEW i, i \in Working(f), JobIsSound(f, p, i),
         Grown(f.objects, g.objects), g.jobs[i] = f.jobs[i], f.height <= g.height,
         f.height \in Nat, g.height \in Nat,
         r[i] = p[i], r[i + 1] = p[i + 1], p[i + 1].kind = "done" => r[i + 2].into = p[i + 2].into
  PROVE  JobIsSound(g, r, i)
<1>1. i + 1 < g.height
  BY DEF JobIsSound, Level
<1>2. f.jobs[i].stage \in {"carrier_index", "commit"} =>
        IsRun(g.objects, f.jobs[i].output, i + 1, p[i + 1].end, p[i + 1].kind = "one", f.jobs[i].route)
  BY RunGrows DEF JobIsSound
<1>3. QED
  BY <1>1, <1>2 DEF JobIsSound

\* What is visible does not change what a level already shows.
LEMMA NothingToMark ==
  ASSUME NEW f, NEW p, IsLaidOut(f, p), NEW i \in Level
  PROVE  /\ \A s \in Slots : Marked(f.slots[i][s], Ends(Shows(p[i]))) = f.slots[i][s]
         /\ Noticed(f.last[i], Ends(Shows(p[i]))) = f.last[i]
<1> DEFINE q == p[i]
           above == p[i + 1]
           E == Ends(Shows(q))
<1>1. /\ q \in Places /\ above \in Places
      /\ RunsAreSound(f.objects, q, above, i) /\ SlotsAreSound(f, i, q, above) /\ LastIsSound(f, i, q)
      /\ RunMass[i] \in Nat \ {0}
  BY LevelAt
<1>2. /\ q.kind \in Kinds /\ q.a \in Slots /\ q.b \in Slots /\ q.c \in Slots
      /\ q.into \in Route /\ q.before \in Route /\ q.end \in Nat /\ q.seen \in BOOLEAN
      /\ above.end \in Nat
  BY <1>1, PlaceType
<1>3. Null \notin E /\ E \subseteq Ends(q.into) \cup Ends(q.before)
  BY DEF Ends, Shows
\* A slot whose merge has produced a run holds none that a reader comes to.
<1>4. ASSUME Reserved(f, i)
      PROVE  f.jobs[i - 1].output \notin E
  <2> DEFINE id == f.jobs[i - 1].output
  <2>1. q.kind \in {"none", "one", "done"} /\ (id = Null \/ IsRun(f.objects, id, i, q.end, q.kind = "one", f.jobs[i - 1].route))
    BY <1>4, ReservedIs
  <2> HIDE DEF id
  <2>2. CASE id = Null
    BY <2>2, <1>3 DEF id
  <2>3. CASE q.kind = "none"
    BY <2>3, <1>1, <1>3 DEF RunsAreSound, IsBare, Ends, Nowhere
  <2>4. CASE q.kind = "one" /\ id # Null
    <3>1. f.objects[id].secondary = TRUE
      BY <2>1, <2>4 DEF IsRun
    <3>2. E \subseteq {q.into.main} /\ f.objects[q.into.main].secondary = FALSE
      BY <2>4, <1>1, <1>3 DEF RunsAreSound, OneRun, IsRun, Ends, Nowhere
    <3>3. QED
      BY <3>1, <3>2 DEF id
  <2>5. CASE q.kind = "done" /\ id # Null
    <3>1. f.objects[id].secondary = FALSE /\ f.objects[id].first = q.end
      BY <2>1, <2>5 DEF IsRun
    <3>2. /\ E \subseteq {q.into.main, q.into.secondary}
          /\ f.objects[q.into.secondary].secondary = TRUE
          /\ f.objects[q.into.main].first = q.end - 2 * RunMass[i]
      BY SMTT(20), <2>5, <1>1, <1>3 DEF RunsAreSound, DoneRuns, IsRun, Ends, Nowhere
    <3>3. f.objects[q.into.main].first # q.end
      BY <3>2, <1>1, <1>2
    <3>4. QED
      BY <3>1, <3>2, <3>3 DEF id
  <2>6. QED
    BY <2>1, <2>2, <2>3, <2>4, <2>5 DEF id
<1> HIDE DEF E, q, above
<1>5. ASSUME NEW s \in Slots
      PROVE  LET x == f.slots[i][s] IN
             (x.object \in E => x.ever_visible) /\ (x.state = "consumed" /\ x.ever_visible => x.object \in E)
  <2> DEFINE x == f.slots[i][s]
  <2>1. s = q.a \/ s = q.b \/ s = q.c
    BY <1>1, SlotIs
  <2>2. ASSUME NEW idle, idle.object = Null, idle.state # "consumed", x = Waiting(f, i, idle)
        PROVE  x.object \notin E /\ x.state # "consumed"
    BY <2>2, <1>3, <1>4 DEF Waiting
  <2>3. Empty.object = Null /\ Empty.state = "empty"
    BY DEF Empty
  <2>4. \A state, id, route : Carrier(state, id, route).object = id /\ Carrier(state, id, route).state = state
    BY DEF Carrier
  <2> HIDE DEF x
  <2>5. CASE q.kind = "none"
    <3>1. x = Waiting(f, i, Empty) \/ x = Empty
      BY <2>1, <2>5, <1>1 DEF SlotsAreSound, SlotsAre, x
    <3>2. QED
      BY <3>1, <2>2, <2>3, <1>3 DEF x
  <2>6. CASE q.kind = "one"
    <3>1. x = Waiting(f, i, Empty) \/ x = Empty \/ x = Keeping("active", q.into.main, q.seen)
      BY <2>1, <2>6, <1>1 DEF SlotsAreSound, SlotsAre, x
    <3>2. CASE x = Waiting(f, i, Empty) \/ x = Empty
      BY <3>2, <2>2, <2>3, <1>3 DEF x
    <3>3. CASE x = Keeping("active", q.into.main, q.seen)
      <4>1. x.object = q.into.main /\ x.state = "active" /\ x.ever_visible = q.seen
        BY <3>3 DEF Keeping
      <4>2. ~q.seen => E = {}
        BY <2>6, <1>1 DEF RunsAreSound, OneRun, E, Shows, Ends, Nowhere
      <4>3. QED
        BY <4>1, <4>2 DEF x
    <3>4. QED
      BY <3>1, <3>2, <3>3
  <2>7. CASE q.kind = "fresh"
    <3>1. E = {q.before.main, q.before.secondary} /\ q.into.main \notin E
      <4>1. 0 \notin DOMAIN f.objects
        BY StackOf
      <4>2. /\ q.before.main \in DOMAIN f.objects /\ q.before.secondary \in DOMAIN f.objects
            /\ ~f.objects[q.into.main].secondary /\ f.objects[q.before.secondary].secondary
            /\ f.objects[q.into.main].first = above.end
            /\ f.objects[q.before.main].first = above.end - 2 * RunMass[i] /\ ~q.seen
        BY <2>7, <1>1 DEF RunsAreSound, FreshRun, IsRun
      <4>3. f.objects[q.into.main].first # f.objects[q.before.main].first
        BY <4>2, <1>1, <1>2
      <4>4. E = {q.before.main, q.before.secondary}
        BY <4>1, <4>2 DEF E, Shows, Ends, Null
      <4>5. QED
        BY <4>2, <4>3, <4>4
    <3>2. \/ x.object = q.into.main /\ x.state = "active"
          \/ x.object \in {q.before.main, q.before.secondary} /\ x.state = "consumed" /\ x.ever_visible
      BY <2>1, <2>7, <1>1 DEF SlotsAreSound, SlotsAre, Keeping, x
    <3>3. QED
      BY <3>1, <3>2 DEF x
  <2>8. CASE q.kind = "two" \/ q.kind = "done"
    <3>1. /\ q.into.main \in E /\ q.into.main # q.into.secondary
          /\ q.into.secondary \in E <=> q.seen
      <4>1. 0 \notin DOMAIN f.objects
        BY StackOf
      <4>2. /\ q.into.main \in DOMAIN f.objects /\ q.into.secondary \in DOMAIN f.objects
            /\ ~f.objects[q.into.main].secondary /\ f.objects[q.into.secondary].secondary
            /\ q.before = [main |-> q.into.main, secondary |-> Null]
        BY <2>8, <1>1 DEF RunsAreSound, TwoRuns, DoneRuns, IsRun
      <4>3. Shows(q).main = q.into.main /\ Shows(q).secondary = IF q.seen THEN q.into.secondary ELSE Null
        BY <4>2 DEF Shows
      <4>4. QED
        BY <4>1, <4>2, <4>3 DEF E, Ends, Null
    <3>2. \/ x.object = q.into.main /\ x.ever_visible
          \/ x.object = q.into.secondary /\ x.ever_visible = q.seen
          \/ x = Empty \/ x = Holding("carrier_building", Null)
          \/ x = Waiting(f, i, Carrier("carrier_ready", Null, above.into))
      BY <2>1, <2>8, <1>1 DEF SlotsAreSound, SlotsAre, Keeping, x
    <3>3. CASE x = Empty \/ x = Holding("carrier_building", Null)
      BY <3>3, <2>3, <2>4, <1>3 DEF x, Holding
    <3>4. CASE x = Waiting(f, i, Carrier("carrier_ready", Null, above.into))
      BY <3>4, <2>2, <2>4 DEF x
    <3>5. QED
      BY <3>1, <3>2, <3>3, <3>4 DEF x
  <2>9. CASE q.kind = "root"
    <3>1. x = Empty \/ (x.state = "root_carrier" /\ x.ever_visible)
      BY <2>1, <2>9, <1>1 DEF SlotsAreSound, SlotsAre, Rooting, x
    <3>2. QED
      BY <3>1, <2>3, <1>3 DEF x
  <2>10. QED
    BY <2>5, <2>6, <2>7, <2>8, <2>9, <1>2 DEF Kinds
<1>6. \A s \in Slots : Marked(f.slots[i][s], E) = f.slots[i][s]
  <2> TAKE s \in Slots
  <2> DEFINE x == f.slots[i][s]
  <2>1. x \in Slot /\ (x.object \in E => x.ever_visible) /\ (x.state = "consumed" /\ x.ever_visible => x.object \in E)
    BY <1>5, StackOf
  <2> HIDE DEF x
  <2>2. Marked(x, E) = x
    BY <2>1 DEF Marked, Slot
  <2>3. QED
    BY <2>2 DEF x
<1>7. Noticed(f.last[i], E) = f.last[i]
  <2> DEFINE l == f.last[i]
  <2>1. l \in [identity : Nat, visible : BOOLEAN] /\ l.identity \in {Null, Newest(q)}
        /\ (q.seen <=> l.identity = Null \/ l.visible)
    BY <1>1, StackOf DEF LastIsSound
  <2> HIDE DEF l
  <2>2. ASSUME l.identity \in E PROVE l.visible
    <3>1. l.identity = Newest(q) /\ l.identity # Null
      BY <2>1, <2>2, <1>3
    <3>2. ASSUME ~q.seen PROVE FALSE
      <4>0. 0 \notin DOMAIN f.objects
        BY StackOf
      <4>1. CASE q.kind = "one"
        <5>1. E = {}
          BY <3>2, <4>1, <1>1 DEF RunsAreSound, OneRun, E, Shows, Ends, Nowhere
        <5>2. QED
          BY <5>1, <2>2
      <4>2. CASE q.kind = "fresh"
        <5>1. /\ E \subseteq {q.before.main, q.before.secondary} /\ l.identity = q.into.main
              /\ ~f.objects[q.into.main].secondary /\ f.objects[q.before.secondary].secondary
              /\ f.objects[q.into.main].first = above.end
              /\ f.objects[q.before.main].first = above.end - 2 * RunMass[i]
          BY <3>1, <3>2, <4>2, <1>1 DEF RunsAreSound, FreshRun, IsRun, E, Shows, Ends, Newest
        <5>2. f.objects[q.into.main].first # f.objects[q.before.main].first
          BY <5>1, <1>1, <1>2
        <5>3. QED
          BY <5>1, <5>2, <2>2
      <4>3. CASE q.kind = "two" \/ q.kind = "done"
        <5>1. /\ E = {q.into.main} \ {Null} /\ l.identity = q.into.secondary
              /\ ~f.objects[q.into.main].secondary /\ f.objects[q.into.secondary].secondary
          BY <3>1, <3>2, <4>3, <1>1 DEF RunsAreSound, TwoRuns, DoneRuns, IsRun, E, Shows, Ends, Newest
        <5>2. QED
          BY <5>1, <2>2
      <4>4. CASE q.kind = "none" \/ q.kind = "root"
        BY <4>4, <3>1 DEF Newest
      <4>5. QED
        BY <4>1, <4>2, <4>3, <4>4, <1>2 DEF Kinds
    <3>3. QED
      BY <3>1, <3>2, <2>1
  <2>3. Noticed(l, E) = l
    BY <2>1, <2>2 DEF Noticed
  <2>4. QED
    BY <2>3 DEF l
<1>8. QED
  BY <1>6, <1>7 DEF E, q

\* Every identity in the names of a frontier is of its own level.
LEMMA HomeNames ==
  ASSUME NEW f, NEW p, IsLaidOut(f, p)
  PROVE  NamesAreHome(f)
<1>1. ASSUME NEW i \in Level, NEW s \in Slots
      PROVE  \/ f.slots[i][s].object = Null
             \/ f.slots[i][s].object \in DOMAIN f.objects /\ f.objects[f.slots[i][s].object].level = i
  <2> DEFINE q == p[i]
             above == p[i + 1]
             x == f.slots[i][s]
             Home(id) == id = Null \/ (id \in DOMAIN f.objects /\ f.objects[id].level = i)
  <2>1. /\ q \in Places /\ q.kind \in Kinds /\ RunsAreSound(f.objects, q, above, i) /\ SlotsAreSound(f, i, q, above)
        /\ s = q.a \/ s = q.b \/ s = q.c
    BY LevelAt, SlotIs, PlaceType
  <2>2. Reserved(f, i) => Home(f.jobs[i - 1].output)
    BY ReservedIs DEF IsRun
  <2>3. /\ q.kind \notin {"none", "root"} => Home(q.into.main) /\ Home(q.into.secondary)
        /\ q.kind = "fresh" => Home(q.before.main) /\ Home(q.before.secondary)
        /\ q.kind = "root" => Home(q.into.main)
    BY <2>1 DEF RunsAreSound, OneRun, FreshRun, TwoRuns, DoneRuns, RootRun, IsRun, Kinds
  <2>4. /\ Home(Null) /\ Empty.object = Null
        /\ \A state, id, route : Carrier(state, id, route).object = id
    BY DEF Carrier, Empty
  <2>5. ASSUME NEW idle, idle.object = Null, x = Waiting(f, i, idle) PROVE Home(x.object)
    BY <2>2, <2>4, <2>5 DEF Waiting
  <2> HIDE DEF x, Home, q, above
  <2>6. ASSUME q.kind = "none" PROVE Home(x.object)
    BY <2>1, <2>4, <2>5, <2>6 DEF SlotsAreSound, SlotsAre, x
  <2>7. ASSUME q.kind = "one" PROVE Home(x.object)
    <3>1. x = Waiting(f, i, Empty) \/ x = Empty \/ x.object = q.into.main
      BY <2>1, <2>7 DEF SlotsAreSound, SlotsAre, Keeping, x
    <3>2. QED
      BY <3>1, <2>3, <2>4, <2>5, <2>7
  <2>8. ASSUME q.kind = "fresh" PROVE Home(x.object)
    <3>1. x.object = q.into.main \/ x.object = q.before.main \/ x.object = q.before.secondary
      BY <2>1, <2>8 DEF SlotsAreSound, SlotsAre, Keeping, x
    <3>2. QED
      BY <3>1, <2>3, <2>8
  <2>9. ASSUME q.kind \in {"two", "done"} PROVE Home(x.object)
    <3>1. \/ x.object = q.into.main \/ x.object = q.into.secondary \/ x = Empty
          \/ x = Holding("carrier_building", Null) \/ x = Waiting(f, i, Carrier("carrier_ready", Null, above.into))
      BY <2>1, <2>9 DEF SlotsAreSound, SlotsAre, Keeping, x
    <3>2. Holding("carrier_building", Null).object = Null /\ Carrier("carrier_ready", Null, above.into).object = Null
      BY DEF Holding, Carrier
    <3>3. QED
      BY <3>1, <3>2, <2>3, <2>4, <2>5, <2>9
  <2>10. ASSUME q.kind = "root" PROVE Home(x.object)
    <3>1. x = Empty \/ x.object = q.into.main
      BY <2>1, <2>10 DEF SlotsAreSound, SlotsAre, Rooting, x
    <3>2. QED
      BY <3>1, <2>3, <2>4, <2>10
  <2>11. Home(x.object)
    BY <2>1, <2>6, <2>7, <2>8, <2>9, <2>10 DEF Kinds
  <2>12. QED
    BY <2>11 DEF Home, x
<1>2. ASSUME NEW i \in Level
      PROVE  \/ f.last[i].identity = Null
             \/ f.last[i].identity \in DOMAIN f.objects /\ f.objects[f.last[i].identity].level = i
  <2>1. RunsAreSound(f.objects, p[i], p[i + 1], i) /\ f.last[i].identity \in {Null, Newest(p[i])}
    BY LevelAt DEF LastIsSound
  <2>2. QED
    BY <2>1 DEF Newest, RunsAreSound, OneRun, FreshRun, TwoRuns, DoneRuns, IsRun
<1>3. QED
  BY <1>1, <1>2 DEF NamesAreHome

\* Marking a slot does not make or undo a run.
LEMMA ShownUnsafe ==
  ASSUME NEW f, DOMAIN f = FrontierFields, f.slots \in [Level -> [Slots -> Slot]],
         NEW R, IsChain(f.objects, R), f.root = R[0], NamesAreHome(f)
  PROVE  Unsafe(Shown(f)) = Unsafe(f)
<1>1. Shown(f).jobs = f.jobs /\ Shown(f).slots = MarkedSlots(f, R)
  BY ShownIs
<1>2. \A i \in Level, s \in Slots : Marked(f.slots[i][s], Ends(R[i])).state = "active" <=> f.slots[i][s].state = "active"
  <2> TAKE i \in Level, s \in Slots
  <2> DEFINE x == f.slots[i][s]
  <2>1. x \in Slot
    OBVIOUS
  <2> HIDE DEF x
  <2>2. Marked(x, Ends(R[i])).state = "active" <=> x.state = "active"
    BY <2>1 DEF Marked, Slot, Empty
  <2>3. QED
    BY <2>2 DEF x
<1>3. \A i \in Level : In(Shown(f), i, "active") = In(f, i, "active")
  BY <1>1, <1>2 DEF In, MarkedSlots
<1>4. Working(Shown(f)) = Working(f)
  BY <1>1 DEF Working
<1>5. QED
  BY <1>3, <1>4 DEF Unsafe

\* A level after what is visible was marked: nothing changes when its slots,
\* its objects and the level above look the same.
LEMMA MarkedSame ==
  ASSUME NEW f, NEW p, IsLaidOut(f, p), NEW g, NEW i \in Level,
         g.slots[i] = [s \in Slots |-> Marked(f.slots[i][s], Ends(Shows(p[i])))],
         g.last[i] = Noticed(f.last[i], Ends(Shows(p[i])))
  PROVE  g.slots[i] = f.slots[i] /\ g.last[i] = f.last[i]
<1>1. f.slots[i] = [s \in Slots |-> f.slots[i][s]]
  BY StackOf
<1>2. [s \in Slots |-> Marked(f.slots[i][s], Ends(Shows(p[i])))] = [s \in Slots |-> f.slots[i][s]]
  BY NothingToMark
<1>3. QED
  BY <1>1, <1>2, NothingToMark

\* What service_budget offers.
LEMMA BitWidthIs ==
  ASSUME NEW n \in Nat, n <= MaxAdmissions
  PROVE  /\ BitWidth(n) \in 0..Levels /\ n < RunMass[BitWidth(n)]
         /\ BitWidth(n) = 0 \/ RunMass[BitWidth(n) - 1] <= n
<1> USE RuntimeAssumption
<1> DEFINE S == {w \in 0..Levels : n < RunMass[w]}
<1>1. Levels \in S
  <2>1. Levels - 1 \in Level /\ Levels - 1 \in 0..Levels /\ Levels \in 0..Levels /\ (Levels - 1) + 1 = Levels
    BY DEF Level
  <2>2. RunMass[Levels] = 2 * RunMass[Levels - 1] /\ RunMass[Levels - 1] \in Nat \ {0} /\ MaxAdmissions \in Nat
    BY SMTT(20), <2>1, RunMassIs
  <2>3. QED
    BY <2>1, <2>2
<1>2. PICK w \in S : \A v \in S : w <= v
  <2>1. S \subseteq Nat /\ S # {}
    BY <1>1
  <2>2. QED
    BY <2>1, LeastNatural
<1>3. w = 0 \/ RunMass[w - 1] <= n
  <2>1. CASE w # 0
    <3>1. w - 1 \in 0..Levels /\ w - 1 \notin S
      BY <1>2, <2>1
    <3>2. QED
      BY <3>1, RunMassIs
  <2>2. QED
    BY <2>1
<1>4. \E v \in 0..Levels : n < RunMass[v] /\ (v = 0 \/ RunMass[v - 1] <= n)
  BY <1>2, <1>3
<1>5. QED
  BY <1>4, Zenon DEF BitWidth

\* A budget is a number.
LEMMA BudgetType ==
  ASSUME NEW n \in Nat, n <= MaxAdmissions
  PROVE  service_budget(n) \in Nat
<1>1. BitWidth(n) + 2 \in Nat
  BY BitWidthIs, RuntimeAssumption
<1>2. HalfRate * LocalBound \in Nat
  BY RuntimeAssumption
<1>3. \A a, b \in Nat : a * b \in Nat /\ (a * b) \div 2 \in Nat
  <2>1. \A c \in Nat : c \div 2 \in Nat
    OBVIOUS
  <2>2. \A a, b \in Nat : a * b \in Nat
    OBVIOUS
  <2>3. QED
    BY <2>1, <2>2
<1> HIDE DEF BitWidth
<1>4. QED
  BY <1>1, <1>2, <1>3 DEF service_budget

\* A level that a step leaves alone stays sound.
LEMMA LevelStays ==
  ASSUME NEW f, NEW p, IsLaidOut(f, p), NEW g, NEW r, NEW i \in Level,
         Grown(f.objects, g.objects), r[i] = p[i], LooksAlike(p[i + 1], r[i + 1]),
         g.slots[i] = f.slots[i], g.last[i] = f.last[i],
         Reserved(g, i) <=> Reserved(f, i),
         Reserved(f, i) => g.jobs[i - 1].output = f.jobs[i - 1].output,
         i \in Working(g) <=> i \in Working(f), f.height <= g.height, g.height \in Nat
  PROVE  LevelIsSound(g, r, i)
<1>1. /\ RunsAreSound(f.objects, p[i], p[i + 1], i) /\ SlotsAreSound(f, i, p[i], p[i + 1])
      /\ LastIsSound(f, i, p[i]) /\ (i >= f.height => p[i].kind = "none") /\ f.height \in Nat
  BY LevelAt, StackOf
<1>2. RunsAreSound(g.objects, p[i], r[i + 1], i)
  BY <1>1, RunsStay
<1>3. SlotsAreSound(g, i, p[i], r[i + 1])
  BY <1>1, SlotsStay DEF LooksAlike
<1>4. LastIsSound(g, i, p[i])
  BY <1>1 DEF LastIsSound
<1>5. i >= g.height => p[i].kind = "none"
  BY <1>1 DEF Level
<1>6. QED
  BY <1>2, <1>3, <1>4, <1>5 DEF LevelIsSound

\* A level looks like itself.
LEMMA SameLooks ==
  ASSUME NEW q
  PROVE  LooksAlike(q, q)
  BY DEF LooksAlike

\* A set of numbers that is not empty has its minimum.
LEMMA MinIs ==
  ASSUME NEW S, S \subseteq Nat, S # {}
  PROVE  Min(S) \in S /\ \A x \in S : Min(S) <= x
<1>1. \E n \in S : \A m \in S : n <= m
  BY LeastNatural
<1>2. QED
  BY <1>1, Zenon DEF Min

\* first_slot finds a slot of the state asked for.
LEMMA FirstIs ==
  ASSUME NEW f, NEW i, NEW state, In(f, i, state) # {}
  PROVE  First(f, i, state) \in In(f, i, state)
<1>1. In(f, i, state) \subseteq Nat
  BY DEF In, Slots
<1>2. QED
  BY <1>1, MinIs DEF First

\* note_visible keeps the types.
LEMMA ShownTyped ==
  ASSUME NEW f, IsTyped(f), NEW R, IsChain(f.objects, R), f.root = R[0], NamesAreHome(f)
  PROVE  IsTyped(Shown(f))
<1>1. /\ DOMAIN Shown(f) = FrontierFields
      /\ Shown(f).admissions = f.admissions /\ Shown(f).service_due = f.service_due
      /\ Shown(f).height = f.height /\ Shown(f).objects = f.objects
      /\ Shown(f).root = f.root /\ Shown(f).jobs = f.jobs
      /\ Shown(f).slots = MarkedSlots(f, R) /\ Shown(f).last = NoticedLast(f, R)
  BY ShownIs DEF IsTyped
<1>2. \A E : \A x \in Slot : Marked(x, E) \in Slot
  <2> TAKE E
  <2> TAKE x \in Slot
  <2>1. [x EXCEPT !.ever_visible = @ \/ x.object \in E] \in Slot
    BY DEF Slot
  <2>2. QED
    BY <2>1, SlotForms DEF Marked
<1>3. MarkedSlots(f, R) \in [Level -> [Slots -> Slot]]
  BY <1>2 DEF MarkedSlots, IsTyped, IsFrontier
<1>4. NoticedLast(f, R) \in [Level -> [identity : Nat, visible : BOOLEAN]]
  <2>1. \A E : \A l \in [identity : Nat, visible : BOOLEAN] :
         Noticed(l, E) \in [identity : Nat, visible : BOOLEAN]
    BY DEF Noticed
  <2>2. QED
    BY <2>1 DEF NoticedLast, IsTyped, IsFrontier
<1>5. QED
  BY <1>1, <1>3, <1>4 DEF IsTyped, IsFrontier
-----------------------------------------------------------------------------
(* admit *)

\* A record that is admitted takes a slot of level 0 and becomes reachable.
IsAdmitted(f, g, slot, run) ==
  /\ DOMAIN g = FrontierFields
  /\ g.admissions = f.admissions + 1 /\ g.height = f.height /\ g.jobs = f.jobs /\ g.last = f.last
  /\ g.objects = Append(f.objects, run)
  /\ g.slots = [f.slots EXCEPT ![0] = [f.slots[0] EXCEPT ![slot] = Holding("active", Len(f.objects) + 1)]]
  /\ g.service_due = IF Unsafe(g) = {} THEN 0 ELSE service_budget(g.admissions)

\* Admission puts a run of one record into level 0: beside the run there, or in
\* place of the root.
LEMMA AdmittedIs ==
  ASSUME NEW f, NEW p, IsWhole(f, p), 0 \notin Working(f), p[0].kind # "two"
  PROVE  \E slot \in Slots, run \in Object :
           /\ IsAdmitted(f, Admitted(f), slot, run)
           /\ run.first = p[0].end /\ run.last = p[0].end + 1 /\ run.level = 0
           /\ run.secondary <=> p[0].kind = "one"
           /\ run.next = IF p[0].kind = "one" THEN Nowhere ELSE p[1].into
           /\ IF p[0].kind = "one"
              THEN slot \in {p[0].b, p[0].c} /\ Admitted(f).root = [main |-> p[0].into.main, secondary |-> Len(f.objects) + 1]
              ELSE Admitted(f).root = [main |-> Len(f.objects) + 1, secondary |-> Null]
           /\ p[0].kind = "root" => slot = p[0].a
<1> DEFINE q == p[0]
           above == p[1]
           entries == In(f, 0, "active")
           carriers == In(f, 0, "root_carrier")
           id == Len(f.objects) + 1
           filled == entries = {} /\ carriers # {}
           slot == IF filled THEN Min(carriers) ELSE First(f, 0, "empty")
           run == [first |-> f.admissions, last |-> f.admissions + 1, level |-> 0,
                   secondary |-> entries # {},
                   next |-> IF filled THEN f.slots[0][slot].route ELSE Nowhere]
<1>1. /\ 0 \in Level /\ IsLaidOut(f, p) /\ q.kind \in {"none", "one", "root"} /\ f.admissions = q.end
      /\ f.root = q.into /\ ~Reserved(f, 0)
  BY RuntimeAssumption DEF IsWhole, Level, Reserved
<1>2. /\ q \in Places /\ above \in Places /\ SlotsAreSound(f, 0, q, above) /\ RunsAreSound(f.objects, q, above, 0)
      /\ q.a \in Slots /\ q.b \in Slots /\ q.c \in Slots /\ q.end \in Nat /\ above.into \in Route
      /\ f.objects \in Seq(Object) /\ f.slots \in [Level -> [Slots -> Slot]] /\ DOMAIN f = FrontierFields
      /\ f.admissions \in Nat
  <2>1. q \in Places /\ above \in Places /\ SlotsAreSound(f, 0, q, above) /\ RunsAreSound(f.objects, q, above, 0)
    BY <1>1, LevelAt
  <2>2. QED
    BY <2>1, <1>1, StackOf, PlaceType
<1>3. /\ entries = IF q.kind = "one" THEN {q.a} ELSE {}
      /\ carriers = IF q.kind = "root" THEN {q.a} ELSE {}
      /\ In(f, 0, "empty") = IF q.kind = "none" THEN Slots ELSE {q.b, q.c}
  <2>1. /\ entries = IF q.kind = "two" THEN {q.a, q.b} ELSE IF q.kind \in {"one", "fresh"} THEN {q.a} ELSE {}
        /\ carriers = IF q.kind = "root" THEN {q.a} ELSE {}
        /\ q.kind = "none" => In(f, 0, "empty") = Slots
        /\ q.kind = "one" => In(f, 0, "empty") = {q.b, q.c}
        /\ q.kind = "root" => In(f, 0, "empty") = {q.b, q.c}
    BY <1>1, InLevel
  <2>2. QED
    BY <2>1, <1>1
<1>4. /\ filled <=> q.kind = "root"
      /\ entries # {} <=> q.kind = "one"
  BY <1>1, <1>3
<1>5. /\ slot \in Slots
      /\ q.kind = "one" => slot \in {q.b, q.c}
      /\ q.kind = "root" => slot = q.a
  <2>1. CASE q.kind = "root"
    <3>1. carriers = {q.a} /\ carriers \subseteq Nat
      BY <1>2, <1>3, <2>1 DEF Slots
    <3>2. Min(carriers) = q.a
      BY <3>1, MinIs
    <3>3. QED
      BY <3>2, <2>1, <1>2, <1>4
  <2>2. CASE q.kind # "root"
    <3>1. First(f, 0, "empty") \in In(f, 0, "empty")
      BY <1>3, <1>2, FirstIs DEF Slots
    <3>2. QED
      BY <3>1, <2>2, <1>1, <1>2, <1>3, <1>4
  <2>3. QED
    BY <2>1, <2>2
<1>6. f.slots[0][slot].route = above.into \/ ~filled
  <2>1. CASE q.kind = "root"
    BY <2>1, <1>2, <1>5 DEF SlotsAreSound, SlotsAre, Rooting
  <2>2. QED
    BY <2>1, <1>4
<1>7. q.kind # "one" => IF filled THEN TRUE ELSE above.into = Nowhere
  <2>1. CASE q.kind = "none"
    <3>1. above.kind = "none" /\ 1 \in 0..Levels /\ IsStack(f.objects, p)
      BY <2>1, <1>1, <1>2, StackOf, RuntimeAssumption DEF RunsAreSound
    <3>2. QED
      BY <3>1, BareIs DEF IsBare
  <2>2. QED
    BY <2>1, <1>1, <1>4
<1> HIDE DEF slot, filled, entries, carriers
<1>8. run \in Object
  <2>1. (IF filled THEN f.slots[0][slot].route ELSE Nowhere) \in Route
    BY <1>2, <1>6 DEF Route, Nowhere, Null
  <2>2. QED
    BY <2>1, <1>1, <1>2 DEF Object
<1>9. /\ run.first = q.end /\ run.last = q.end + 1 /\ run.level = 0
      /\ run.secondary <=> q.kind = "one"
      /\ run.next = IF q.kind = "one" THEN Nowhere ELSE above.into
  BY <1>1, <1>4, <1>6, <1>7
<1> DEFINE g0 == [f EXCEPT
             !.admissions = @ + 1,
             !.objects = Append(@, run),
             !.slots[0][slot] = Holding("active", id),
             !.root = IF entries = {} THEN [main |-> id, secondary |-> Null]
                      ELSE [@ EXCEPT !.secondary = id]]
           due == IF Unsafe(g0) = {} THEN 0 ELSE service_budget(g0.admissions)
<1>10. Admitted(f) = [g0 EXCEPT !.service_due = due]
  BY DEF Admitted, slot, entries, carriers, filled
<1> HIDE DEF run
<1>11. /\ DOMAIN g0 = FrontierFields
       /\ g0.admissions = f.admissions + 1 /\ g0.height = f.height /\ g0.jobs = f.jobs /\ g0.last = f.last
       /\ g0.objects = Append(f.objects, run)
       /\ g0.slots = [f.slots EXCEPT ![0] = [f.slots[0] EXCEPT ![slot] = Holding("active", id)]]
       /\ g0.root = IF entries = {} THEN [main |-> id, secondary |-> Null] ELSE [f.root EXCEPT !.secondary = id]
  BY <1>2 DEF FrontierFields
<1> HIDE DEF g0, due
<1>12. /\ DOMAIN Admitted(f) = FrontierFields
       /\ Admitted(f).admissions = g0.admissions /\ Admitted(f).height = g0.height /\ Admitted(f).jobs = g0.jobs
       /\ Admitted(f).last = g0.last /\ Admitted(f).objects = g0.objects /\ Admitted(f).slots = g0.slots
       /\ Admitted(f).root = g0.root /\ Admitted(f).service_due = due
  BY <1>10, <1>11 DEF FrontierFields
<1>13. Unsafe(Admitted(f)) = Unsafe(g0)
  BY <1>12 DEF Unsafe, In, Working
<1>14. IsAdmitted(f, Admitted(f), slot, run)
  BY <1>11, <1>12, <1>13 DEF IsAdmitted, due
<1>15. IF q.kind = "one" THEN Admitted(f).root = [main |-> q.into.main, secondary |-> id]
       ELSE Admitted(f).root = [main |-> id, secondary |-> Null]
  <2>1. CASE q.kind = "one"
    <3>1. Admitted(f).root = [f.root EXCEPT !.secondary = id]
      BY <1>4, <1>11, <1>12, <2>1
    <3>2. f.root \in Route /\ f.root.main = q.into.main
      BY <1>1, StackOf
    <3>3. QED
      BY <3>1, <3>2, <2>1 DEF Route
  <2>2. CASE q.kind # "one"
    BY <1>4, <1>11, <1>12, <2>2
  <2>3. QED
    BY <2>1, <2>2
<1>16. QED
  BY <1>5, <1>8, <1>9, <1>14, <1>15

\* A frontier that admits a record and publishes it is whole again; only level 0
\* has changed.
LEMMA AdmissionLaysOut ==
  ASSUME NEW f, NEW p, IsWhole(f, p), f.admissions < MaxAdmissions, 0 \notin Working(f), p[0].kind # "two"
  PROVE  \E r : /\ IsWhole(Shown(Admitted(f)), r)
                /\ \A i \in 1..Levels : r[i] = p[i]
                /\ r[0].kind = IF p[0].kind = "one" THEN "two" ELSE "one"
                /\ r[0].end = p[0].end + 1
                /\ Shown(Admitted(f)).admissions = f.admissions + 1
                /\ Shown(Admitted(f)).jobs = f.jobs
                /\ Shown(Admitted(f)).service_due
                   = IF Unsafe(Shown(Admitted(f))) = {} THEN 0 ELSE service_budget(f.admissions + 1)
<1> DEFINE q == p[0]
           above == p[1]
           a == Admitted(f)
           id == Len(f.objects) + 1
<1>1. /\ 0 \in Level /\ 0 \in 0..Levels /\ 1 \in 0..Levels /\ IsLaidOut(f, p) /\ q.kind \in {"none", "one", "root"}
      /\ f.admissions = q.end /\ f.root = q.into /\ ~Reserved(f, 0) /\ f.last[0].identity = Null
      /\ MaxAdmissions \in Nat
  BY RuntimeAssumption, RunMassIs DEF IsWhole, Level, Reserved
<1>2. /\ q \in Places /\ above \in Places /\ SlotsAreSound(f, 0, q, above) /\ RunsAreSound(f.objects, q, above, 0)
      /\ LastIsSound(f, 0, q)
      /\ q.a \in Slots /\ q.b \in Slots /\ q.c \in Slots /\ q.a # q.b /\ q.a # q.c /\ q.b # q.c
      /\ q.end \in Nat /\ q.into \in Route /\ q.into.main \in Nat /\ above.end \in Nat
      /\ f.objects \in Seq(Object) /\ f.slots \in [Level -> [Slots -> Slot]] /\ DOMAIN f = FrontierFields
      /\ IsStack(f.objects, p) /\ IsTyped(f) /\ p \in [0..Levels -> Places] /\ IsBare(p[Levels])
      /\ f.height \in 1..Levels
  <2>1. q \in Places /\ above \in Places /\ SlotsAreSound(f, 0, q, above) /\ RunsAreSound(f.objects, q, above, 0) /\ LastIsSound(f, 0, q)
    BY <1>1, LevelAt
  <2>2. QED
    BY <2>1, <1>1, StackOf, PlaceType DEF IsLaidOut
<1>3. PICK slot \in Slots, run \in Object :
           /\ IsAdmitted(f, a, slot, run)
           /\ run.first = q.end /\ run.last = q.end + 1 /\ run.level = 0
           /\ run.secondary <=> q.kind = "one"
           /\ run.next = IF q.kind = "one" THEN Nowhere ELSE above.into
           /\ IF q.kind = "one"
              THEN slot \in {q.b, q.c} /\ a.root = [main |-> q.into.main, secondary |-> id]
              ELSE a.root = [main |-> id, secondary |-> Null]
           /\ q.kind = "root" => slot = q.a
  BY AdmittedIs
<1>4. /\ Grown(f.objects, a.objects) /\ id \in DOMAIN a.objects /\ a.objects[id] = run
      /\ id \in Nat /\ id # 0 /\ a.objects \in Seq(Object)
  <2>1. a.objects = Append(f.objects, run)
    BY <1>3 DEF IsAdmitted
  <2>2. QED
    BY <2>1, <1>2, GrownAppend DEF Grown
<1>5. /\ DOMAIN a = FrontierFields
      /\ a.admissions = f.admissions + 1 /\ a.height = f.height /\ a.jobs = f.jobs /\ a.last = f.last
      /\ a.slots = [f.slots EXCEPT ![0] = [f.slots[0] EXCEPT ![slot] = Holding("active", id)]]
      /\ a.service_due = IF Unsafe(a) = {} THEN 0 ELSE service_budget(a.admissions)
  BY <1>3 DEF IsAdmitted
<1> HIDE DEF a, id
<1>6. q.seen /\ above.seen /\ (q.kind # "one" => q.end = above.end) /\ (q.kind = "one" => q.end = above.end + 1)
  <2>1. q.seen
    BY <1>1, <1>2 DEF LastIsSound
  <2>2. CASE q.kind = "none"
    BY <2>1, <2>2, <1>1, <1>2, BareIs DEF RunsAreSound, IsBare
  <2>3. CASE q.kind = "one"
    BY <2>1, <2>3, <1>2, RunMassIs DEF RunsAreSound, OneRun
  <2>4. CASE q.kind = "root"
    BY <2>1, <2>4, <1>2 DEF RunsAreSound, RootRun
  <2>5. QED
    BY <1>1, <2>2, <2>3, <2>4
\* The place of level 0.
<1>7. PICK b, c \in Slots : /\ slot # b /\ slot # c /\ b # c
                            /\ q.kind = "one" => b = q.a
  <2>1. q.kind = "one" => slot # q.a
    BY <1>2, <1>3
  <2>2. \A x, y \in Slots : x # y => \E z \in Slots : z # x /\ z # y
    BY DEF Slots
  <2>3. \E x \in Slots : x # slot
    BY DEF Slots
  <2>4. QED
    BY <2>1, <2>2, <2>3, <1>2
<1> DEFINE second == [kind |-> "two", a |-> q.a, b |-> slot, c |-> c,
                      into |-> [main |-> q.into.main, secondary |-> id],
                      before |-> [main |-> q.into.main, secondary |-> Null], end |-> q.end + 1, seen |-> TRUE]
           first == [kind |-> "one", a |-> slot, b |-> b, c |-> c,
                     into |-> [main |-> id, secondary |-> Null],
                     before |-> Nowhere, end |-> q.end + 1, seen |-> TRUE]
           new == IF q.kind = "one" THEN second ELSE first
           r == [p EXCEPT ![0] = new]
<1>8. new \in Places /\ new.into = a.root /\ Shows(new) = a.root /\ new.seen /\ new.end = q.end + 1
  <2>1. ASSUME q.kind = "one"
        PROVE  second \in Places /\ second.into = a.root /\ second.seen /\ second.end = q.end + 1
    <3>1. slot # c /\ q.a # c /\ q.a # slot
      BY <2>1, <1>2, <1>3, <1>7
    <3>2. second.into \in Route /\ second.before \in Route
      BY <1>2, <1>4 DEF Route, Null
    <3>3. second \in Place
      BY <3>2, <1>2 DEF Place, Kinds
    <3>4. QED
      BY <3>1, <3>3, <2>1, <1>3 DEF Places
  <2>2. ASSUME q.kind # "one"
        PROVE  first \in Places /\ first.into = a.root /\ first.seen /\ first.end = q.end + 1
    <3>1. first.into \in Route /\ first.before \in Route
      BY <1>4 DEF Route, Nowhere, Null
    <3>2. first \in Place
      BY <3>1, <1>2 DEF Place, Kinds
    <3>3. QED
      BY <3>2, <2>2, <1>3, <1>7 DEF Places
  <2>3. QED
    BY <2>1, <2>2 DEF Shows
<1>9. RunsAreSound(a.objects, new, above, 0)
  <2>1. RunMass[0] = 1
    BY RunMassIs
  <2>2. CASE q.kind = "one"
    <3>1. OneRun(a.objects, q, above, 0)
      BY <2>2, <1>2, <1>4, RunsStay, SameLooks DEF RunsAreSound
    <3>2. IsRun(a.objects, id, 0, above.end + RunMass[0], TRUE, Nowhere)
      BY <2>1, <2>2, <1>3, <1>4, <1>6 DEF IsRun
    <3>3. TwoRuns(a.objects, second, above, 0)
      <4>1. IsRun(a.objects, q.into.main, 0, above.end, FALSE, above.into)
        BY <3>1 DEF OneRun
      <4>2. q.end + 1 = above.end + 2 * RunMass[0] /\ above.seen
        BY <2>1, <2>2, <1>2, <1>6
      <4>3. QED
        BY <4>1, <4>2, <3>2 DEF TwoRuns
    <3>4. QED
      BY <3>3, <2>2 DEF RunsAreSound
  <2>3. CASE q.kind # "one"
    <3>1. IsRun(a.objects, id, 0, above.end, FALSE, above.into)
      BY <2>1, <2>3, <1>3, <1>4, <1>6 DEF IsRun
    <3>2. OneRun(a.objects, first, above, 0)
      BY <3>1, <2>1, <2>3, <1>6 DEF OneRun, Nowhere
    <3>3. QED
      BY <3>2, <2>3 DEF RunsAreSound
  <2>4. QED
    BY <2>2, <2>3
<1>10. /\ r \in [0..Levels -> Places] /\ r[0] = new
       /\ \A i \in 1..Levels : r[i] = p[i]
  <2> HIDE DEF new
  <2>1. QED
    BY <1>2, <1>8, <1>1
<1> HIDE DEF r, new
<1>11. IsStack(a.objects, r)
  <2>1. IsBare(r[Levels])
    BY <1>2, <1>10, RuntimeAssumption
  <2>2. ASSUME NEW i \in Level PROVE RunsAreSound(a.objects, r[i], r[i + 1], i)
    <3>1. CASE i = 0
      BY <3>1, <1>9, <1>10, RuntimeAssumption
    <3>2. CASE i # 0
      <4>1. r[i] = p[i] /\ r[i + 1] = p[i + 1]
        BY <3>2, <1>10, RuntimeAssumption DEF Level
      <4>2. RunsAreSound(f.objects, p[i], p[i + 1], i)
        BY <1>1, LevelAt
      <4>3. QED
        BY <4>1, <4>2, <1>4, RunsStay, SameLooks
    <3>3. QED
      BY <3>1, <3>2
  <2>3. QED
    BY <2>1, <2>2, <1>10 DEF IsStack
<1> DEFINE R == ShownRoutes(r)
<1>12. IsChain(a.objects, R) /\ a.root = R[0]
  BY <1>4, <1>8, <1>10, <1>11, <1>1, StackChain DEF ShownRoutes
<1>13. \A i \in Level, s \in Slots :
         a.slots[i][s] = IF i = 0 /\ s = slot THEN Holding("active", id) ELSE f.slots[i][s]
  BY <1>2, <1>5, <1>1
<1>14. NamesAreHome(a)
  <2>1. NamesAreHome(f)
    BY <1>1, HomeNames
  <2>2. ASSUME NEW x, x \in DOMAIN f.objects PROVE x \in DOMAIN a.objects /\ a.objects[x] = f.objects[x]
    BY <1>4, <2>2 DEF Grown
  <2>3. Holding("active", id).object = id /\ a.objects[id].level = 0
    BY <1>3, <1>4 DEF Holding, Carrier
  <2>4. QED
    BY <2>1, <2>2, <2>3, <1>4, <1>5, <1>13 DEF NamesAreHome
<1>15. IsTyped(a)
  <2>1. Holding("active", id) \in Slot
    BY <1>4, SlotForms DEF Slot, States, Route
  <2>2. a.slots \in [Level -> [Slots -> Slot]]
    <3> DEFINE inner == [f.slots[0] EXCEPT ![slot] = Holding("active", id)]
    <3>1. inner \in [Slots -> Slot]
      BY <2>1, <1>1, <1>2
    <3> HIDE DEF inner
    <3>2. [f.slots EXCEPT ![0] = inner] \in [Level -> [Slots -> Slot]]
      BY <3>1, <1>1, <1>2
    <3>3. QED
      BY <3>2, <1>5 DEF inner
  <2>3. a.root \in Route /\ a.admissions \in Nat
    BY <1>2, <1>3, <1>4, <1>5, <1>1 DEF Route, Null
  <2>4. a.service_due \in Nat
    <3>1. service_budget(a.admissions) \in Nat
      BY <2>3, <1>5, <1>1, BudgetType, StackOf
    <3>2. QED
      BY <3>1, <1>5
  <2>5. QED
    BY <2>2, <2>3, <2>4, <1>2, <1>4, <1>5 DEF IsTyped, IsFrontier
<1> DEFINE g == Shown(a)
<1>16. /\ DOMAIN g = FrontierFields
       /\ g.admissions = a.admissions /\ g.service_due = a.service_due
       /\ g.height = a.height /\ g.objects = a.objects
       /\ g.root = a.root /\ g.jobs = a.jobs
       /\ g.slots = MarkedSlots(a, R) /\ g.last = NoticedLast(a, R)
  BY <1>5, <1>12, <1>14, ShownIs
<1>17. IsTyped(g) /\ Unsafe(g) = Unsafe(a)
  <2>1. a.slots \in [Level -> [Slots -> Slot]]
    BY <1>15 DEF IsTyped, IsFrontier
  <2>2. QED
    BY <2>1, <1>5, <1>15, <1>12, <1>14, ShownTyped, ShownUnsafe
<1> HIDE DEF g, R
<1>18. Working(g) = Working(f) /\ g.jobs = f.jobs /\ \A i : Reserved(g, i) <=> Reserved(f, i)
  BY <1>16, <1>5 DEF Working, Reserved
<1>19. ASSUME NEW i \in Level, i # 0 PROVE LevelIsSound(g, r, i)
  <2>1. r[i] = p[i] /\ r[i + 1] = p[i + 1] /\ R[i] = Shows(p[i])
    BY <1>19, <1>10, RuntimeAssumption DEF Level, R, ShownRoutes
  <2>2. /\ g.slots[i] = [s \in Slots |-> Marked(f.slots[i][s], Ends(Shows(p[i])))]
        /\ g.last[i] = Noticed(f.last[i], Ends(Shows(p[i])))
    BY <2>1, <1>5, <1>13, <1>16, <1>19 DEF MarkedSlots, NoticedLast
  <2>3. g.slots[i] = f.slots[i] /\ g.last[i] = f.last[i]
    BY <2>2, <1>1, MarkedSame
  <2>4. LooksAlike(p[i + 1], r[i + 1]) /\ Grown(f.objects, g.objects) /\ f.height <= g.height /\ g.height \in Nat
    BY <2>1, SameLooks, <1>2, <1>4, <1>5, <1>16
  <2>5. QED
    BY <2>1, <2>3, <2>4, <1>18, <1>1, LevelStays
<1>20. LevelIsSound(g, r, 0)
  <2> DEFINE E == Ends(new.into)
  <2>1. R[0] = new.into /\ r[0] = new /\ r[1] = above
    BY <1>8, <1>10, <1>1, RuntimeAssumption DEF R, ShownRoutes, Shows
  <2>2. \A s \in Slots : g.slots[0][s] = Marked(a.slots[0][s], E)
    BY <2>1, <1>1, <1>16 DEF MarkedSlots
  <2>3. g.last[0] = Noticed(f.last[0], E)
    BY <2>1, <1>1, <1>5, <1>16 DEF NoticedLast
  <2>4. RunsAreSound(g.objects, new, above, 0)
    BY <1>9, <1>16
  <2>5. id \in E /\ Null \notin E
    BY <1>3, <1>4, <1>8 DEF Ends, Null
  <2>6. Marked(Empty, E) = Empty /\ Marked(Holding("active", id), E) = Keeping("active", id, TRUE)
    <3>1. Marked(Empty, E) = Empty
      BY <2>5 DEF Marked, Empty, Null
    <3>2. Marked(Holding("active", id), E) = Keeping("active", id, TRUE)
      BY <2>5 DEF Marked, Holding, Carrier, Keeping
    <3>3. QED
      BY <3>1, <3>2
  <2>7. ~Reserved(g, 0)
    BY DEF Reserved
  <2> HIDE DEF E
  <2>8. SlotsAreSound(g, 0, new, above)
    <3>1. CASE q.kind = "one"
      <4>1. f.slots[0][q.a] = Keeping("active", q.into.main, q.seen) /\ f.slots[0][q.b] = Empty /\ f.slots[0][q.c] = Empty
        BY <3>1, <1>1, <1>2 DEF SlotsAreSound, SlotsAre, Waiting
      <4>2. q.into.main \in E
        <5>1. 0 \notin DOMAIN f.objects /\ q.into.main \in DOMAIN f.objects
          BY <1>2, <3>1 DEF RunsAreSound, OneRun, IsRun
        <5>2. QED
          BY <5>1, <3>1, <1>8, <1>3 DEF E, Ends, Null
      <4>3. a.slots[0][q.a] = Keeping("active", q.into.main, q.seen) /\ a.slots[0][slot] = Holding("active", id)
            /\ a.slots[0][c] = Empty
        <5>1. c \in {q.b, q.c} /\ c # slot /\ q.a # slot
          BY <1>2, <1>7, <3>1, SlotIs
        <5>2. QED
          BY <4>1, <5>1, <1>1, <1>2, <1>13
      <4>4. Marked(Keeping("active", q.into.main, q.seen), E) = Keeping("active", q.into.main, TRUE)
        BY <4>2 DEF Marked, Keeping
      <4>5. SlotsAre(g, 0, second, Keeping("active", q.into.main, TRUE), Keeping("active", id, TRUE), Empty)
        BY <4>3, <4>4, <2>2, <2>6, <1>2 DEF SlotsAre
      <4>6. 0 \notin Working(g)
        BY <1>18
      <4>7. QED
        BY <4>5, <4>6, <3>1 DEF SlotsAreSound, new
    <3>2. CASE q.kind # "one"
      <4>1. a.slots[0][slot] = Holding("active", id) /\ a.slots[0][b] = Empty /\ a.slots[0][c] = Empty
        <5>1. b # slot /\ c # slot
          BY <1>7
        <5>2. \A s \in Slots : s # slot => f.slots[0][s] = Empty
          <6>1. CASE q.kind = "none"
            BY <6>1, <1>2, SlotIs DEF SlotsAreSound, SlotsAre, Waiting, Reserved
          <6>2. CASE q.kind = "root"
            BY <6>2, <1>2, <1>3, SlotIs DEF SlotsAreSound, SlotsAre
          <6>3. QED
            BY <6>1, <6>2, <1>1, <3>2
        <5>3. QED
          BY <5>1, <5>2, <1>1, <1>7, <1>13
      <4>2. SlotsAre(g, 0, first, Keeping("active", id, TRUE), Empty, Empty)
        BY <4>1, <2>2, <2>6 DEF SlotsAre
      <4>3. QED
        BY <4>2, <3>2, <2>7 DEF SlotsAreSound, new, Waiting
    <3>3. QED
      BY <3>1, <3>2
  <2>9. g.last[0].identity = Null
    <3>1. f.last[0] \in [identity : Nat, visible : BOOLEAN]
      BY <1>1, StackOf
    <3>2. QED
      BY <3>1, <2>3, <1>1 DEF Noticed
  <2>10. LastIsSound(g, 0, new)
    BY <2>9, <1>8 DEF LastIsSound
  <2>11. ~(0 >= g.height)
    BY <1>2, <1>5, <1>16
  <2>12. QED
    BY <2>1, <2>4, <2>8, <2>10, <2>11 DEF LevelIsSound
<1>21. \A i \in Working(g) : JobIsSound(g, r, i)
  <2> TAKE i \in Working(g)
  <2>1. i \in Working(f) /\ i \in Level /\ i # 0 /\ JobIsSound(f, p, i)
    BY <1>18, <1>1, StackOf DEF IsLaidOut
  <2>2. i + 1 \in Level /\ i + 2 \in 0..Levels
    BY <2>1, RuntimeAssumption DEF JobIsSound, Level
  <2>3. r[i] = p[i] /\ r[i + 1] = p[i + 1] /\ r[i + 2] = p[i + 2]
    <3>1. i \in 1..Levels /\ i + 1 \in 1..Levels /\ i + 2 \in 1..Levels
      BY <2>1, <2>2, RuntimeAssumption DEF Level
    <3>2. QED
      BY <3>1, <1>10
  <2>4. Grown(f.objects, g.objects) /\ g.jobs[i] = f.jobs[i] /\ g.height = f.height /\ f.height \in Nat
    BY <1>2, <1>4, <1>5, <1>16
  <2>5. QED
    <3>1. f.height <= g.height /\ g.height \in Nat /\ p[i + 1].kind = "done" => r[i + 2].into = p[i + 2].into
      BY <2>3, <2>4
    <3> HIDE DEF Working
    <3>2. QED
      BY <3>1, <2>1, <2>3, <2>4, JobStays
<1>22. IsLaidOut(g, r)
  BY <1>10, <1>11, <1>17, <1>19, <1>20, <1>21 DEF IsLaidOut, IsStack
<1>23. g.last[0].identity = Null
  <2>1. f.last[0] \in [identity : Nat, visible : BOOLEAN] /\ g.last[0] = Noticed(f.last[0], Ends(R[0]))
    BY <1>1, <1>5, <1>16, StackOf DEF NoticedLast
  <2>2. QED
    BY <2>1, <1>1 DEF Noticed
<1>24. r[0].kind = IF q.kind = "one" THEN "two" ELSE "one"
  BY <1>10 DEF new
<1>25. IsWhole(g, r)
  BY <1>22, <1>23, <1>24, <1>16, <1>5, <1>8, <1>10, <1>1, <1>2 DEF IsWhole
<1>26. QED
  BY <1>25, <1>24, <1>10, <1>8, <1>16, <1>17, <1>5, <1>1 DEF g, a
-----------------------------------------------------------------------------
(* begin *)

\* Runs end later the lower their level.
LEMMA EndsGrow ==
  ASSUME NEW objects, NEW p, IsStack(objects, p)
  PROVE  /\ \A j \in Level : p[j + 1].end <= p[j].end
         /\ \A i, j \in 0..Levels : i <= j => p[j].end <= p[i].end
<1>1. ASSUME NEW j \in Level PROVE p[j + 1].end <= p[j].end
  <2>1. /\ RunsAreSound(objects, p[j], p[j + 1], j) /\ p[j].end \in Nat /\ p[j + 1].end \in Nat
        /\ p[j].kind \in Kinds /\ RunMass[j] \in Nat
    BY StackAt, PlaceType
  <2>2. CASE p[j].kind = "none"
    <3>1. IsBare(p[j]) /\ IsBare(p[j + 1])
      BY <2>1, <2>2, StackAt, BareIs DEF RunsAreSound
    <3>2. QED
      BY <3>1 DEF IsBare
  <2>3. CASE p[j].kind # "none"
    <3>1. \/ p[j].end = p[j + 1].end + RunMass[j] \/ p[j].end = p[j + 1].end + 2 * RunMass[j]
          \/ p[j].end = p[j + 1].end
      <4>1. \/ OneRun(objects, p[j], p[j + 1], j) \/ FreshRun(objects, p[j], p[j + 1], j)
            \/ TwoRuns(objects, p[j], p[j + 1], j) \/ DoneRuns(objects, p[j], p[j + 1], j)
            \/ RootRun(objects, p[j], p[j + 1], j)
        BY <2>1, <2>3 DEF RunsAreSound, Kinds
      <4>2. QED
        BY <4>1 DEF OneRun, FreshRun, TwoRuns, DoneRuns, RootRun
    <3>2. QED
      BY <3>1, <2>1
  <2>4. QED
    BY <2>2, <2>3
<1>2. ASSUME NEW i \in 0..Levels
      PROVE  \A j \in 0..Levels : i <= j => p[j].end <= p[i].end
  <2> DEFINE Bad == {n \in 0..Levels : ~(i <= n => p[n].end <= p[i].end)}
  <2>1. \A n \in 0..Levels : p[n].end \in Nat
    BY PlaceType DEF IsStack
  <2>2. 0 \notin Bad
    BY <2>1
  <2>3. ASSUME NEW n \in 1..Levels, n \in Bad PROVE n - 1 \in Bad
    <3>1. n - 1 \in Level /\ n - 1 \in 0..Levels /\ (n - 1) + 1 = n
      BY RuntimeAssumption DEF Level
    <3>2. p[n].end <= p[n - 1].end
      BY <3>1, <1>1
    <3>3. QED
      BY <2>3, <3>1, <3>2, <2>1
  <2>4. Bad = {}
    <3> HIDE DEF Bad
    <3>1. Bad \subseteq 0..Levels
      BY DEF Bad
    <3>2. QED
      BY <3>1, <2>2, <2>3, RuntimeAssumption, NoException
  <2>5. QED
    BY <2>4
<1>3. QED
  BY <1>1, <1>2

\* Above a level with two runs there is one that takes their merge.
LEMMA NextIsOpen ==
  ASSUME NEW f, NEW p, IsWhole(f, p), IsRegular(f, p), NEW i \in Level, p[i].kind = "two"
  PROVE  i + 1 \in Level /\ p[i + 1].kind \in {"none", "one", "done"} /\ p[i + 1].seen
<1> DEFINE above == p[i + 1]
<1>1. /\ IsStack(f.objects, p) /\ TwoRuns(f.objects, p[i], above, i)
      /\ RunMass[i] \in Nat \ {0} /\ RunMass[i + 1] = 2 * RunMass[i]
      /\ i + 1 \in 0..Levels /\ i \in 0..Levels /\ 0 \in 0..Levels
      /\ p[i].end \in Nat /\ above.end \in Nat /\ above.kind \in Kinds
  <2>1. IsLaidOut(f, p)
    BY DEF IsWhole
  <2>2. QED
    BY <2>1, StackOf, StackAt, PlaceType, RuntimeAssumption DEF RunsAreSound
<1>2. p[i].end <= f.admissions /\ f.admissions <= MaxAdmissions /\ f.admissions \in Nat
  <2>1. p[i].end <= p[0].end
    BY <1>1, EndsGrow DEF Level
  <2>2. QED
    BY <2>1, StackOf DEF IsWhole
<1>3. above.end + RunMass[i + 1] = p[i].end /\ above.seen
  BY <1>1 DEF TwoRuns
<1>4. i + 1 \in Level
  <2>1. SUFFICES ASSUME i + 1 = Levels PROVE FALSE
    BY RuntimeAssumption DEF Level
  <2>2. Levels - 1 = i /\ MaxAdmissions <= RunMass[i] /\ MaxAdmissions \in Nat
    BY <2>1, RuntimeAssumption, <1>1 DEF Level
  <2>3. QED
    BY <2>2, <1>1, <1>2, <1>3
<1>5. RunsAreSound(f.objects, above, p[i + 2], i + 1)
  <2>1. (i + 1) + 1 = i + 2
    BY DEF Level
  <2>2. QED
    BY <1>1, <1>4, <2>1, StackAt
<1>6. above.kind # "two"
  <2>1. SUFFICES ASSUME above.kind = "two" PROVE FALSE
    OBVIOUS
  <2>2. f.admissions - above.end < RunMass[i + 1]
    BY <2>1, <1>4 DEF IsRegular
  <2>3. QED
    BY <2>2, <1>1, <1>2, <1>3
<1>7. above.kind # "fresh" /\ above.kind # "root"
  BY <1>5, <1>3 DEF RunsAreSound, FreshRun, RootRun, Level
<1>8. QED
  BY <1>1, <1>3, <1>4, <1>6, <1>7 DEF Kinds

\* The runs of a level, and which of them comes first.
LEMMA TwoInOrder ==
  ASSUME NEW f, NEW p, IsLaidOut(f, p), NEW i \in Level, p[i].kind = "two"
  PROVE  /\ In(f, i, "active") = {p[i].a, p[i].b}
         /\ ActiveInOrder(f, i) = <<p[i].a, p[i].b>>
         /\ RunAt(f, i, p[i].a) = f.objects[p[i].into.main]
         /\ RunAt(f, i, p[i].b) = f.objects[p[i].into.secondary]
<1> DEFINE q == p[i]
           active == In(f, i, "active")
           Ordered(x) == x[1] # x[2] /\ RunAt(f, i, x[1]).first <= RunAt(f, i, x[2]).first
<1>1. /\ q \in Places /\ q.a # q.b /\ TwoRuns(f.objects, q, p[i + 1], i) /\ SlotsAreSound(f, i, q, p[i + 1])
      /\ RunMass[i] \in Nat \ {0} /\ p[i + 1].end \in Nat
  BY LevelAt, PlaceType DEF RunsAreSound
<1>2. active = {q.a, q.b}
  BY InLevel
<1>3. RunAt(f, i, q.a) = f.objects[q.into.main] /\ RunAt(f, i, q.b) = f.objects[q.into.secondary]
  BY <1>1 DEF SlotsAreSound, SlotsAre, Keeping, RunAt
<1>4. RunAt(f, i, q.a).first = p[i + 1].end /\ RunAt(f, i, q.b).first = p[i + 1].end + RunMass[i]
  BY <1>1, <1>3 DEF TwoRuns, IsRun
<1>5. <<q.a, q.b>> \in active \X active /\ Ordered(<<q.a, q.b>>)
  BY <1>1, <1>2, <1>4
<1>6. ASSUME NEW x \in active \X active, Ordered(x)
      PROVE  x = <<q.a, q.b>>
  <2>1. x = <<x[1], x[2]>> /\ x[1] \in {q.a, q.b} /\ x[2] \in {q.a, q.b}
    BY <1>2
  <2>2. ~(x[1] = q.b /\ x[2] = q.a)
    <3>1. SUFFICES ASSUME x[1] = q.b, x[2] = q.a PROVE FALSE
      OBVIOUS
    <3>2. RunAt(f, i, q.b).first <= RunAt(f, i, q.a).first
      BY <1>6, <3>1
    <3>3. QED
      BY <3>2, <1>1, <1>4
  <2>3. QED
    BY <1>6, <2>1, <2>2
<1>7. ActiveInOrder(f, i) = CHOOSE x \in active \X active : Ordered(x)
  BY DEF ActiveInOrder
<1> HIDE DEF Ordered, active
<1>8. QED
  <2>1. (CHOOSE x \in active \X active : Ordered(x)) = <<q.a, q.b>>
    BY <1>5, <1>6
  <2>2. QED
    BY <2>1, <1>2, <1>3, <1>7 DEF active
\* Places that differ in nothing but which of their empty slots comes first.
SamePlace(q, other) ==
  /\ other.kind = q.kind /\ other.into = q.into /\ other.before = q.before
  /\ other.end = q.end /\ other.seen = q.seen

\* Places that differ in the names of empty slots only are the same to every level.
LEMMA SamePlaceLooks ==
  ASSUME NEW q, NEW other, SamePlace(q, other)
  PROVE  /\ LooksAlike(q, other)
         /\ \A objects, above, i : RunsAreSound(objects, q, above, i) => RunsAreSound(objects, other, above, i)
         /\ \A f, i : LastIsSound(f, i, q) => LastIsSound(f, i, other)
         /\ SamePlace(q, q)
<1>1. LooksAlike(q, other) /\ SamePlace(q, q)
  BY DEF SamePlace, LooksAlike
<1>2. ASSUME NEW objects, NEW above, NEW i, RunsAreSound(objects, q, above, i)
      PROVE  RunsAreSound(objects, other, above, i)
  BY <1>2 DEF RunsAreSound, SamePlace, IsBare, OneRun, FreshRun, TwoRuns, DoneRuns, RootRun
<1>3. ASSUME NEW f, NEW i, LastIsSound(f, i, q)
      PROVE  LastIsSound(f, i, other)
  BY <1>3 DEF LastIsSound, SamePlace, Newest
<1>4. QED
  BY <1>1, <1>2, <1>3

\* The slot that begin takes.
Taken(f, i) == IF In(f, i, "carrier_ready") = {} THEN First(f, i, "empty") ELSE Min(In(f, i, "carrier_ready"))

\* The slot that a merge into a level takes can be called its vacancy.
LEMMA SlotToTake ==
  ASSUME NEW f, NEW p, IsLaidOut(f, p), NEW i \in Level, p[i].kind \in {"none", "one", "done"}, ~Reserved(f, i)
  PROVE  \E q \in Places :
           /\ SamePlace(p[i], q) /\ Vacancy(q) = Taken(f, i) /\ Taken(f, i) \in Slots
           /\ q.kind = "none" => SlotsAre(f, i, q, Empty, Empty, Empty)
           /\ q.kind = "one" => SlotsAre(f, i, q, Keeping("active", q.into.main, q.seen), Empty, Empty)
           /\ q.kind = "done" => SlotsAre(f, i, q, Keeping("consumed", q.into.main, TRUE),
                                 Keeping("consumed", q.into.secondary, q.seen),
                                 Carrier("carrier_ready", Null, p[i + 1].into))
           /\ In(f, i, "carrier_ready") = IF q.kind = "done" THEN {Taken(f, i)} ELSE {}
           /\ In(f, i, "active") = IF q.kind = "one" THEN {q.a} ELSE {}
<1> DEFINE q == p[i]
           ready == In(f, i, "carrier_ready")
           empty == In(f, i, "empty")
           d == Taken(f, i)
<1>0. d = IF ready = {} THEN First(f, i, "empty") ELSE Min(ready)
  BY DEF Taken
<1> HIDE DEF d
<1>1. /\ q \in Places /\ SlotsAreSound(f, i, q, p[i + 1])
      /\ q.a \in Slots /\ q.b \in Slots /\ q.c \in Slots /\ q.a # q.b /\ q.a # q.c /\ q.b # q.c
      /\ q \in Place
  BY LevelAt, PlaceType DEF Places
<1>2. /\ ready = IF q.kind = "done" THEN {q.c} ELSE {}
      /\ In(f, i, "active") = IF q.kind = "one" THEN {q.a} ELSE {}
      /\ q.kind = "none" => empty = Slots
      /\ q.kind = "one" => empty = {q.b, q.c}
  BY InLevel
<1>3. \A idle : Waiting(f, i, idle) = idle
  BY DEF Waiting
<1>4. CASE q.kind = "done"
  <2>1. d = q.c
    <3>1. Min({q.c}) = q.c
      <4>1. {q.c} \subseteq Nat /\ {q.c} # {}
        BY <1>1 DEF Slots
      <4>2. Min({q.c}) \in {q.c}
        BY <4>1, MinIs
      <4>3. QED
        BY <4>2
    <3>2. QED
      BY <3>1, <1>0, <1>2, <1>4
  <2>2. SlotsAre(f, i, q, Keeping("consumed", q.into.main, TRUE), Keeping("consumed", q.into.secondary, q.seen),
                 Carrier("carrier_ready", Null, p[i + 1].into))
    BY <1>1, <1>3, <1>4 DEF SlotsAreSound, SlotsAre
  <2>3. QED
    BY <2>1, <2>2, <1>1, <1>2, <1>4 DEF Vacancy, SamePlace, d
<1>5. CASE q.kind = "one"
  <2>1. d \in {q.b, q.c}
    <3>1. First(f, i, "empty") \in empty
      BY <1>2, <1>5, FirstIs
    <3>2. QED
      BY <3>1, <1>0, <1>2, <1>5
  <2>2. PICK z \in {q.b, q.c} : z # d
    BY <1>1
  <2> DEFINE new == [kind |-> q.kind, a |-> q.a, b |-> d, c |-> z, into |-> q.into, before |-> q.before,
                     end |-> q.end, seen |-> q.seen]
  <2>3. new \in Places
    BY <1>1, <2>1, <2>2 DEF Places, Place
  <2>4. SlotsAre(f, i, q, Keeping("active", q.into.main, q.seen), Empty, Empty)
    BY <1>1, <1>3, <1>5 DEF SlotsAreSound, SlotsAre
  <2>5. SlotsAre(f, i, new, Keeping("active", q.into.main, q.seen), Empty, Empty)
    BY <2>1, <2>2, <2>4 DEF SlotsAre
  <2>6. SamePlace(q, new) /\ Vacancy(new) = d /\ d \in Slots
    BY <1>1, <1>5, <2>1 DEF SamePlace, Vacancy
  <2>7. QED
    BY <2>3, <2>5, <2>6, <1>2, <1>5 DEF d
<1>6. CASE q.kind = "none"
  <2>1. d \in Slots
    <3>1. First(f, i, "empty") \in empty
      BY <1>1, <1>2, <1>6, FirstIs
    <3>2. QED
      BY <3>1, <1>0, <1>2, <1>6
  <2>2. PICK y, z \in Slots : y # d /\ z # d /\ y # z
    BY <2>1 DEF Slots
  <2> DEFINE new == [kind |-> q.kind, a |-> d, b |-> y, c |-> z, into |-> q.into, before |-> q.before,
                     end |-> q.end, seen |-> q.seen]
  <2>3. new \in Places
    BY <1>1, <2>1, <2>2 DEF Places, Place
  <2>4. \A s \in Slots : f.slots[i][s] = Empty
    BY <1>1, <1>3, <1>6, SlotIs DEF SlotsAreSound, SlotsAre
  <2>5. SlotsAre(f, i, new, Empty, Empty, Empty)
    BY <2>1, <2>2, <2>4 DEF SlotsAre
  <2>6. SamePlace(q, new) /\ Vacancy(new) = d
    BY <1>6 DEF SamePlace, Vacancy
  <2>7. QED
    BY <2>1, <2>3, <2>5, <2>6, <1>2, <1>6 DEF d
<1>7. QED
  BY <1>4, <1>5, <1>6

\* A merge begins: it has a slot for its carrier, and one above for its run.
NewJob(p, i, q) ==
  [inputs |-> <<p[i].a, p[i].b>>, destination |-> Vacancy(q), carrier_slot |-> p[i].c,
   new_main |-> q.kind # "one",
   route |-> IF q.kind = "done" THEN p[i + 2].into ELSE Nowhere,
   existing_main |-> IF q.kind = "one" THEN q.into.main ELSE Null,
   output |-> Null, stage |-> "native_merge"]

IsBegun(f, p, g, i, q) ==
  /\ DOMAIN g = FrontierFields
  /\ g.admissions = f.admissions /\ g.service_due = f.service_due /\ g.objects = f.objects
  /\ g.root = f.root /\ g.last = f.last
  /\ g.height = IF i + 1 = f.height THEN f.height + 1 ELSE f.height
  /\ g.jobs = Put(f.jobs, i, NewJob(p, i, q))
  /\ \A j \in Level, s \in Slots :
       g.slots[j][s] = IF j = i /\ s = p[i].c THEN Holding("carrier_building", Null)
                       ELSE IF j = i + 1 /\ s = Vacancy(q) THEN [f.slots[j][s] EXCEPT !.state = "reserved"]
                       ELSE f.slots[j][s]
  /\ g.slots \in [Level -> [Slots -> Slot]]

\* A merge that starts reserves a slot above, and one for its carrier.
LEMMA BegunIs ==
  ASSUME NEW f, NEW p, IsLaidOut(f, p), NEW i \in Level, p[i].kind = "two", i \notin Working(f),
         i + 1 \in Level, p[i + 1].kind \in {"none", "one", "done"}
  PROVE  \E q \in Places :
           /\ SamePlace(p[i + 1], q) /\ IsBegun(f, p, Begun(f, i), i, q)
           /\ q.kind = "none" => SlotsAre(f, i + 1, q, Empty, Empty, Empty)
           /\ q.kind = "one" => SlotsAre(f, i + 1, q, Keeping("active", q.into.main, q.seen), Empty, Empty)
           /\ q.kind = "done" => SlotsAre(f, i + 1, q, Keeping("consumed", q.into.main, TRUE),
                                 Keeping("consumed", q.into.secondary, q.seen),
                                 Carrier("carrier_ready", Null, p[(i + 1) + 1].into))
<1> DEFINE inputs == ActiveInOrder(f, i)
           carriers == In(f, i + 1, "carrier_ready")
           present == In(f, i + 1, "active")
           destination == Taken(f, i + 1)
<1>1. ~Reserved(f, i + 1) /\ (i + 1) + 1 = i + 2 /\ i \in Nat
  BY DEF Reserved, Level
<1>2. PICK q \in Places :
           /\ SamePlace(p[i + 1], q) /\ Vacancy(q) = destination /\ destination \in Slots
           /\ q.kind = "none" => SlotsAre(f, i + 1, q, Empty, Empty, Empty)
           /\ q.kind = "one" => SlotsAre(f, i + 1, q, Keeping("active", q.into.main, q.seen), Empty, Empty)
           /\ q.kind = "done" => SlotsAre(f, i + 1, q, Keeping("consumed", q.into.main, TRUE),
                                 Keeping("consumed", q.into.secondary, q.seen),
                                 Carrier("carrier_ready", Null, p[(i + 1) + 1].into))
           /\ carriers = IF q.kind = "done" THEN {destination} ELSE {}
           /\ present = IF q.kind = "one" THEN {q.a} ELSE {}
  BY <1>1, SlotToTake, Zenon
<1>3. inputs = <<p[i].a, p[i].b>> /\ First(f, i, "empty") = p[i].c /\ p[i].c \in Slots
  <2>1. In(f, i, "empty") = {p[i].c}
    BY InLevel
  <2>2. First(f, i, "empty") \in {p[i].c}
    BY <2>1, FirstIs
  <2>3. QED
    BY <2>2, TwoInOrder, LevelAt, PlaceType
<1>4. carriers # {} \/ present = {} <=> q.kind # "one"
  BY <1>2
<1>5. (IF carriers = {} THEN Nowhere ELSE f.slots[i + 1][destination].route)
      = IF q.kind = "done" THEN p[i + 2].into ELSE Nowhere
  <2>1. ASSUME q.kind = "done" PROVE f.slots[i + 1][destination].route = p[i + 2].into
    <3>1. f.slots[i + 1][destination] = Carrier("carrier_ready", Null, p[(i + 1) + 1].into)
      BY <2>1, <1>2 DEF SlotsAre, Vacancy
    <3>2. QED
      BY <3>1, <1>1 DEF Carrier
  <2>2. QED
    BY <2>1, <1>2
<1>6. (IF present = {} THEN Null ELSE f.slots[i + 1][Min(present)].object)
      = IF q.kind = "one" THEN q.into.main ELSE Null
  <2>1. ASSUME q.kind = "one" PROVE f.slots[i + 1][Min(present)].object = q.into.main
    <3>1. Min({q.a}) = q.a
      BY PlaceType, MinIs DEF Slots
    <3>2. f.slots[i + 1][q.a] = Keeping("active", q.into.main, q.seen)
      BY <2>1, <1>2 DEF SlotsAre
    <3>3. QED
      BY <3>1, <3>2, <2>1, <1>2 DEF Keeping
  <2>2. QED
    BY <2>1, <1>2
<1> DEFINE job == [inputs |-> inputs, destination |-> destination, carrier_slot |-> First(f, i, "empty"),
                   new_main |-> carriers # {} \/ present = {},
                   route |-> IF carriers = {} THEN Nowhere ELSE f.slots[i + 1][destination].route,
                   existing_main |-> IF present = {} THEN Null ELSE f.slots[i + 1][Min(present)].object,
                   output |-> Null, stage |-> "native_merge"]
           hold == Holding("carrier_building", Null)
           g == [f EXCEPT !.height = IF i + 1 = @ THEN @ + 1 ELSE @,
                          !.slots[i][job.carrier_slot] = hold,
                          !.slots[i + 1][destination].state = "reserved",
                          !.jobs = Put(@, i, job)]
<1>7. Begun(f, i) = g
  BY DEF Begun, Taken
<1>8. job = NewJob(p, i, q)
  <2>1. (carriers # {} \/ present = {}) = (q.kind # "one")
    BY <1>4
  <2> HIDE DEF inputs, carriers, present, destination
  <2>2. QED
    BY <2>1, <1>2, <1>3, <1>5, <1>6 DEF NewJob
<1>9. job.carrier_slot = p[i].c
  BY <1>3
<1> HIDE DEF job, destination
<1>10. /\ DOMAIN g = FrontierFields
       /\ g.admissions = f.admissions /\ g.service_due = f.service_due /\ g.objects = f.objects
       /\ g.root = f.root /\ g.last = f.last
       /\ g.height = IF i + 1 = f.height THEN f.height + 1 ELSE f.height
       /\ g.jobs = Put(f.jobs, i, job)
       /\ g.slots = [f.slots EXCEPT ![i][p[i].c] = hold, ![i + 1][destination].state = "reserved"]
  <2>1. DOMAIN f = FrontierFields
    BY StackOf
  <2> HIDE DEF hold
  <2>2. QED
    BY <2>1, <1>9 DEF FrontierFields
<1>11. /\ \A j \in Level, s \in Slots :
            g.slots[j][s] = IF j = i /\ s = p[i].c THEN Holding("carrier_building", Null)
                            ELSE IF j = i + 1 /\ s = destination THEN [f.slots[j][s] EXCEPT !.state = "reserved"]
                            ELSE f.slots[j][s]
       /\ g.slots \in [Level -> [Slots -> Slot]]
  <2> DEFINE taken == [f.slots[i + 1][destination] EXCEPT !.state = "reserved"]
             first == [f.slots EXCEPT ![i] = [f.slots[i] EXCEPT ![p[i].c] = hold]]
             second == [first EXCEPT ![i + 1] = [f.slots[i + 1] EXCEPT ![destination] = taken]]
  <2>1. f.slots \in [Level -> [Slots -> Slot]]
    BY StackOf
  <2>2. hold \in Slot /\ taken \in Slot
    <3>1. hold \in Slot
      BY SlotForms DEF Slot, States, Route, Null
    <3>2. f.slots[i + 1][destination] \in Slot
      BY <2>1, <1>2
    <3>3. QED
      BY <3>1, <3>2 DEF Slot, States
  <2> HIDE DEF hold, g
  <2>3. g.slots = second /\ i # i + 1
    BY <2>1, <1>1, <1>10
  <2> HIDE DEF taken
  <2>4. first \in [Level -> [Slots -> Slot]] /\ \A j \in Level : first[j] = IF j = i THEN [f.slots[i] EXCEPT ![p[i].c] = hold] ELSE f.slots[j]
    BY <2>1, <2>2, <1>3
  <2> HIDE DEF first
  <2>5. second \in [Level -> [Slots -> Slot]]
    BY <2>1, <2>2, <2>4, <1>2
  <2>6. \A j \in Level, s \in Slots : second[j][s] = IF j = i /\ s = p[i].c THEN hold
                                                     ELSE IF j = i + 1 /\ s = destination THEN taken
                                                     ELSE f.slots[j][s]
    BY <2>1, <2>3, <2>4, <1>2, <1>3
  <2> HIDE DEF second
  <2>7. QED
    BY <2>3, <2>5, <2>6 DEF hold, taken
<1>12. IsBegun(f, p, g, i, q)
  <2> HIDE DEF g
  <2>1. Vacancy(q) = destination
    BY <1>2
  <2>2. \A j \in Level, s \in Slots :
          g.slots[j][s] = IF j = i /\ s = p[i].c THEN Holding("carrier_building", Null)
                          ELSE IF j = i + 1 /\ s = Vacancy(q) THEN [f.slots[j][s] EXCEPT !.state = "reserved"]
                          ELSE f.slots[j][s]
    BY <2>1, <1>11, Zenon
  <2>3. g.jobs = Put(f.jobs, i, NewJob(p, i, q))
    BY <1>8, <1>10
  <2>4. QED
    BY <2>2, <2>3, <1>10, <1>11, Zenon DEF IsBegun
<1>13. QED
  BY <1>2, <1>7, <1>12
\* begin reserves a slot without looking at what else it says.
LEMMA ReservedForm ==
  ASSUME NEW x \in Slot
  PROVE  [x EXCEPT !.state = "reserved"]
         = [state |-> "reserved", object |-> x.object, route |-> x.route, ever_visible |-> x.ever_visible]
  BY DEF Slot

\* Once begun, the merge has its slots and the levels are what they were.
LEMMA BeginningLaysOut ==
  ASSUME NEW f, NEW p, IsWhole(f, p), NEW i \in Level, p[i].kind = "two", i \notin Working(f),
         i + 1 \in Level, p[i + 1].kind \in {"none", "one", "done"}
  PROVE  \E r : /\ IsWhole(Begun(f, i), r)
                /\ \A j \in 0..Levels : SamePlace(p[j], r[j])
                /\ Begun(f, i).admissions = f.admissions /\ Begun(f, i).service_due = f.service_due
                /\ Working(Begun(f, i)) = Working(f) \cup {i}
                /\ Begun(f, i).jobs[i].stage = "native_merge"
                /\ \A j \in Working(f) : Begun(f, i).jobs[j] = f.jobs[j]
<1> DEFINE g == Begun(f, i)
<1>0. IsLaidOut(f, p)
  BY DEF IsWhole
<1>1. /\ f.objects \in Seq(Object) /\ f.slots \in [Level -> [Slots -> Slot]] /\ DOMAIN f = FrontierFields
      /\ f.height \in 1..Levels /\ Working(f) \subseteq Level /\ f.jobs \in [Working(f) -> Job]
      /\ p \in [0..Levels -> Places] /\ IsBare(p[Levels]) /\ IsTyped(f)
      /\ i \in 0..Levels /\ i + 1 \in 0..Levels /\ (i + 1) + 1 \in 0..Levels /\ (i + 1) + 1 = i + 2 /\ i \in Nat
      /\ p[i] \in Places /\ p[i + 1] \in Places
  <2>1. i \in 0..Levels /\ i + 1 \in 0..Levels /\ (i + 1) + 1 \in 0..Levels /\ (i + 1) + 1 = i + 2 /\ i \in Nat
    BY RuntimeAssumption DEF Level
  <2>2. QED
    BY <2>1, <1>0, StackOf DEF IsLaidOut
<1>2. PICK q \in Places :
           /\ SamePlace(p[i + 1], q) /\ IsBegun(f, p, g, i, q)
           /\ q.kind = "none" => SlotsAre(f, i + 1, q, Empty, Empty, Empty)
           /\ q.kind = "one" => SlotsAre(f, i + 1, q, Keeping("active", q.into.main, q.seen), Empty, Empty)
           /\ q.kind = "done" => SlotsAre(f, i + 1, q, Keeping("consumed", q.into.main, TRUE),
                                 Keeping("consumed", q.into.secondary, q.seen),
                                 Carrier("carrier_ready", Null, p[(i + 1) + 1].into))
  BY <1>0, BegunIs, Zenon
<1> HIDE DEF g
<1>3. /\ DOMAIN g = FrontierFields
      /\ g.admissions = f.admissions /\ g.service_due = f.service_due /\ g.objects = f.objects
      /\ g.root = f.root /\ g.last = f.last
      /\ g.height = IF i + 1 = f.height THEN f.height + 1 ELSE f.height
      /\ g.jobs = Put(f.jobs, i, NewJob(p, i, q))
      /\ g.slots \in [Level -> [Slots -> Slot]]
  BY <1>2 DEF IsBegun
<1>4. /\ Working(g) = Working(f) \cup {i} /\ g.jobs[i] = NewJob(p, i, q)
      /\ \A j \in Working(f) : g.jobs[j] = f.jobs[j]
  BY <1>3 DEF Working, Put
<1>5. /\ g.height \in 1..Levels /\ f.height <= g.height /\ i + 1 < g.height
  <2>1. i < f.height
    <3>1. i >= f.height => p[i].kind = "none"
      BY <1>0, LevelAt
    <3>2. QED
      BY <3>1, <1>1
  <2>2. QED
    BY <2>1, <1>1, <1>3, RuntimeAssumption DEF Level
<1> DEFINE r == [p EXCEPT ![i + 1] = q]
<1>6. /\ r \in [0..Levels -> Places] /\ r[i + 1] = q
      /\ \A j \in 0..Levels : j # i + 1 => r[j] = p[j]
  BY <1>1
<1>7. \A j \in 0..Levels : SamePlace(p[j], r[j]) /\ LooksAlike(p[j], r[j])
  BY <1>2, <1>6, SamePlaceLooks DEF SamePlace
<1>8. IsBare(r[Levels])
  BY <1>1, <1>6, RuntimeAssumption DEF Level
<1> HIDE DEF r
<1>9. Grown(f.objects, g.objects)
  BY <1>1, <1>3, GrownSame
<1>10. IsTyped(g)
  <2>1. NewJob(p, i, q) \in Job
    <3>1. /\ p[i].a \in Slots /\ p[i].b \in Slots /\ p[i].c \in Slots /\ Vacancy(q) \in Slots
          /\ p[(i + 1) + 1].into \in Route /\ q.into.main \in Nat
      BY <1>1, PlaceType DEF Vacancy
    <3>2. Nowhere \in Route /\ Null \in Nat /\ "native_merge" \in Stages
      BY DEF Nowhere, Route, Null, Stages
    <3>3. (q.kind # "one") \in BOOLEAN /\ <<p[i].a, p[i].b>> \in Slots \X Slots
      BY <3>1
    <3>4. QED
      BY <3>1, <3>2, <3>3, <1>1 DEF NewJob, Job
  <2>2. DOMAIN g.jobs = Working(f) \cup {i}
    BY <1>4 DEF Working
  <2>3. g.jobs \in [DOMAIN g.jobs -> Job]
    <3>1. \A j \in DOMAIN g.jobs : g.jobs[j] \in Job
      BY <2>1, <2>2, <1>1, <1>4
    <3>2. g.jobs = [j \in DOMAIN g.jobs |-> g.jobs[j]]
      BY <1>3 DEF Put
    <3>3. QED
      BY <3>1, <3>2
  <2>4. QED
    BY <2>2, <2>3, <1>1, <1>3, <1>5 DEF IsTyped, IsFrontier
<1>11. /\ ~Reserved(f, i + 1) /\ Reserved(g, i + 1)
       /\ \A j \in Level : j # i + 1 => (Reserved(g, j) <=> Reserved(f, j))
  BY <1>1, <1>4 DEF Reserved, Level
<1>12. ASSUME NEW j \in Level, j # i, j # i + 1 PROVE LevelIsSound(g, r, j)
  <2>1. r[j] = p[j] /\ LooksAlike(p[j + 1], r[j + 1])
    BY <1>0, <1>6, <1>7, <1>12, LevelAt
  <2>2. g.slots[j] = f.slots[j]
    <3>1. \A s \in Slots : g.slots[j][s] = f.slots[j][s]
      BY <1>2, <1>12 DEF IsBegun
    <3>2. g.slots[j] \in [Slots -> Slot] /\ f.slots[j] \in [Slots -> Slot]
      BY <1>1, <1>3
    <3>3. QED
      BY <3>1, <3>2
  <2>3. Reserved(f, j) => g.jobs[j - 1].output = f.jobs[j - 1].output
    BY <1>4 DEF Reserved
  <2>4. (j \in Working(g) <=> j \in Working(f)) /\ (Reserved(g, j) <=> Reserved(f, j)) /\ g.last[j] = f.last[j]
    BY <1>3, <1>4, <1>11, <1>12
  <2>5. g.height \in Nat
    BY <1>5
  <2>6. QED
    BY <2>1, <2>2, <2>3, <2>4, <2>5, <1>0, <1>5, <1>9, LevelStays
<1>13. LevelIsSound(g, r, i)
  <2>1. r[i] = p[i] /\ LooksAlike(p[i + 1], r[i + 1])
    BY <1>1, <1>6, <1>7
  <2>2. /\ RunsAreSound(f.objects, p[i], p[i + 1], i) /\ SlotsAreSound(f, i, p[i], p[i + 1]) /\ LastIsSound(f, i, p[i])
        /\ p[i].a \in Slots /\ p[i].b \in Slots /\ p[i].c \in Slots /\ p[i].a # p[i].c /\ p[i].b # p[i].c
    BY <1>0, <1>1, LevelAt, PlaceType
  <2>3. RunsAreSound(g.objects, p[i], r[i + 1], i)
    BY <2>1, <2>2, <1>9, RunsStay
  <2>4. LastIsSound(g, i, p[i])
    BY <2>2, <1>3 DEF LastIsSound
  <2>5. SlotsAre(g, i, p[i], Keeping("active", p[i].into.main, TRUE), Keeping("active", p[i].into.secondary, p[i].seen),
                 Holding("carrier_building", Null))
    <3>1. /\ f.slots[i][p[i].a] = Keeping("active", p[i].into.main, TRUE)
          /\ f.slots[i][p[i].b] = Keeping("active", p[i].into.secondary, p[i].seen)
      BY <2>2 DEF SlotsAreSound, SlotsAre
    <3>2. /\ g.slots[i][p[i].a] = f.slots[i][p[i].a] /\ g.slots[i][p[i].b] = f.slots[i][p[i].b]
          /\ g.slots[i][p[i].c] = Holding("carrier_building", Null)
      BY <2>2, <1>1, <1>2 DEF IsBegun
    <3>3. QED
      BY <3>1, <3>2 DEF SlotsAre
  <2>6. SlotsAreSound(g, i, p[i], r[i + 1])
    BY <2>5, <1>4 DEF SlotsAreSound
  <2>7. ~(i >= g.height)
    BY <1>1, <1>5
  <2>8. QED
    BY <2>1, <2>3, <2>4, <2>6, <2>7 DEF LevelIsSound
<1>14. LevelIsSound(g, r, i + 1)
  <2>1. r[i + 1] = q /\ r[(i + 1) + 1] = p[(i + 1) + 1] /\ SamePlace(p[i + 1], q)
    BY <1>1, <1>2, <1>6
  <2>2. /\ RunsAreSound(f.objects, p[i + 1], p[(i + 1) + 1], i + 1) /\ LastIsSound(f, i + 1, p[i + 1])
        /\ q.kind \in {"none", "one", "done"}
    BY <1>0, <2>1, LevelAt DEF SamePlace
  <2>3. RunsAreSound(g.objects, q, p[(i + 1) + 1], i + 1)
    BY <2>1, <2>2, <1>3, SamePlaceLooks
  <2>4. LastIsSound(g, i + 1, q)
    BY <2>1, <2>2, <1>3, SamePlaceLooks DEF LastIsSound
  <2>5. /\ q.a \in Slots /\ q.b \in Slots /\ q.c \in Slots /\ q.a # q.b /\ q.a # q.c /\ q.b # q.c
    BY <1>2, PlaceType
  <2>6. \A s \in Slots : g.slots[i + 1][s] = IF s = Vacancy(q) THEN [f.slots[i + 1][s] EXCEPT !.state = "reserved"]
                                             ELSE f.slots[i + 1][s]
    BY <1>1, <1>2 DEF IsBegun
  <2>7. ASSUME NEW x \in Slot, x.object = Null, x.ever_visible = FALSE
        PROVE  [x EXCEPT !.state = "reserved"] = Waiting(g, i + 1, x)
    <3>1. (i + 1) - 1 = i /\ g.jobs[i].output = Null
      BY <1>1, <1>4 DEF NewJob
    <3>2. QED
      BY <2>7, <3>1, <1>11, ReservedForm DEF Waiting
  <2>7a. ASSUME NEW x \in Slot, x.object = Null, x.ever_visible = FALSE, f.slots[i + 1][Vacancy(q)] = x
         PROVE  g.slots[i + 1][Vacancy(q)] = Waiting(g, i + 1, x)
    <3>1. Vacancy(q) \in Slots
      BY <2>5 DEF Vacancy
    <3>2. g.slots[i + 1][Vacancy(q)] = [f.slots[i + 1][Vacancy(q)] EXCEPT !.state = "reserved"]
      BY <3>1, <2>6
    <3>3. QED
      BY <3>2, <2>7, <2>7a
  <2>7b. Empty \in Slot /\ Empty.object = Null /\ Empty.ever_visible = FALSE
    BY SlotForms DEF Empty
  <2>8. SlotsAreSound(g, i + 1, q, p[(i + 1) + 1])
    <3>1. ASSUME q.kind = "none" PROVE SlotsAre(g, i + 1, q, Waiting(g, i + 1, Empty), Empty, Empty)
      <4>1. Vacancy(q) = q.a
        BY <3>1 DEF Vacancy
      <4>2. f.slots[i + 1][q.a] = Empty /\ f.slots[i + 1][q.b] = Empty /\ f.slots[i + 1][q.c] = Empty
        BY <3>1, <1>2 DEF SlotsAre
      <4>3. g.slots[i + 1][q.a] = Waiting(g, i + 1, Empty)
        BY <4>1, <4>2, <2>7a, <2>7b
      <4>4. g.slots[i + 1][q.b] = Empty /\ g.slots[i + 1][q.c] = Empty
        BY <4>1, <4>2, <2>5, <2>6
      <4>5. QED
        BY <4>3, <4>4 DEF SlotsAre
    <3>2. ASSUME q.kind = "one"
          PROVE  SlotsAre(g, i + 1, q, Keeping("active", q.into.main, q.seen), Waiting(g, i + 1, Empty), Empty)
      <4>1. Vacancy(q) = q.b
        BY <3>2 DEF Vacancy
      <4>2. f.slots[i + 1][q.a] = Keeping("active", q.into.main, q.seen) /\ f.slots[i + 1][q.b] = Empty /\ f.slots[i + 1][q.c] = Empty
        BY <3>2, <1>2 DEF SlotsAre
      <4>3. g.slots[i + 1][q.b] = Waiting(g, i + 1, Empty)
        BY <4>1, <4>2, <2>7a, <2>7b
      <4>4. g.slots[i + 1][q.a] = f.slots[i + 1][q.a] /\ g.slots[i + 1][q.c] = f.slots[i + 1][q.c]
        BY <4>1, <2>5, <2>6
      <4>5. QED
        BY <4>2, <4>3, <4>4 DEF SlotsAre
    <3>3. ASSUME q.kind = "done"
          PROVE  SlotsAre(g, i + 1, q, Keeping("consumed", q.into.main, TRUE), Keeping("consumed", q.into.secondary, q.seen),
                          Waiting(g, i + 1, Carrier("carrier_ready", Null, p[(i + 1) + 1].into)))
      <4>1. Vacancy(q) = q.c
        BY <3>3 DEF Vacancy
      <4>2. /\ f.slots[i + 1][q.a] = Keeping("consumed", q.into.main, TRUE)
            /\ f.slots[i + 1][q.b] = Keeping("consumed", q.into.secondary, q.seen)
            /\ f.slots[i + 1][q.c] = Carrier("carrier_ready", Null, p[(i + 1) + 1].into)
        BY <3>3, <1>2 DEF SlotsAre
      <4> DEFINE x == Carrier("carrier_ready", Null, p[(i + 1) + 1].into)
      <4>3. x \in Slot /\ x.object = Null /\ x.ever_visible = FALSE
        <5>1. p[(i + 1) + 1].into \in Route
          BY <1>1, PlaceType
        <5>2. QED
          BY <5>1 DEF Slot, Carrier, States, Null
      <4> HIDE DEF x
      <4>4. g.slots[i + 1][q.c] = Waiting(g, i + 1, x)
        BY <4>1, <4>2, <4>3, <2>7a DEF x
      <4>5. g.slots[i + 1][q.a] = f.slots[i + 1][q.a] /\ g.slots[i + 1][q.b] = f.slots[i + 1][q.b]
        BY <4>1, <2>5, <2>6
      <4>6. QED
        BY <4>2, <4>4, <4>5 DEF SlotsAre, x
    <3>4. QED
      BY <3>1, <3>2, <3>3, <2>2 DEF SlotsAreSound
  <2>9. ~(i + 1 >= g.height)
    BY <1>1, <1>5
  <2>10. QED
    BY <2>1, <2>3, <2>4, <2>8, <2>9 DEF LevelIsSound
<1>15. \A j \in Working(g) : JobIsSound(g, r, j)
  <2>1. JobIsSound(g, r, i)
    <3>1. /\ r[i] = p[i] /\ r[i + 1] = q /\ r[i + 2] = p[i + 2] /\ g.jobs[i] = NewJob(p, i, q)
          /\ q.kind \in {"none", "one", "done"}
      BY <1>1, <1>2, <1>4, <1>6 DEF SamePlace
    <3> DEFINE job == g.jobs[i]
    <3>2. /\ job.output = Null /\ job.stage = "native_merge" /\ (job.new_main <=> q.kind # "one")
          /\ job.route = IF q.kind = "done" THEN p[i + 2].into ELSE Nowhere
      <4>1. job = NewJob(p, i, q)
        BY <3>1
      <4>2. NewJob(p, i, q).output = Null /\ NewJob(p, i, q).stage = "native_merge"
        BY DEF NewJob
      <4>3. NewJob(p, i, q).new_main = (q.kind # "one")
        BY DEF NewJob
      <4>4. NewJob(p, i, q).route = IF q.kind = "done" THEN p[i + 2].into ELSE Nowhere
        BY DEF NewJob
      <4> HIDE DEF job
      <4>5. QED
        BY <4>1, <4>2, <4>3, <4>4
    <3>3. job = [inputs |-> <<p[i].a, p[i].b>>, destination |-> Vacancy(q), carrier_slot |-> p[i].c,
                 new_main |-> job.new_main,
                 route |-> IF q.kind = "done" THEN p[i + 2].into ELSE Nowhere,
                 existing_main |-> IF q.kind = "one" THEN q.into.main ELSE Null,
                 output |-> job.output, stage |-> job.stage]
      BY <3>1 DEF NewJob
    <3> HIDE DEF job
    <3>4. QED
      BY <3>1, <3>2, <3>3, <1>5 DEF JobIsSound, job
  <2>2. ASSUME NEW j \in Working(f) PROVE JobIsSound(g, r, j)
    <3>1. JobIsSound(f, p, j) /\ j \in Level /\ j + 1 \in Level /\ p[j].kind = "two" /\ p[j + 1].kind \in {"none", "one", "done"}
      BY <1>0, <1>1 DEF IsLaidOut, JobIsSound
    <3>2. j # i + 1 /\ j # i
      BY <3>1
    <3>3. j \in 0..Levels /\ j + 1 \in 0..Levels /\ j + 2 \in 0..Levels /\ j + 1 # i + 1
      BY <3>1, <3>2, RuntimeAssumption DEF Level
    <3>4. r[j] = p[j] /\ r[j + 1] = p[j + 1] /\ r[j + 2].into = p[j + 2].into
      BY <3>2, <3>3, <1>6, <1>7 DEF SamePlace
    <3>5. f.height \in Nat /\ g.height \in Nat /\ g.jobs[j] = f.jobs[j]
      BY <1>1, <1>4, <1>5
    <3>6. QED
      BY <3>1, <3>4, <3>5, <1>5, <1>9, JobStays
  <2>3. QED
    BY <2>1, <2>2, <1>4
<1>16. IsLaidOut(g, r)
  BY <1>6, <1>8, <1>10, <1>12, <1>13, <1>14, <1>15 DEF IsLaidOut
<1>17. IsWhole(g, r)
  <2>1. r[0] = p[0]
    BY <1>1, <1>6, RuntimeAssumption DEF Level
  <2>2. QED
    BY <2>1, <1>3, <1>16 DEF IsWhole
<1>18. g.jobs[i].stage = "native_merge"
  BY <1>4 DEF NewJob
<1>19. QED
  BY <1>3, <1>4, <1>7, <1>17, <1>18 DEF g

\* What begin requires is there.
LEMMA BeginsWell ==
  ASSUME NEW f, NEW p, IsWhole(f, p), NEW i \in Level, p[i].kind = "two", i \notin Working(f),
         i + 1 \in Level, p[i + 1].kind \in {"none", "one", "done"}, p[i + 1].seen
  PROVE  MayBegin(f, i)
<1> DEFINE above == p[i + 1]
           inputs == ActiveInOrder(f, i)
           carriers == In(f, i + 1, "carrier_ready")
           present == In(f, i + 1, "active")
<1>1. /\ IsLaidOut(f, p) /\ i \in Nat
  BY DEF IsWhole, Level
<1>2. /\ carriers = IF above.kind = "done" THEN {above.c} ELSE {}
      /\ present = IF above.kind = "one" THEN {above.a} ELSE {}
      /\ above.kind = "none" => In(f, i + 1, "empty") = Slots
      /\ above.kind = "one" => In(f, i + 1, "empty") = {above.b, above.c}
      /\ In(f, i, "empty") = {p[i].c}
  <2>1. ~Reserved(f, i + 1)
    BY <1>1 DEF Reserved
  <2>2. /\ carriers = IF above.kind = "done" THEN {above.c} ELSE {}
        /\ present = IF above.kind = "one" THEN {above.a} ELSE {}
        /\ above.kind = "none" => In(f, i + 1, "empty") = Slots
        /\ above.kind = "one" => In(f, i + 1, "empty") = {above.b, above.c}
    BY <1>1, <2>1, InLevel
  <2>3. In(f, i, "empty") = {p[i].c}
    BY <1>1, InLevel
  <2>4. QED
    BY <2>2, <2>3
<1>3. i + 1 \notin Unsafe(f)
  BY <1>1, UnsafeIs
<1>4. f.last[i + 1].identity # Null => f.last[i + 1].visible
  BY <1>1, LevelAt DEF LastIsSound
<1>5. carriers \cup In(f, i + 1, "empty") # {}
  <2>1. CASE above.kind = "done"
    BY <2>1, <1>2
  <2>2. CASE above.kind = "none"
    BY <2>2, <1>2 DEF Slots
  <2>3. CASE above.kind = "one"
    BY <2>3, <1>2
  <2>4. QED
    BY <2>1, <2>2, <2>3
<1>6. Cardinality(present) <= 1 /\ (carriers = {} \/ present = {})
  <2>1. \A x : Cardinality({x}) = 1
    BY PairSize
  <2>2. Cardinality({}) = 0
    BY PairSize
  <2>3. CASE above.kind = "one"
    <3>1. present = {above.a} /\ carriers = {}
      BY <2>3, <1>2
    <3>2. Cardinality({above.a}) = 1
      BY <2>1
    <3>3. QED
      BY <3>1, <3>2
  <2>4. CASE above.kind # "one"
    <3>1. present = {}
      BY <2>4, <1>2
    <3>2. QED
      BY <2>2, <3>1
  <2>5. QED
    BY <2>3, <2>4
<1>7. \A s \in present : ~RunAt(f, i + 1, s).secondary
  <2>1. SUFFICES ASSUME above.kind = "one" PROVE ~RunAt(f, i + 1, above.a).secondary
    BY <1>2
  <2>2. /\ OneRun(f.objects, above, p[(i + 1) + 1], i + 1) /\ SlotsAreSound(f, i + 1, above, p[(i + 1) + 1])
    BY <1>1, <2>1, LevelAt DEF RunsAreSound
  <2>3. f.slots[i + 1][above.a].object = above.into.main
    BY <2>1, <2>2 DEF SlotsAreSound, SlotsAre, Keeping
  <2>4. QED
    BY <2>2, <2>3 DEF OneRun, IsRun, RunAt
<1>8. /\ RunAt(f, i, inputs[1]).last = RunAt(f, i, inputs[2]).first
      /\ \A n \in {1, 2} : Mass(RunAt(f, i, inputs[n])) = RunMass[i]
  <2>1. inputs[1] = p[i].a /\ inputs[2] = p[i].b
    BY <1>1, TwoInOrder
  <2>2. RunAt(f, i, p[i].a) = f.objects[p[i].into.main] /\ RunAt(f, i, p[i].b) = f.objects[p[i].into.secondary]
    BY <1>1, TwoInOrder
  <2>3. TwoRuns(f.objects, p[i], above, i) /\ above.end \in Nat /\ RunMass[i] \in Nat
    BY <1>1, LevelAt, PlaceType DEF RunsAreSound
  <2> HIDE DEF inputs
  <2>4. QED
    BY <2>1, <2>2, <2>3 DEF TwoRuns, IsRun, Mass
<1>9. QED
  BY <1>2, <1>3, <1>4, <1>5, <1>6, <1>7, <1>8 DEF MayBegin
-----------------------------------------------------------------------------
(* step and finish *)

\* What a job that moves on leaves alone.
IsMoved(f, g, i) ==
  /\ DOMAIN g = FrontierFields
  /\ g.admissions = f.admissions /\ g.service_due = f.service_due /\ g.height = f.height
  /\ g.root = f.root /\ g.last = f.last
  /\ Grown(f.objects, g.objects)
  /\ g.jobs \in [Working(f) -> Job] /\ \A j \in Working(f) : j # i => g.jobs[j] = f.jobs[j]
  /\ g.slots \in [Level -> [Slots -> Slot]] /\ \A j \in Level : j # i + 1 => g.slots[j] = f.slots[j]

\* A step of one merge leaves the frontier whole when it keeps the merge and the
\* slots of its destination sound.
LEMMA JobMoves ==
  ASSUME NEW f, NEW p, IsWhole(f, p), NEW i \in Working(f), NEW g, IsMoved(f, g, i),
         SlotsAreSound(g, i + 1, p[i + 1], p[(i + 1) + 1]), JobIsSound(g, p, i)
  PROVE  IsWhole(g, p)
<1>1. IsLaidOut(f, p) /\ i \in Level /\ i + 1 \in Level
  BY StackOf DEF IsWhole, JobIsSound
<1>2. /\ f.height \in 1..Levels /\ Working(f) \subseteq Level /\ IsTyped(f)
      /\ p \in [0..Levels -> Places] /\ IsBare(p[Levels])
  BY <1>1, StackOf DEF IsLaidOut
<1>3. Working(g) = Working(f) /\ \A j : Reserved(g, j) <=> Reserved(f, j)
  BY DEF IsMoved, Working, Reserved
<1>4. IsTyped(g)
  BY <1>2, <1>3 DEF IsMoved, IsTyped, IsFrontier, Grown, Working
<1>5. Grown(f.objects, g.objects) /\ g.height = f.height /\ f.height \in Nat /\ g.last = f.last
  BY <1>2 DEF IsMoved
<1>6. ASSUME NEW j \in Level, j # i + 1 PROVE LevelIsSound(g, p, j)
  <2>1. g.slots[j] = f.slots[j] /\ LooksAlike(p[j + 1], p[j + 1])
    BY <1>6, SameLooks DEF IsMoved
  <2>2. Reserved(f, j) => g.jobs[j - 1].output = f.jobs[j - 1].output
    <3>1. SUFFICES ASSUME Reserved(f, j) PROVE g.jobs[j - 1].output = f.jobs[j - 1].output
      OBVIOUS
    <3>2. j - 1 \in Working(f) /\ j - 1 # i
      BY <3>1, <1>1, <1>6 DEF Reserved, Level
    <3>3. QED
      BY <3>2 DEF IsMoved
  <2>3. QED
    BY <2>1, <2>2, <1>1, <1>3, <1>5, LevelStays
<1>7. LevelIsSound(g, p, i + 1)
  <2>1. /\ RunsAreSound(f.objects, p[i + 1], p[(i + 1) + 1], i + 1) /\ LastIsSound(f, i + 1, p[i + 1])
        /\ i + 1 >= f.height => p[i + 1].kind = "none"
    BY <1>1, LevelAt
  <2>2. RunsAreSound(g.objects, p[i + 1], p[(i + 1) + 1], i + 1)
    BY <2>1, <1>5, RunsStay, SameLooks
  <2>3. LastIsSound(g, i + 1, p[i + 1])
    BY <2>1, <1>5 DEF LastIsSound
  <2>4. QED
    BY <2>1, <2>2, <2>3, <1>5 DEF LevelIsSound
<1>8. ASSUME NEW j \in Working(f), j # i PROVE JobIsSound(g, p, j)
  <2>1. JobIsSound(f, p, j) /\ g.jobs[j] = f.jobs[j] /\ f.height <= g.height
    BY <1>1, <1>5, <1>8 DEF IsLaidOut, IsMoved
  <2>2. QED
    BY <2>1, <1>5, JobStays
<1>9. IsLaidOut(g, p)
  BY <1>2, <1>3, <1>4, <1>6, <1>7, <1>8 DEF IsLaidOut
<1>10. QED
  BY <1>9 DEF IsMoved, IsWhole

\* A job at work: its runs, its slot above, and where its output goes.
LEMMA JobAt ==
  ASSUME NEW f, NEW p, IsLaidOut(f, p), NEW i \in Working(f)
  PROVE  /\ i \in Level /\ i + 1 \in Level /\ i \in Nat /\ JobIsSound(f, p, i) /\ f.jobs[i] \in Job
         /\ p[i].kind = "two" /\ p[i + 1].kind \in {"none", "one", "done"}
         /\ Reserved(f, i + 1) /\ (i + 1) - 1 = i /\ f.jobs[i].destination = Vacancy(p[i + 1])
         /\ f.jobs[i].inputs[1] = p[i].a /\ f.jobs[i].inputs[2] = p[i].b /\ f.jobs[i].carrier_slot = p[i].c
         /\ f.jobs[i].new_main <=> p[i + 1].kind # "one"
         /\ Vacancy(p[i + 1]) \in Slots
<1>1. i \in Level /\ JobIsSound(f, p, i) /\ f.jobs[i] \in Job
  BY StackOf DEF IsLaidOut
<1>2. i \in Nat /\ Reserved(f, i + 1) /\ (i + 1) - 1 = i /\ i + 1 \in Level
  BY <1>1 DEF Level, Reserved, JobIsSound
<1>3. /\ f.jobs[i].destination = Vacancy(p[i + 1])
      /\ f.jobs[i].inputs[1] = p[i].a /\ f.jobs[i].inputs[2] = p[i].b /\ f.jobs[i].carrier_slot = p[i].c
      /\ f.jobs[i].new_main <=> p[i + 1].kind # "one"
      /\ p[i].kind = "two" /\ p[i + 1].kind \in {"none", "one", "done"}
  BY <1>1 DEF JobIsSound
<1>4. Vacancy(p[i + 1]) \in Slots
  BY <1>2, LevelAt, PlaceType DEF Vacancy
<1>5. QED
  BY <1>1, <1>2, <1>3, <1>4

\* The stages between begin and commit that leave nothing behind.
Staged(f, i, stage) == [f EXCEPT !.jobs[i].stage = stage]

\* A stage that only ends leaves the frontier whole.
LEMMA StageMoves ==
  ASSUME NEW f, NEW p, IsWhole(f, p), NEW i \in Working(f), NEW stage \in Stages,
         \/ f.jobs[i].stage = "native_merge" /\ stage = "destination_index" /\ f.jobs[i].new_main
         \/ f.jobs[i].stage = "carrier_index" /\ stage = "commit",
         NEW g, g = Staged(f, i, stage)
  PROVE  /\ IsWhole(g, p) /\ g.admissions = f.admissions /\ g.service_due = f.service_due
         /\ Working(g) = Working(f) /\ \A j \in Working(f) : j # i => g.jobs[j] = f.jobs[j]
         /\ g.jobs[i].stage = stage /\ g.jobs[i].new_main = f.jobs[i].new_main
<1> DEFINE job == f.jobs[i]
           more == [job EXCEPT !.stage = stage]
<1>0. IsLaidOut(f, p)
  BY DEF IsWhole
<1>1. /\ i \in Level /\ i + 1 \in Level /\ i \in Nat /\ JobIsSound(f, p, i) /\ job \in Job
      /\ Reserved(f, i + 1) /\ (i + 1) - 1 = i
  BY <1>0, JobAt
<1>2. /\ DOMAIN f = FrontierFields /\ f.objects \in Seq(Object) /\ f.jobs \in [Working(f) -> Job]
      /\ f.slots \in [Level -> [Slots -> Slot]]
  BY <1>0, StackOf
<1>3. more \in Job
  BY <1>1 DEF Job
<1>4. /\ DOMAIN g = FrontierFields
      /\ g.admissions = f.admissions /\ g.service_due = f.service_due /\ g.height = f.height
      /\ g.root = f.root /\ g.last = f.last /\ g.objects = f.objects /\ g.slots = f.slots
      /\ g.jobs = [f.jobs EXCEPT ![i] = more]
  BY <1>2 DEF FrontierFields, Staged
<1>5. g.jobs \in [Working(f) -> Job] /\ g.jobs[i] = more /\ \A j \in Working(f) : j # i => g.jobs[j] = f.jobs[j]
  <2> HIDE DEF more
  <2>1. QED
    BY <1>2, <1>3, <1>4
<1>6. /\ more.output = job.output /\ more.stage = stage /\ more.new_main = job.new_main
      /\ more.inputs = job.inputs /\ more.destination = job.destination /\ more.carrier_slot = job.carrier_slot
      /\ more.route = job.route /\ more.existing_main = job.existing_main
  BY <1>1 DEF Job
<1> HIDE DEF more, job
<1>7. IsMoved(f, g, i)
  BY <1>2, <1>4, <1>5, GrownSame DEF IsMoved
<1>8. SlotsAreSound(g, i + 1, p[i + 1], p[(i + 1) + 1])
  <2> DEFINE k == i + 1
             q == p[k]
             above == p[k + 1]
  <2>1. SlotsAreSound(f, k, q, above)
    BY <1>0, <1>1, LevelAt
  <2>2. Working(g) = Working(f)
    BY <1>5 DEF Working
  <2>3. g.jobs[k - 1].output = f.jobs[k - 1].output
    BY <1>1, <1>5, <1>6 DEF job
  <2>4. g.slots[k] = f.slots[k]
    BY <1>4
  <2> HIDE DEF k, q, above
  <2>5. (Reserved(g, k) <=> Reserved(f, k)) /\ (k \in Working(g) <=> k \in Working(f)) /\ above.into = above.into
    BY <2>2 DEF Reserved
  <2>6. SlotsAreSound(g, k, q, above)
    BY <2>1, <2>3, <2>4, <2>5, SlotsStay
  <2>7. QED
    BY <2>6 DEF k, q, above
<1>9. JobIsSound(g, p, i)
  <2>1. more = [inputs |-> more.inputs, destination |-> more.destination, carrier_slot |-> more.carrier_slot,
                new_main |-> more.new_main, route |-> more.route, existing_main |-> more.existing_main,
                output |-> more.output, stage |-> more.stage]
    BY <1>3 DEF Job
  <2>2. QED
    BY <2>1, <1>1, <1>4, <1>5, <1>6 DEF JobIsSound, job
<1>10. QED
  <2>1. IsWhole(g, p)
    BY <1>7, <1>8, <1>9, JobMoves
  <2>2. Working(g) = Working(f)
    BY <1>5 DEF Working
  <2>3. QED
    BY <2>1, <2>2, <1>4, <1>5, <1>6 DEF job
\* Which object the output of a merge is.
Output(f, p, i, next, secondary) ==
  [first |-> p[i + 1].end, last |-> p[i + 1].end + RunMass[i + 1], level |-> i + 1,
   secondary |-> secondary, next |-> next]

IsProduced(f, g, i, run) ==
  /\ DOMAIN g = FrontierFields
  /\ g.admissions = f.admissions /\ g.service_due = f.service_due /\ g.height = f.height
  /\ g.root = f.root /\ g.last = f.last
  /\ g.objects = Append(f.objects, run)
  /\ g.jobs = [f.jobs EXCEPT ![i] = [f.jobs[i] EXCEPT !.output = Len(f.objects) + 1, !.stage = "carrier_index"]]
  /\ g.slots = [f.slots EXCEPT ![i + 1] =
                 [f.slots[i + 1] EXCEPT ![f.jobs[i].destination] =
                    [f.slots[i + 1][f.jobs[i].destination] EXCEPT !.object = Len(f.objects) + 1]]]

\* The stages that store the destination's run store it in the reserved slot.
LEMMA ProducedIs ==
  ASSUME NEW f, NEW p, IsLaidOut(f, p), NEW i \in Working(f), NEW next, NEW secondary
  PROVE  IsProduced(f, Produced(f, i, next, secondary), i, Output(f, p, i, next, secondary))
<1> DEFINE job == f.jobs[i]
           run == [first |-> RunAt(f, i, job.inputs[1]).first, last |-> RunAt(f, i, job.inputs[2]).last,
                   level |-> i + 1, secondary |-> secondary, next |-> next]
           id == Len(f.objects) + 1
           g == [f EXCEPT !.objects = Append(@, run),
                          !.slots[i + 1][job.destination].object = id,
                          !.jobs[i].output = id,
                          !.jobs[i].stage = "carrier_index"]
<1>1. /\ i \in Level /\ i + 1 \in Level /\ i \in Nat /\ i \in Working(f) /\ job.destination \in Slots
      /\ job.inputs[1] = p[i].a /\ job.inputs[2] = p[i].b /\ p[i].kind = "two"
  BY JobAt
<1>2. run = Output(f, p, i, next, secondary)
  <2>1. /\ RunAt(f, i, p[i].a) = f.objects[p[i].into.main]
        /\ RunAt(f, i, p[i].b) = f.objects[p[i].into.secondary]
    BY <1>1, TwoInOrder
  <2>2. /\ TwoRuns(f.objects, p[i], p[i + 1], i) /\ RunMass[i] \in Nat /\ RunMass[i + 1] = 2 * RunMass[i]
        /\ p[i + 1].end \in Nat
    BY <1>1, LevelAt, PlaceType DEF RunsAreSound
  <2>3. /\ RunAt(f, i, p[i].a).first = p[i + 1].end
        /\ RunAt(f, i, p[i].b).last = p[i + 1].end + RunMass[i + 1]
    BY <2>1, <2>2 DEF TwoRuns, IsRun
  <2>4. QED
    BY <2>3, <1>1 DEF Output
<1>3. Produced(f, i, next, secondary) = g
  BY DEF Produced
<1>4. DOMAIN f = FrontierFields
  BY StackOf
<1> HIDE DEF run, job, id
<1>5. /\ DOMAIN g = FrontierFields
      /\ g.admissions = f.admissions /\ g.service_due = f.service_due /\ g.height = f.height
      /\ g.root = f.root /\ g.last = f.last
      /\ g.objects = Append(f.objects, run)
  BY <1>4 DEF FrontierFields
<1>6. g.slots = [f.slots EXCEPT ![i + 1] =
                 [f.slots[i + 1] EXCEPT ![job.destination] =
                    [f.slots[i + 1][job.destination] EXCEPT !.object = id]]]
  BY <1>4 DEF FrontierFields
<1>7. g.jobs = [f.jobs EXCEPT ![i] = [f.jobs[i] EXCEPT !.output = id, !.stage = "carrier_index"]]
  <2>1. i \in DOMAIN f.jobs /\ f.jobs[i] \in Job
    BY <1>1, StackOf DEF Working
  <2>2. g.jobs = [[f.jobs EXCEPT ![i] = [f.jobs[i] EXCEPT !.output = id]]
                    EXCEPT ![i] = [[f.jobs EXCEPT ![i] = [f.jobs[i] EXCEPT !.output = id]][i] EXCEPT !.stage = "carrier_index"]]
    BY <1>4 DEF FrontierFields
  <2> DEFINE one == [f.jobs[i] EXCEPT !.output = id]
  <2>3. [one EXCEPT !.stage = "carrier_index"] = [f.jobs[i] EXCEPT !.output = id, !.stage = "carrier_index"]
    BY <2>1 DEF Job
  <2> HIDE DEF g
  <2>4. [f.jobs EXCEPT ![i] = one][i] = one
    BY <2>1
  <2> HIDE DEF one
  <2> DEFINE two == [one EXCEPT !.stage = "carrier_index"]
  <2> HIDE DEF two
  <2>5. [[f.jobs EXCEPT ![i] = one] EXCEPT ![i] = two] = [f.jobs EXCEPT ![i] = two]
    BY <2>1
  <2>6. g.jobs = [[f.jobs EXCEPT ![i] = one] EXCEPT ![i] = two]
    BY <2>2, <2>4 DEF one, two
  <2>7. QED
    BY <2>3, <2>5, <2>6 DEF two, one
<1> HIDE DEF g
<1>8. QED
  BY <1>2, <1>3, <1>5, <1>6, <1>7 DEF IsProduced, job, id

\* The merged run is there, in its slot, and nobody reaches it yet.
LEMMA OutputMoves ==
  ASSUME NEW f, NEW p, IsWhole(f, p), NEW i \in Working(f),
         f.jobs[i].stage \in {"native_merge", "destination_index"},
         NEW secondary \in BOOLEAN, secondary <=> ~f.jobs[i].new_main,
         NEW g, g = Produced(f, i, f.jobs[i].route, secondary)
  PROVE  /\ IsWhole(g, p) /\ g.admissions = f.admissions /\ g.service_due = f.service_due
         /\ Working(g) = Working(f) /\ \A j \in Working(f) : j # i => g.jobs[j] = f.jobs[j]
         /\ g.jobs[i].stage = "carrier_index" /\ g.jobs[i].new_main = f.jobs[i].new_main
<1> DEFINE job == f.jobs[i]
           id == Len(f.objects) + 1
           more == [job EXCEPT !.output = id, !.stage = "carrier_index"]
           run == Output(f, p, i, job.route, secondary)
           above == p[i + 1]
<1>0. IsLaidOut(f, p)
  BY DEF IsWhole
<1>1. /\ i \in Level /\ i + 1 \in Level /\ i \in Nat /\ JobIsSound(f, p, i) /\ job \in Job
      /\ Reserved(f, i + 1) /\ (i + 1) - 1 = i
      /\ p[i].kind = "two" /\ above.kind \in {"none", "one", "done"}
      /\ job.destination = Vacancy(above) /\ Vacancy(above) \in Slots
      /\ job.new_main <=> above.kind # "one"
  BY <1>0, JobAt
<1>2. /\ DOMAIN f = FrontierFields /\ f.objects \in Seq(Object) /\ f.jobs \in [Working(f) -> Job]
      /\ f.slots \in [Level -> [Slots -> Slot]]
  BY <1>0, StackOf
<1>3. /\ above \in Places /\ above.end \in Nat /\ RunMass[i + 1] \in Nat /\ p[(i + 1) + 1] \in Places
      /\ above.a \in Slots /\ above.b \in Slots /\ above.c \in Slots
      /\ above.a # above.b /\ above.a # above.c /\ above.b # above.c
  BY <1>0, <1>1, LevelAt, PlaceType
<1>4. IsProduced(f, g, i, run)
  BY <1>0, ProducedIs
<1>5. run \in Object
  BY <1>1, <1>3 DEF Output, Object, Job
<1>6. /\ Grown(f.objects, g.objects) /\ id \in DOMAIN g.objects /\ g.objects[id] = run /\ id \in Nat
      /\ id # Null
  BY <1>2, <1>4, <1>5, GrownAppend DEF IsProduced, Null
<1>7. more \in Job
  BY <1>1, <1>6 DEF Job, Stages
<1>8. /\ more.output = id /\ more.stage = "carrier_index" /\ more.new_main = job.new_main
      /\ more.inputs = job.inputs /\ more.destination = job.destination /\ more.carrier_slot = job.carrier_slot
      /\ more.route = job.route /\ more.existing_main = job.existing_main
  BY <1>1 DEF Job
<1>9. g.jobs \in [Working(f) -> Job] /\ g.jobs[i] = more /\ \A j \in Working(f) : j # i => g.jobs[j] = f.jobs[j]
  <2>1. g.jobs = [f.jobs EXCEPT ![i] = more]
    BY <1>4 DEF IsProduced
  <2> HIDE DEF more
  <2>2. QED
    BY <2>1, <1>2, <1>7
<1> HIDE DEF more, run, id
<1>10. /\ \A s \in Slots : s # Vacancy(above) => g.slots[i + 1][s] = f.slots[i + 1][s]
       /\ g.slots[i + 1][Vacancy(above)] = [f.slots[i + 1][Vacancy(above)] EXCEPT !.object = id]
       /\ g.slots \in [Level -> [Slots -> Slot]] /\ \A j \in Level : j # i + 1 => g.slots[j] = f.slots[j]
  <2> DEFINE x == [f.slots[i + 1][Vacancy(above)] EXCEPT !.object = id]
  <2>1. x \in Slot
    <3>1. \A y \in Slot : [y EXCEPT !.object = id] \in Slot
      BY <1>6 DEF Slot
    <3>2. f.slots[i + 1][Vacancy(above)] \in Slot
      BY <1>1, <1>2
    <3>3. QED
      BY <3>1, <3>2
  <2>2. g.slots = [f.slots EXCEPT ![i + 1] = [f.slots[i + 1] EXCEPT ![Vacancy(above)] = x]]
    BY <1>1, <1>4 DEF IsProduced, id
  <2> HIDE DEF x
  <2>3. QED
    BY <2>1, <2>2, <1>1, <1>2 DEF x
<1>11. IsMoved(f, g, i)
  BY <1>4, <1>6, <1>9, <1>10 DEF IsMoved, IsProduced
<1>12. SlotsAreSound(g, i + 1, above, p[(i + 1) + 1])
  <2>1. SlotsAreSound(f, i + 1, above, p[(i + 1) + 1])
    BY <1>0, <1>1, LevelAt
  <2>2. Working(g) = Working(f) /\ Reserved(g, i + 1)
    BY <1>1, <1>9 DEF Working, Reserved
  <2>3. \A idle : Waiting(f, i + 1, idle) = [state |-> "reserved", object |-> job.output, route |-> idle.route, ever_visible |-> FALSE]
    BY <1>1 DEF Waiting
  <2>4. \A idle : Waiting(g, i + 1, idle) = [state |-> "reserved", object |-> id, route |-> idle.route, ever_visible |-> FALSE]
    BY <1>1, <1>8, <1>9, <2>2 DEF Waiting
  <2>5. ASSUME NEW x, x \in Slot, NEW idle, x = Waiting(f, i + 1, idle)
        PROVE  [x EXCEPT !.object = id] = Waiting(g, i + 1, idle)
    <3>1. [x EXCEPT !.object = id] = [state |-> x.state, object |-> id, route |-> x.route, ever_visible |-> x.ever_visible]
      BY <2>5 DEF Slot
    <3>2. x.state = "reserved" /\ x.route = idle.route /\ x.ever_visible = FALSE
      <4> DEFINE w == [state |-> "reserved", object |-> job.output, route |-> idle.route, ever_visible |-> FALSE]
      <4>1. w.state = "reserved" /\ w.route = idle.route /\ w.ever_visible = FALSE
        OBVIOUS
      <4> HIDE DEF w
      <4>2. x = w
        BY <2>3, <2>5 DEF w
      <4>3. QED
        BY <4>1, <4>2
    <3>3. QED
      BY <3>1, <3>2, <2>4
  <2>6. ASSUME NEW idle, f.slots[i + 1][Vacancy(above)] = Waiting(f, i + 1, idle)
        PROVE  g.slots[i + 1][Vacancy(above)] = Waiting(g, i + 1, idle)
    BY <2>5, <2>6, <1>1, <1>2, <1>10
  <2>7. ASSUME above.kind = "none" PROVE SlotsAre(g, i + 1, above, Waiting(g, i + 1, Empty), Empty, Empty)
    <3>1. /\ Vacancy(above) = above.a /\ f.slots[i + 1][above.a] = Waiting(f, i + 1, Empty)
          /\ f.slots[i + 1][above.b] = Empty /\ f.slots[i + 1][above.c] = Empty
      BY <2>1, <2>7 DEF Vacancy, SlotsAreSound, SlotsAre
    <3>2. g.slots[i + 1][above.a] = Waiting(g, i + 1, Empty)
      BY <3>1, <2>6
    <3>3. QED
      BY <3>1, <3>2, <1>3, <1>10 DEF SlotsAre
  <2>8. ASSUME above.kind = "one"
        PROVE  SlotsAre(g, i + 1, above, Keeping("active", above.into.main, above.seen), Waiting(g, i + 1, Empty), Empty)
    <3>1. /\ Vacancy(above) = above.b /\ f.slots[i + 1][above.b] = Waiting(f, i + 1, Empty)
          /\ f.slots[i + 1][above.a] = Keeping("active", above.into.main, above.seen) /\ f.slots[i + 1][above.c] = Empty
      BY <2>1, <2>8 DEF Vacancy, SlotsAreSound, SlotsAre
    <3>2. g.slots[i + 1][above.b] = Waiting(g, i + 1, Empty)
      BY <3>1, <2>6
    <3>3. g.slots[i + 1][above.a] = f.slots[i + 1][above.a] /\ g.slots[i + 1][above.c] = f.slots[i + 1][above.c]
      BY <3>1, <1>3, <1>10
    <3>4. QED
      BY <3>1, <3>2, <3>3 DEF SlotsAre
  <2>9. ASSUME above.kind = "done"
        PROVE  SlotsAre(g, i + 1, above, Keeping("consumed", above.into.main, TRUE),
                        Keeping("consumed", above.into.secondary, above.seen),
                        Waiting(g, i + 1, Carrier("carrier_ready", Null, p[(i + 1) + 1].into)))
    <3> DEFINE idle == Carrier("carrier_ready", Null, p[(i + 1) + 1].into)
    <3>1. /\ Vacancy(above) = above.c /\ f.slots[i + 1][above.c] = Waiting(f, i + 1, idle)
          /\ f.slots[i + 1][above.a] = Keeping("consumed", above.into.main, TRUE)
          /\ f.slots[i + 1][above.b] = Keeping("consumed", above.into.secondary, above.seen)
      BY <2>1, <2>9 DEF Vacancy, SlotsAreSound, SlotsAre
    <3> HIDE DEF idle
    <3>2. g.slots[i + 1][above.c] = Waiting(g, i + 1, idle)
      BY <3>1, <2>6
    <3>3. g.slots[i + 1][above.a] = f.slots[i + 1][above.a] /\ g.slots[i + 1][above.b] = f.slots[i + 1][above.b]
      BY <3>1, <1>3, <1>10
    <3>4. QED
      BY <3>1, <3>2, <3>3 DEF SlotsAre, idle
  <2>10. QED
    BY <2>7, <2>8, <2>9, <1>1 DEF SlotsAreSound
<1>13. JobIsSound(g, p, i)
  <2>1. more = [inputs |-> more.inputs, destination |-> more.destination, carrier_slot |-> more.carrier_slot,
                new_main |-> more.new_main, route |-> more.route, existing_main |-> more.existing_main,
                output |-> more.output, stage |-> more.stage]
    BY <1>7 DEF Job
  <2>2. IsRun(g.objects, id, i + 1, above.end, above.kind = "one", job.route)
    BY <1>1, <1>6 DEF IsRun, run, Output
  <2>3. g.height = f.height
    BY <1>4 DEF IsProduced
  <2>4. QED
    BY <2>1, <2>2, <2>3, <1>1, <1>8, <1>9 DEF JobIsSound
<1>14. QED
  <2>1. IsWhole(g, p)
    BY <1>11, <1>12, <1>13, JobMoves
  <2>2. Working(g) = Working(f)
    BY <1>9 DEF Working
  <2>3. QED
    BY <2>1, <2>2, <1>4, <1>8, <1>9 DEF IsProduced
\* A stage ends: the next is closer to the commit by one.
LEMMA CompletionLaysOut ==
  ASSUME NEW f, NEW p, IsWhole(f, p), NEW i \in Working(f), f.jobs[i].stage # "commit"
  PROVE  /\ IsWhole(Completed(f, i), p)
         /\ Completed(f, i).admissions = f.admissions /\ Completed(f, i).service_due = f.service_due
         /\ Working(Completed(f, i)) = Working(f)
         /\ \A j \in Working(f) : j # i => Completed(f, i).jobs[j] = f.jobs[j]
         /\ Remaining(Completed(f, i).jobs[i]) = Remaining(f.jobs[i]) - 1
<1> DEFINE job == f.jobs[i]
           g == Completed(f, i)
<1>1. /\ JobIsSound(f, p, i) /\ job \in Job /\ job.stage \in Stages /\ job.new_main \in BOOLEAN
      /\ job.new_main <=> p[i + 1].kind # "one"
  <2>1. IsLaidOut(f, p)
    BY DEF IsWhole
  <2>2. JobIsSound(f, p, i) /\ job \in Job /\ (job.new_main <=> p[i + 1].kind # "one")
    BY <2>1, JobAt
  <2>3. QED
    BY <2>2 DEF Job
<1>2. CASE job.stage = "native_merge" /\ job.new_main
  <2>1. g = Staged(f, i, "destination_index") /\ "destination_index" \in Stages
    BY <1>2 DEF Completed, Staged, Stages
  <2> HIDE DEF g
  <2>2. /\ IsWhole(g, p) /\ g.admissions = f.admissions /\ g.service_due = f.service_due
        /\ Working(g) = Working(f) /\ \A j \in Working(f) : j # i => g.jobs[j] = f.jobs[j]
        /\ g.jobs[i].stage = "destination_index"
    BY <2>1, <1>2, StageMoves
  <2>3. Remaining(g.jobs[i]) = 3 /\ Remaining(job) = 4
    BY <2>2, <1>2 DEF Remaining
  <2>4. QED
    BY <2>2, <2>3 DEF g
<1>3. CASE job.stage = "native_merge" /\ ~job.new_main
  <2>1. g = Produced(f, i, Nowhere, TRUE) /\ job.route = Nowhere
    <3>1. g = Produced(f, i, Nowhere, TRUE)
      BY <1>3 DEF Completed
    <3>2. job.route = Nowhere
      BY <1>1, <1>3 DEF JobIsSound
    <3>3. QED
      BY <3>1, <3>2
  <2> HIDE DEF g
  <2>2. \A secondary \in BOOLEAN : (secondary <=> ~job.new_main) /\ g = Produced(f, i, job.route, secondary) =>
          /\ IsWhole(g, p) /\ g.admissions = f.admissions /\ g.service_due = f.service_due
          /\ Working(g) = Working(f) /\ \A j \in Working(f) : j # i => g.jobs[j] = f.jobs[j]
          /\ g.jobs[i].stage = "carrier_index" /\ g.jobs[i].new_main = job.new_main
    BY <1>3, OutputMoves
  <2>3. \E secondary \in BOOLEAN : secondary = TRUE
    OBVIOUS
  <2>4. /\ IsWhole(g, p) /\ g.admissions = f.admissions /\ g.service_due = f.service_due
        /\ Working(g) = Working(f) /\ \A j \in Working(f) : j # i => g.jobs[j] = f.jobs[j]
        /\ g.jobs[i].stage = "carrier_index"
    BY <2>1, <2>2, <2>3, <1>3
  <2>5. Remaining(g.jobs[i]) = 2 /\ Remaining(job) = 3
    BY <2>4, <1>3 DEF Remaining
  <2>6. QED
    BY <2>4, <2>5 DEF g
<1>4. CASE job.stage = "destination_index"
  <2>1. g = Produced(f, i, job.route, FALSE) /\ job.new_main
    <3>1. g = Produced(f, i, job.route, FALSE)
      BY <1>4 DEF Completed
    <3>2. QED
      BY <3>1, <1>1, <1>4 DEF JobIsSound
  <2> HIDE DEF g
  <2>2. \A secondary \in BOOLEAN : (secondary <=> ~job.new_main) /\ g = Produced(f, i, job.route, secondary) =>
          /\ IsWhole(g, p) /\ g.admissions = f.admissions /\ g.service_due = f.service_due
          /\ Working(g) = Working(f) /\ \A j \in Working(f) : j # i => g.jobs[j] = f.jobs[j]
          /\ g.jobs[i].stage = "carrier_index" /\ g.jobs[i].new_main = job.new_main
    BY <1>4, OutputMoves
  <2>3. \E secondary \in BOOLEAN : secondary = FALSE
    OBVIOUS
  <2>4. /\ IsWhole(g, p) /\ g.admissions = f.admissions /\ g.service_due = f.service_due
        /\ Working(g) = Working(f) /\ \A j \in Working(f) : j # i => g.jobs[j] = f.jobs[j]
        /\ g.jobs[i].stage = "carrier_index"
    BY <2>1, <2>2, <2>3
  <2>5. Remaining(g.jobs[i]) = 2 /\ Remaining(job) = 3
    BY <2>4, <1>4 DEF Remaining
  <2>6. QED
    BY <2>4, <2>5 DEF g
<1>5. CASE job.stage = "carrier_index"
  <2>1. g = Staged(f, i, "commit") /\ "commit" \in Stages
    BY <1>5 DEF Completed, Staged, Stages
  <2> HIDE DEF g
  <2>2. /\ IsWhole(g, p) /\ g.admissions = f.admissions /\ g.service_due = f.service_due
        /\ Working(g) = Working(f) /\ \A j \in Working(f) : j # i => g.jobs[j] = f.jobs[j]
        /\ g.jobs[i].stage = "commit"
    BY <2>1, <1>5, StageMoves
  <2>3. Remaining(g.jobs[i]) = 1 /\ Remaining(job) = 2
    BY <2>2, <1>5 DEF Remaining
  <2>4. QED
    BY <2>2, <2>3 DEF g
<1>6. QED
  BY <1>1, <1>2, <1>3, <1>4, <1>5 DEF Stages
-----------------------------------------------------------------------------
(* commit *)

\* The merge is handed over: its inputs, its carrier and its output.
IsHanded(f, p, g, i) ==
  /\ DOMAIN g = FrontierFields
  /\ g.admissions = f.admissions /\ g.service_due = f.service_due /\ g.height = f.height
  /\ g.root = f.root /\ g.objects = f.objects
  /\ g.jobs = [j \in Working(f) \ {i} |-> f.jobs[j]]
  /\ g.last = [f.last EXCEPT ![i + 1] = [identity |-> f.jobs[i].output, visible |-> FALSE]]
  /\ g.slots \in [Level -> [Slots -> Slot]]
  /\ \A j \in Level : j # i /\ j # i + 1 => g.slots[j] = f.slots[j]
  /\ g.slots[i][p[i].a] = [f.slots[i][p[i].a] EXCEPT !.state = "consumed"]
  /\ g.slots[i][p[i].b] = [f.slots[i][p[i].b] EXCEPT !.state = "consumed"]
  /\ g.slots[i][p[i].c] = Carrier("carrier_ready", Null, Target(f.jobs[i]))
  /\ g.slots[i + 1][Vacancy(p[i + 1])] = Holding("active", f.jobs[i].output)
  /\ \A s \in Slots : s # Vacancy(p[i + 1]) => g.slots[i + 1][s] = f.slots[i + 1][s]

\* A merge's target is a route.
LEMMA TargetType ==
  ASSUME NEW job \in Job
  PROVE  Target(job) \in Route
<1>1. job.output \in Nat /\ job.existing_main \in Nat
  BY DEF Job
<1>2. QED
  BY <1>1 DEF Target, Route, Null

\* What the commit does to the slots and routes.
LEMMA HandedIs ==
  ASSUME NEW f, NEW p, IsLaidOut(f, p), NEW i \in Working(f)
  PROVE  IsHanded(f, p, Handed(f, i), i)
<1> DEFINE job == f.jobs[i]
           d == Vacancy(p[i + 1])
           inner == [s \in Slots |->
              CASE s \in {job.inputs[1], job.inputs[2]} -> [f.slots[i][s] EXCEPT !.state = "consumed"]
                [] s = job.carrier_slot -> Carrier("carrier_ready", Null, Target(job))
                [] OTHER -> f.slots[i][s]]
           last == [identity |-> job.output, visible |-> FALSE]
           jobs == [j \in Working(f) \ {i} |-> f.jobs[j]]
           hold == Holding("active", job.output)
           g == [f EXCEPT !.slots[i] = inner,
                          !.slots[i + 1][d] = hold,
                          !.last[i + 1] = last,
                          !.jobs = jobs]
<1>1. /\ i \in Level /\ i + 1 \in Level /\ i \in Nat /\ job.destination = d /\ d \in Slots /\ job \in Job
      /\ job.inputs[1] = p[i].a /\ job.inputs[2] = p[i].b /\ job.carrier_slot = p[i].c
  BY JobAt
<1>2. /\ p[i].a \in Slots /\ p[i].b \in Slots /\ p[i].c \in Slots
      /\ p[i].a # p[i].b /\ p[i].a # p[i].c /\ p[i].b # p[i].c
  BY <1>1, LevelAt, PlaceType
<1>3. DOMAIN f = FrontierFields /\ f.slots \in [Level -> [Slots -> Slot]]
  BY StackOf
<1>4. Handed(f, i) = g
  BY <1>1 DEF Handed
<1>5. /\ inner[p[i].a] = [f.slots[i][p[i].a] EXCEPT !.state = "consumed"]
      /\ inner[p[i].b] = [f.slots[i][p[i].b] EXCEPT !.state = "consumed"]
      /\ inner[p[i].c] = Carrier("carrier_ready", Null, Target(job))
  <2> HIDE DEF job
  <2>1. QED
    BY <1>1, <1>2
<1>6. inner \in [Slots -> Slot] /\ hold \in Slot
  <2>1. Target(job) \in Route /\ job.output \in Nat
    BY <1>1, TargetType DEF Job
  <2>2. Carrier("carrier_ready", Null, Target(job)) \in Slot
    BY <2>1 DEF Slot, Carrier, States, Null
  <2>3. hold \in Slot
    BY <2>1, SlotForms DEF Slot, States, Route
  <2>4. \A s \in Slots : f.slots[i][s] \in Slot /\ [f.slots[i][s] EXCEPT !.state = "consumed"] \in Slot
    <3>1. \A x \in Slot : [x EXCEPT !.state = "consumed"] \in Slot
      BY DEF Slot, States
    <3>2. \A s \in Slots : f.slots[i][s] \in Slot
      BY <1>1, <1>3
    <3>3. QED
      BY <3>1, <3>2
  <2>5. ASSUME NEW s \in Slots PROVE inner[s] \in Slot
    <3>1. \/ inner[s] = [f.slots[i][s] EXCEPT !.state = "consumed"]
          \/ inner[s] = Carrier("carrier_ready", Null, Target(job)) \/ inner[s] = f.slots[i][s]
      OBVIOUS
    <3> HIDE DEF inner
    <3>2. QED
      BY <3>1, <2>2, <2>4
  <2>6. inner = [s \in Slots |-> inner[s]]
    OBVIOUS
  <2> HIDE DEF inner
  <2>7. QED
    BY <2>3, <2>5, <2>6
<1> HIDE DEF inner, last, jobs, hold, job, d
<1>7. /\ DOMAIN g = FrontierFields
      /\ g.admissions = f.admissions /\ g.service_due = f.service_due /\ g.height = f.height
      /\ g.root = f.root /\ g.objects = f.objects /\ g.jobs = jobs
  BY <1>3 DEF FrontierFields
<1>8. g.last = [f.last EXCEPT ![i + 1] = last]
  BY <1>3 DEF FrontierFields
<1>9. g.slots = [f.slots EXCEPT ![i] = inner, ![i + 1][d] = hold]
  BY <1>3 DEF FrontierFields
<1> HIDE DEF g
<1>10. /\ g.slots \in [Level -> [Slots -> Slot]]
       /\ \A j \in Level : j # i /\ j # i + 1 => g.slots[j] = f.slots[j]
       /\ g.slots[i] = inner /\ g.slots[i + 1] = [f.slots[i + 1] EXCEPT ![d] = hold]
  <2> DEFINE first == [f.slots EXCEPT ![i] = inner]
             other == [f.slots[i + 1] EXCEPT ![d] = hold]
  <2>1. other \in [Slots -> Slot]
    BY <1>1, <1>3, <1>6
  <2>2. /\ first \in [Level -> [Slots -> Slot]] /\ first[i] = inner
        /\ \A j \in Level : j # i => first[j] = f.slots[j]
    BY <1>1, <1>3, <1>6
  <2>3. g.slots = [first EXCEPT ![i + 1] = other]
    BY <1>1, <1>3, <1>9
  <2> HIDE DEF first, other
  <2>4. QED
    BY <2>1, <2>2, <2>3, <1>1 DEF other
<1>11. /\ g.slots[i + 1][d] = hold
       /\ \A s \in Slots : s # d => g.slots[i + 1][s] = f.slots[i + 1][s]
  BY <1>1, <1>3, <1>10
<1>12. IsHanded(f, p, g, i)
  <2>1. /\ g.jobs = [j \in Working(f) \ {i} |-> f.jobs[j]]
        /\ g.last = [f.last EXCEPT ![i + 1] = [identity |-> f.jobs[i].output, visible |-> FALSE]]
    BY <1>7, <1>8 DEF jobs, last, job
  <2>2. /\ g.slots[i + 1][Vacancy(p[i + 1])] = Holding("active", f.jobs[i].output)
        /\ \A s \in Slots : s # Vacancy(p[i + 1]) => g.slots[i + 1][s] = f.slots[i + 1][s]
    BY <1>11 DEF d, hold, job
  <2>3. /\ g.slots[i][p[i].a] = [f.slots[i][p[i].a] EXCEPT !.state = "consumed"]
        /\ g.slots[i][p[i].b] = [f.slots[i][p[i].b] EXCEPT !.state = "consumed"]
        /\ g.slots[i][p[i].c] = Carrier("carrier_ready", Null, Target(f.jobs[i]))
    BY <1>5, <1>10 DEF job
  <2>4. QED
    BY <2>1, <2>2, <2>3, <1>7, <1>10 DEF IsHanded
<1>13. QED
  BY <1>4, <1>12

\* The place that the output makes of its level.
IsRaised(f, p, i, q) ==
  /\ q.kind = IF p[i + 1].kind = "one" THEN "two" ELSE IF p[i + 1].kind = "none" THEN "one" ELSE "fresh"
  /\ q.a = IF p[i + 1].kind = "done" THEN p[i + 1].c ELSE p[i + 1].a
  /\ q.b = IF p[i + 1].kind = "done" THEN p[i + 1].a ELSE p[i + 1].b
  /\ q.c = IF p[i + 1].kind = "done" THEN p[i + 1].b ELSE p[i + 1].c
  /\ q.into = Target(f.jobs[i])
  /\ q.before = p[i + 1].into
  /\ q.end = p[i].end
  /\ q.seen = FALSE

\* The level above has the merged run, and the level of the merge is done.
LEMMA RaisedIs ==
  ASSUME NEW f, NEW p, IsLaidOut(f, p), NEW i \in Working(f), f.jobs[i].stage = "commit",
         NEW q \in Places, IsRaised(f, p, i, q)
  PROVE  /\ RunsAreSound(f.objects, q, p[(i + 1) + 1], i + 1)
         /\ DoneRuns(f.objects, p[i], q, i)
         /\ Newest(q) = f.jobs[i].output /\ f.jobs[i].output # Null
<1> DEFINE job == f.jobs[i]
           above == p[i + 1]
           next == p[(i + 1) + 1]
<1>1. /\ i \in Level /\ i + 1 \in Level /\ i \in Nat /\ JobIsSound(f, p, i) /\ job \in Job
      /\ Reserved(f, i + 1) /\ (i + 1) + 1 = i + 2
      /\ p[i].kind = "two" /\ above.kind \in {"none", "one", "done"}
      /\ job.new_main <=> above.kind # "one"
  BY JobAt
<1>2. /\ above.end \in Nat /\ next.end \in Nat /\ p[i].end \in Nat /\ above.seen
      /\ RunMass[i] \in Nat \ {0} /\ RunMass[i + 1] = 2 * RunMass[i]
      /\ RunsAreSound(f.objects, above, next, i + 1) /\ TwoRuns(f.objects, p[i], above, i)
      /\ above.into \in Route
  <2>1. above.seen
    BY <1>1, ReservedIs
  <2>2. RunsAreSound(f.objects, p[i], above, i) /\ RunsAreSound(f.objects, above, next, i + 1)
    BY <1>1, LevelAt
  <2>3. QED
    BY <2>1, <2>2, <1>1, LevelAt, PlaceType DEF RunsAreSound
<1>3. /\ IsRun(f.objects, job.output, i + 1, above.end, above.kind = "one", job.route)
      /\ job.route = IF above.kind = "done" THEN next.into ELSE Nowhere
      /\ job.existing_main = IF above.kind = "one" THEN above.into.main ELSE Null
  <2>1. IsRun(f.objects, job.output, i + 1, above.end, above.kind = "one", job.route)
    BY <1>1 DEF JobIsSound
  <2>2. QED
    BY <2>1, <1>1 DEF JobIsSound
<1>4. job.output # Null
  <2>1. f.objects \in Seq(Object)
    BY StackOf
  <2>2. QED
    BY <2>1, <1>3 DEF IsRun, Null
<1>5. p[i].end = above.end + RunMass[i + 1]
  BY <1>2 DEF TwoRuns
<1>6. DoneRuns(f.objects, p[i], q, i)
  <2>1. q.kind # "none" /\ ~q.seen /\ q.end = p[i].end /\ q.before = above.into
    BY <1>1 DEF IsRaised
  <2>2. /\ q.end - 2 * RunMass[i] = above.end /\ q.end - RunMass[i] = above.end + RunMass[i]
        /\ q.end >= 2 * RunMass[i]
    BY <2>1, <1>2, <1>5
  <2>3. QED
    BY <2>1, <2>2, <1>2 DEF TwoRuns, DoneRuns
<1>7. CASE above.kind = "none"
  <2>1. IsBare(above) /\ IsBare(next)
    BY <1>1, <1>2, <1>7, StackOf, LevelAt, BareIs DEF RunsAreSound
  <2>2. next.kind = "none" /\ next.into = Nowhere /\ next.end = 0 /\ above.end = 0 /\ above.into = Nowhere
    BY <2>1 DEF IsBare
  <2>3. q.into = [main |-> job.output, secondary |-> Null] /\ q.kind = "one" /\ q.before = Nowhere /\ ~q.seen
    BY <2>2, <1>1, <1>7 DEF IsRaised, Target
  <2>4. q.end = next.end + RunMass[i + 1]
    BY <2>2, <1>2, <1>5 DEF IsRaised
  <2>5. IsRun(f.objects, q.into.main, i + 1, next.end, FALSE, next.into)
    BY <2>2, <2>3, <1>3, <1>7 DEF IsRun
  <2>5a. q.into.secondary = Null /\ IF q.seen THEN next.seen ELSE next.kind = "none"
    BY <2>2, <2>3
  <2>5b. q.before = Nowhere
    BY <2>3
  <2>6. OneRun(f.objects, q, next, i + 1)
    BY <2>4, <2>5, <2>5a, <2>5b DEF OneRun
  <2>7. QED
    BY <2>3, <2>6, <1>4, <1>6 DEF RunsAreSound, Newest
<1>8. CASE above.kind = "one"
  <2>1. OneRun(f.objects, above, next, i + 1) /\ next.seen
    BY <1>2, <1>8 DEF RunsAreSound, OneRun
  <2>2. q.into = [main |-> above.into.main, secondary |-> job.output] /\ q.kind = "two" /\ ~q.seen
    BY <1>1, <1>3, <1>8 DEF IsRaised, Target
  <2>3. q.before = [main |-> q.into.main, secondary |-> Null]
    <3>1. above.into = [main |-> above.into.main, secondary |-> Null]
      BY <2>1, <1>2 DEF OneRun, Route
    <3>2. QED
      BY <2>2, <3>1 DEF IsRaised
  <2>4. above.end = next.end + RunMass[i + 1] /\ q.end = next.end + 2 * RunMass[i + 1]
    BY <2>1, <1>2, <1>5 DEF OneRun, IsRaised
  <2>5. /\ IsRun(f.objects, q.into.secondary, i + 1, next.end + RunMass[i + 1], TRUE, Nowhere)
        /\ IsRun(f.objects, q.into.main, i + 1, next.end, FALSE, next.into)
    BY <2>1, <2>2, <2>4, <1>3, <1>8 DEF IsRun, OneRun
  <2>6. TwoRuns(f.objects, q, next, i + 1)
    BY <2>1, <2>3, <2>4, <2>5 DEF TwoRuns
  <2>7. QED
    BY <2>2, <2>6, <1>4, <1>6 DEF RunsAreSound, Newest
<1>9. CASE above.kind = "done"
  <2>1. DoneRuns(f.objects, above, next, i + 1)
    BY <1>2, <1>9 DEF RunsAreSound
  <2>2. q.into = [main |-> job.output, secondary |-> Null] /\ q.kind = "fresh" /\ ~q.seen /\ q.before = above.into
    BY <1>1, <1>3, <1>9 DEF IsRaised, Target
  <2>3. q.end = next.end + RunMass[i + 1] /\ above.end = next.end
    BY <2>1, <1>2, <1>5 DEF DoneRuns, IsRaised
  <2>4. IsRun(f.objects, q.into.main, i + 1, next.end, FALSE, next.into)
    BY <2>2, <2>3, <1>3, <1>9 DEF IsRun
  <2>4a. /\ IsRun(f.objects, q.before.main, i + 1, next.end - 2 * RunMass[i + 1], FALSE, next.before)
         /\ IsRun(f.objects, q.before.secondary, i + 1, next.end - RunMass[i + 1], TRUE, Nowhere)
    BY <2>1, <2>2 DEF IsRun, DoneRuns
  <2>4b. q.into.secondary = Null /\ next.end >= 2 * RunMass[i + 1] /\ ~next.seen /\ next.kind # "none"
    BY <2>1, <2>2 DEF DoneRuns
  <2>5. FreshRun(f.objects, q, next, i + 1)
    BY <2>2, <2>3, <2>4, <2>4a, <2>4b DEF FreshRun
  <2>6. QED
    BY <2>2, <2>5, <1>4, <1>6 DEF RunsAreSound, Newest
<1>10. QED
  BY <1>1, <1>7, <1>8, <1>9
\* The levels of a merge that has been handed over.
IsPassedOn(f, p, r, i) ==
  /\ r \in [0..Levels -> Places]
  /\ \A j \in 0..Levels : j # i /\ j # i + 1 => r[j] = p[j]
  /\ r[i] = [p[i] EXCEPT !.kind = "done"]
  /\ IsRaised(f, p, i, r[i + 1])

\* A level whose merge is done keeps all but its kind.
LEMMA DoneForm ==
  ASSUME NEW q \in Places
  PROVE  LET d == [q EXCEPT !.kind = "done"] IN
         /\ d \in Places /\ d.kind = "done" /\ d.a = q.a /\ d.b = q.b /\ d.c = q.c
         /\ d.into = q.into /\ d.before = q.before /\ d.end = q.end /\ d.seen = q.seen
  BY DEF Places, Place, Kinds

\* A slot that is consumed keeps all but its state.
LEMMA ConsumedForm ==
  ASSUME NEW x \in Slot
  PROVE  [x EXCEPT !.state = "consumed"]
         = [state |-> "consumed", object |-> x.object, route |-> x.route, ever_visible |-> x.ever_visible]
  BY DEF Slot

\* A function keeps its type when one value is overwritten.
LEMMA OverwriteType ==
  ASSUME NEW S, NEW T, NEW h \in [S -> T], NEW x, NEW y \in T
  PROVE  [h EXCEPT ![x] = y] \in [S -> T]
  OBVIOUS

\* The commit lays the frontier out again, the merged run one level up.
LEMMA HandingLaysOut ==
  ASSUME NEW f, NEW p, IsLaidOut(f, p), NEW i \in Working(f), f.jobs[i].stage = "commit"
  PROVE  \E r : IsPassedOn(f, p, r, i) /\ IsLaidOut(Handed(f, i), r)
<1> DEFINE g == Handed(f, i)
           job == f.jobs[i]
           above == p[i + 1]
           done == [p[i] EXCEPT !.kind = "done"]
           q == [kind |-> IF above.kind = "one" THEN "two" ELSE IF above.kind = "none" THEN "one" ELSE "fresh",
                 a |-> IF above.kind = "done" THEN above.c ELSE above.a,
                 b |-> IF above.kind = "done" THEN above.a ELSE above.b,
                 c |-> IF above.kind = "done" THEN above.b ELSE above.c,
                 into |-> Target(job), before |-> above.into, end |-> p[i].end, seen |-> FALSE]
           r == [p EXCEPT ![i] = done, ![i + 1] = q]
<1>1. /\ i \in Level /\ i + 1 \in Level /\ i \in Nat /\ JobIsSound(f, p, i) /\ job \in Job
      /\ Reserved(f, i + 1) /\ (i + 1) + 1 = i + 2 /\ (i + 1) - 1 = i
      /\ p[i].kind = "two" /\ above.kind \in {"none", "one", "done"}
      /\ i \in 0..Levels /\ i + 1 \in 0..Levels /\ i + 2 \in 0..Levels /\ 0 \in 0..Levels
  <2>1. /\ i \in Level /\ i + 1 \in Level /\ i \in Nat /\ JobIsSound(f, p, i) /\ job \in Job
        /\ Reserved(f, i + 1) /\ (i + 1) - 1 = i
        /\ p[i].kind = "two" /\ above.kind \in {"none", "one", "done"}
    BY JobAt
  <2>2. (i + 1) + 1 = i + 2 /\ i \in 0..Levels /\ i + 1 \in 0..Levels /\ i + 2 \in 0..Levels /\ 0 \in 0..Levels
    BY <2>1, RuntimeAssumption DEF Level
  <2>3. QED
    BY <2>1, <2>2
<1>2. /\ IsHanded(f, p, g, i) /\ ~Reserved(f, i) /\ above.seen
  BY <1>1, HandedIs, ReservedIs
<1>3. /\ p \in [0..Levels -> Places] /\ IsBare(p[Levels]) /\ IsTyped(f) /\ f.height \in 1..Levels
      /\ Working(f) \subseteq Level /\ f.objects \in Seq(Object)
      /\ f.jobs \in [Working(f) -> Job] /\ f.last \in [Level -> [identity : Nat, visible : BOOLEAN]]
      /\ p[i] \in Places /\ above \in Places
  BY <1>1, StackOf DEF IsLaidOut
<1>4. q \in Places /\ IsRaised(f, p, i, q)
  <2>1. IsRaised(f, p, i, q)
    BY DEF IsRaised
  <2>2. Target(job) \in Route
    BY <1>1, TargetType
  <2>3. /\ q.a \in Slots /\ q.b \in Slots /\ q.c \in Slots /\ q.a # q.b /\ q.a # q.c /\ q.b # q.c
        /\ above.into \in Route /\ p[i].end \in Nat
    BY <1>3, PlaceType
  <2>4. q.kind \in Kinds
    BY DEF Kinds
  <2>5. q \in Place
    BY <2>2, <2>3, <2>4 DEF Place
  <2> HIDE DEF q
  <2>6. QED
    BY <2>1, <2>3, <2>5 DEF Places
<1>5. /\ done \in Places /\ done.kind = "done" /\ done.a = p[i].a /\ done.b = p[i].b /\ done.c = p[i].c
      /\ done.into = p[i].into /\ done.before = p[i].before /\ done.end = p[i].end /\ done.seen = p[i].seen
  BY <1>3, DoneForm
<1> HIDE DEF g, q, done
<1>6. /\ r \in [0..Levels -> Places] /\ r[i] = done /\ r[i + 1] = q
      /\ \A j \in 0..Levels : j # i /\ j # i + 1 => r[j] = p[j]
  BY <1>1, <1>3, <1>4, <1>5
<1> HIDE DEF r
<1>7. IsPassedOn(f, p, r, i)
  BY <1>4, <1>6 DEF IsPassedOn, done
<1>8. /\ RunsAreSound(f.objects, q, p[(i + 1) + 1], i + 1)
      /\ DoneRuns(f.objects, p[i], q, i)
      /\ Newest(q) = job.output /\ job.output # Null
  BY <1>4, RaisedIs
<1>9. /\ DOMAIN g = FrontierFields
      /\ g.admissions = f.admissions /\ g.service_due = f.service_due /\ g.height = f.height
      /\ g.root = f.root /\ g.objects = f.objects
      /\ g.jobs = [j \in Working(f) \ {i} |-> f.jobs[j]]
      /\ g.last = [f.last EXCEPT ![i + 1] = [identity |-> job.output, visible |-> FALSE]]
      /\ g.slots \in [Level -> [Slots -> Slot]]
      /\ \A j \in Level : j # i /\ j # i + 1 => g.slots[j] = f.slots[j]
  BY <1>2 DEF IsHanded
<1>10. /\ Working(g) = Working(f) \ {i} /\ \A j \in Working(g) : g.jobs[j] = f.jobs[j]
       /\ ~Reserved(g, i + 1) /\ \A j \in Level : j # i + 1 => (Reserved(g, j) <=> Reserved(f, j))
       /\ Working(g) \subseteq Working(f)
  BY <1>1, <1>9 DEF Working, Reserved, Level
<1>11. IsTyped(g)
  <2>1. g.jobs \in [DOMAIN g.jobs -> Job] /\ DOMAIN g.jobs \subseteq Level
    BY <1>3, <1>9
  <2>2. g.last \in [Level -> [identity : Nat, visible : BOOLEAN]]
    <3>1. [identity |-> job.output, visible |-> FALSE] \in [identity : Nat, visible : BOOLEAN]
      BY <1>1 DEF Job
    <3>2. f.last \in [Level -> [identity : Nat, visible : BOOLEAN]]
      BY <1>3
    <3>3. [f.last EXCEPT ![i + 1] = [identity |-> job.output, visible |-> FALSE]] \in [Level -> [identity : Nat, visible : BOOLEAN]]
      BY <3>1, <3>2, OverwriteType
    <3>4. QED
      BY <3>3, <1>9
  <2>3. QED
    BY <2>1, <2>2, <1>3, <1>9 DEF IsTyped, IsFrontier
<1>12. Grown(f.objects, g.objects) /\ f.height \in Nat /\ g.height = f.height
  BY <1>3, <1>9, GrownSame
<1>13. ASSUME NEW j \in Level, j # i, j # i + 1 PROVE LevelIsSound(g, r, j)
  <2>1. r[j] = p[j] /\ g.slots[j] = f.slots[j] /\ g.last[j] = f.last[j]
    <3>1. j \in 0..Levels
      BY RuntimeAssumption DEF Level
    <3>2. QED
      BY <3>1, <1>3, <1>6, <1>9, <1>13
  <2>2. LooksAlike(p[j + 1], r[j + 1])
    <3>1. j + 1 \in 0..Levels /\ j + 1 # i + 1
      BY <1>1, <1>13, RuntimeAssumption DEF Level
    <3>2. CASE j + 1 = i
      BY <3>2, <1>1, <1>5, <1>6 DEF LooksAlike
    <3>3. CASE j + 1 # i
      BY <3>1, <3>3, <1>6, SameLooks
    <3>4. QED
      BY <3>2, <3>3
  <2>3. (Reserved(g, j) <=> Reserved(f, j)) /\ (j \in Working(g) <=> j \in Working(f))
    BY <1>10, <1>13
  <2>4. Reserved(f, j) => g.jobs[j - 1].output = f.jobs[j - 1].output
    BY <2>3, <1>10 DEF Reserved
  <2>5. QED
    BY <2>1, <2>2, <2>3, <2>4, <1>12, LevelStays
<1>14. /\ RunsAreSound(f.objects, p[i], above, i) /\ SlotsAreSound(f, i, p[i], above) /\ LastIsSound(f, i, p[i])
       /\ i >= f.height => p[i].kind = "none"
       /\ SlotsAreSound(f, i + 1, above, p[(i + 1) + 1]) /\ LastIsSound(f, i + 1, above)
       /\ i + 1 < f.height
  <2>1. i + 1 < f.height
    BY <1>1 DEF JobIsSound
  <2>2. QED
    BY <2>1, <1>1, LevelAt
<1>15. LevelIsSound(g, r, i)
  <2>1. RunsAreSound(g.objects, done, q, i)
    <3>1. DoneRuns(f.objects, done, q, i)
      BY <1>5, <1>8 DEF DoneRuns
    <3>2. QED
      BY <3>1, <1>5, <1>9 DEF RunsAreSound
  <2>2. LastIsSound(g, i, done)
    <3>1. g.last[i] = f.last[i]
      BY <1>1, <1>3, <1>9
    <3>2. Newest(done) = Newest(p[i])
      BY <1>1, <1>5 DEF Newest
    <3>3. QED
      BY <3>1, <3>2, <1>5, <1>14 DEF LastIsSound
  <2>3. SlotsAreSound(g, i, done, q)
    <3>1. /\ f.slots[i][p[i].a] = Keeping("active", p[i].into.main, TRUE)
          /\ f.slots[i][p[i].b] = Keeping("active", p[i].into.secondary, p[i].seen)
      BY <1>1, <1>14 DEF SlotsAreSound, SlotsAre
    <3>2. /\ f.slots[i][p[i].a] \in Slot /\ f.slots[i][p[i].b] \in Slot
      BY <1>1, <1>3, StackOf, PlaceType
    <3>3. /\ g.slots[i][p[i].a] = [f.slots[i][p[i].a] EXCEPT !.state = "consumed"]
          /\ g.slots[i][p[i].b] = [f.slots[i][p[i].b] EXCEPT !.state = "consumed"]
      BY <1>2 DEF IsHanded
    <3>4. /\ f.slots[i][p[i].a].object = p[i].into.main /\ f.slots[i][p[i].a].route = Nowhere
          /\ f.slots[i][p[i].a].ever_visible = TRUE
          /\ f.slots[i][p[i].b].object = p[i].into.secondary /\ f.slots[i][p[i].b].route = Nowhere
          /\ f.slots[i][p[i].b].ever_visible = p[i].seen
      BY <3>1 DEF Keeping
    <3>5. /\ g.slots[i][p[i].a] = Keeping("consumed", p[i].into.main, TRUE)
          /\ g.slots[i][p[i].b] = Keeping("consumed", p[i].into.secondary, p[i].seen)
      <4> DEFINE x == f.slots[i][p[i].a]
                 y == f.slots[i][p[i].b]
      <4>1. /\ g.slots[i][p[i].a]
               = [state |-> "consumed", object |-> x.object, route |-> x.route, ever_visible |-> x.ever_visible]
            /\ g.slots[i][p[i].b]
               = [state |-> "consumed", object |-> y.object, route |-> y.route, ever_visible |-> y.ever_visible]
        BY <3>2, <3>3, ConsumedForm
      <4>2. /\ x.object = p[i].into.main /\ x.route = Nowhere /\ x.ever_visible = TRUE
            /\ y.object = p[i].into.secondary /\ y.route = Nowhere /\ y.ever_visible = p[i].seen
        BY <3>4
      <4> HIDE DEF x, y
      <4>3. QED
        BY <4>1, <4>2 DEF Keeping
    <3>6. g.slots[i][p[i].c] = Waiting(g, i, Carrier("carrier_ready", Null, q.into))
      <4>1. g.slots[i][p[i].c] = Carrier("carrier_ready", Null, Target(job))
        BY <1>2 DEF IsHanded
      <4>2. ~Reserved(g, i) /\ q.into = Target(job)
        BY <1>1, <1>2, <1>4, <1>10 DEF IsRaised
      <4>3. QED
        BY <4>1, <4>2 DEF Waiting
    <3>7. SlotsAre(g, i, done, Keeping("consumed", done.into.main, TRUE), Keeping("consumed", done.into.secondary, done.seen),
                   Waiting(g, i, Carrier("carrier_ready", Null, q.into)))
      BY <3>5, <3>6, <1>5 DEF SlotsAre
    <3>8. QED
      BY <3>7, <1>5 DEF SlotsAreSound
  <2>4. ~(i >= g.height)
    BY <1>1, <1>12, <1>14
  <2>5. QED
    BY <2>1, <2>2, <2>3, <2>4, <1>6 DEF LevelIsSound
<1>16. LevelIsSound(g, r, i + 1)
  <2> DEFINE id == job.output
             next == p[(i + 1) + 1]
  <2>1. r[i + 1] = q /\ r[(i + 1) + 1] = next
    BY <1>1, <1>6
  <2>2. RunsAreSound(g.objects, q, next, i + 1)
    BY <1>8, <1>9
  <2>3. LastIsSound(g, i + 1, q)
    <3>1. g.last[i + 1] = [identity |-> id, visible |-> FALSE]
      BY <1>1, <1>3, <1>9
    <3>2. QED
      BY <3>1, <1>4, <1>8 DEF LastIsSound, IsRaised
  <2>4. /\ above.a \in Slots /\ above.b \in Slots /\ above.c \in Slots
        /\ above.a # above.b /\ above.a # above.c /\ above.b # above.c
    BY <1>3, PlaceType
  <2>5. /\ g.slots[i + 1][Vacancy(above)] = Holding("active", id)
        /\ \A s \in Slots : s # Vacancy(above) => g.slots[i + 1][s] = f.slots[i + 1][s]
    BY <1>2 DEF IsHanded
  <2>6. Holding("active", id) = Keeping("active", id, FALSE)
    BY DEF Holding, Carrier, Keeping
  <2>7. \A idle : Waiting(g, i + 1, idle) = idle
    BY <1>10 DEF Waiting
  <2>8. i + 1 \notin Working(g)
    <3>1. SUFFICES ASSUME i + 1 \in Working(f) PROVE FALSE
      BY <1>10
    <3>2. p[i + 1].kind = "two"
      BY <3>1, JobAt
    <3>3. QED
      BY <3>2, <1>1
  <2>9. SlotsAreSound(g, i + 1, q, next)
    <3>1. CASE above.kind = "none"
      <4>1. /\ q.kind = "one" /\ q.a = above.a /\ q.b = above.b /\ q.c = above.c /\ q.seen = FALSE /\ Vacancy(above) = above.a
            /\ q.into = [main |-> id, secondary |-> Null]
        BY <3>1, <1>1, <1>4 DEF IsRaised, Vacancy, Target, JobIsSound
      <4>2. f.slots[i + 1][above.b] = Empty /\ f.slots[i + 1][above.c] = Empty
        BY <3>1, <1>14 DEF SlotsAreSound, SlotsAre
      <4>3. /\ g.slots[i + 1][above.a] = Keeping("active", id, FALSE)
            /\ g.slots[i + 1][above.b] = Empty /\ g.slots[i + 1][above.c] = Empty
        BY <4>1, <4>2, <2>4, <2>5, <2>6
      <4>4. SlotsAre(g, i + 1, q, Keeping("active", q.into.main, q.seen), Waiting(g, i + 1, Empty), Empty)
        <5>1. q.into.main = id
          BY <4>1
        <5>2. Keeping("active", q.into.main, q.seen) = Keeping("active", id, FALSE)
          BY <4>1, <5>1 DEF Keeping
        <5>3. QED
          BY <4>1, <4>3, <5>2, <2>7 DEF SlotsAre
      <4>5. QED
        BY <4>1, <4>4 DEF SlotsAreSound
    <3>2. CASE above.kind = "one"
      <4>1. /\ q.kind = "two" /\ q.a = above.a /\ q.b = above.b /\ q.c = above.c /\ q.seen = FALSE /\ Vacancy(above) = above.b
            /\ q.into = [main |-> above.into.main, secondary |-> id]
        BY <3>2, <1>1, <1>4 DEF IsRaised, Vacancy, Target, JobIsSound
      <4>2. f.slots[i + 1][above.a] = Keeping("active", above.into.main, TRUE) /\ f.slots[i + 1][above.c] = Empty
        BY <3>2, <1>2, <1>14 DEF SlotsAreSound, SlotsAre, Keeping
      <4>3. /\ g.slots[i + 1][above.b] = Keeping("active", id, FALSE)
            /\ g.slots[i + 1][above.a] = Keeping("active", above.into.main, TRUE) /\ g.slots[i + 1][above.c] = Empty
        BY <4>1, <4>2, <2>4, <2>5, <2>6
      <4>4. SlotsAre(g, i + 1, q, Keeping("active", q.into.main, TRUE), Keeping("active", q.into.secondary, q.seen), Empty)
        <5>1. q.into.main = above.into.main /\ q.into.secondary = id
          BY <4>1
        <5>2. /\ Keeping("active", q.into.secondary, q.seen) = Keeping("active", id, FALSE)
              /\ Keeping("active", q.into.main, TRUE) = Keeping("active", above.into.main, TRUE)
          BY <4>1, <5>1 DEF Keeping
        <5>3. QED
          BY <4>1, <4>3, <5>2 DEF SlotsAre
      <4>5. QED
        BY <4>1, <4>4, <2>8 DEF SlotsAreSound
    <3>3. CASE above.kind = "done"
      <4>1. /\ q.kind = "fresh" /\ q.a = above.c /\ q.b = above.a /\ q.c = above.b /\ q.seen = FALSE /\ Vacancy(above) = above.c
            /\ q.into = [main |-> id, secondary |-> Null] /\ q.before = above.into
        BY <3>3, <1>1, <1>4 DEF IsRaised, Vacancy, Target, JobIsSound
      <4>2. /\ f.slots[i + 1][above.a] = Keeping("consumed", above.into.main, TRUE)
            /\ f.slots[i + 1][above.b] = Keeping("consumed", above.into.secondary, TRUE)
        BY <3>3, <1>2, <1>14 DEF SlotsAreSound, SlotsAre, Keeping
      <4>3. /\ g.slots[i + 1][above.c] = Keeping("active", id, FALSE)
            /\ g.slots[i + 1][above.a] = Keeping("consumed", above.into.main, TRUE)
            /\ g.slots[i + 1][above.b] = Keeping("consumed", above.into.secondary, TRUE)
        BY <4>1, <4>2, <2>4, <2>5, <2>6
      <4>4. SlotsAre(g, i + 1, q, Keeping("active", q.into.main, FALSE), Keeping("consumed", q.before.main, TRUE),
                     Keeping("consumed", q.before.secondary, TRUE))
        BY <4>1, <4>3 DEF SlotsAre, Keeping
      <4>5. QED
        BY <4>1, <4>4 DEF SlotsAreSound
    <3>4. QED
      BY <3>1, <3>2, <3>3, <1>1
  <2>10. ~(i + 1 >= g.height)
    BY <1>1, <1>12, <1>14
  <2>11. QED
    BY <2>1, <2>2, <2>3, <2>9, <2>10 DEF LevelIsSound
<1>17. ASSUME NEW j \in Working(g) PROVE JobIsSound(g, r, j)
  <2>1. /\ j \in Working(f) /\ j \in Level /\ j + 1 \in Level /\ j # i /\ JobIsSound(f, p, j)
        /\ p[j].kind = "two" /\ p[j + 1].kind \in {"none", "one", "done"}
    BY <1>10, JobAt
  <2>2. j # i + 1 /\ j + 1 # i /\ j + 1 # i + 1
    BY <2>1, <1>1 DEF Level
  <2>3. j \in 0..Levels /\ j + 1 \in 0..Levels /\ j + 2 \in 0..Levels /\ j + 2 # i + 1
    BY <2>1, <2>2, <1>1, RuntimeAssumption DEF Level
  <2>4. r[j] = p[j] /\ r[j + 1] = p[j + 1]
    BY <2>1, <2>2, <2>3, <1>6
  <2>5. r[j + 2].into = p[j + 2].into
    BY <2>3, <1>1, <1>5, <1>6
  <2>6. g.jobs[j] = f.jobs[j] /\ f.height <= g.height /\ g.height \in Nat
    BY <1>10, <1>12
  <2>7. QED
    BY <2>1, <2>4, <2>5, <2>6, <1>12, JobStays
<1>18. IsBare(r[Levels])
  <2>1. Levels \in 0..Levels /\ Levels # i /\ Levels # i + 1
    BY <1>1, RuntimeAssumption DEF Level
  <2>2. QED
    BY <2>1, <1>3, <1>6
<1>19. IsLaidOut(g, r)
  BY <1>6, <1>11, <1>13, <1>15, <1>16, <1>17, <1>18 DEF IsLaidOut
<1>20. QED
  BY <1>7, <1>19 DEF g
-----------------------------------------------------------------------------
(* A new root *)

\* A level that a root reaches for the first time: what it replaced goes.
Found(q) ==
  [kind |-> IF q.kind = "fresh" THEN "one" ELSE q.kind, a |-> q.a, b |-> q.b, c |-> q.c, into |-> q.into,
   before |-> IF q.kind = "fresh" THEN Nowhere ELSE q.before, end |-> q.end, seen |-> TRUE]

\* A level that a root reaches keeps its latest runs and no older ones.
LEMMA FoundForm ==
  ASSUME NEW q \in Places
  PROVE  /\ Found(q) \in Places
         /\ Found(q).kind = IF q.kind = "fresh" THEN "one" ELSE q.kind
         /\ Found(q).a = q.a /\ Found(q).b = q.b /\ Found(q).c = q.c /\ Found(q).into = q.into
         /\ Found(q).before = IF q.kind = "fresh" THEN Nowhere ELSE q.before
         /\ Found(q).end = q.end /\ Found(q).seen
<1>1. /\ q.kind \in Kinds /\ q.a \in Slots /\ q.b \in Slots /\ q.c \in Slots
      /\ q.a # q.b /\ q.a # q.c /\ q.b # q.c
      /\ q.into \in Route /\ q.before \in Route /\ q.end \in Nat
  BY PlaceType
<1>2. /\ Found(q).kind = IF q.kind = "fresh" THEN "one" ELSE q.kind
      /\ Found(q).a = q.a /\ Found(q).b = q.b /\ Found(q).c = q.c /\ Found(q).into = q.into
      /\ Found(q).before = IF q.kind = "fresh" THEN Nowhere ELSE q.before
      /\ Found(q).end = q.end /\ Found(q).seen
  BY DEF Found
<1>3. Found(q) \in Place
  <2>1. (IF q.kind = "fresh" THEN "one" ELSE q.kind) \in Kinds
    BY <1>1 DEF Kinds
  <2>2. (IF q.kind = "fresh" THEN Nowhere ELSE q.before) \in Route
    BY <1>1 DEF Route, Nowhere, Null
  <2>3. QED
    BY <2>1, <2>2, <1>1 DEF Found, Place
<1>4. QED
  BY <1>1, <1>2, <1>3 DEF Places

\* Two runs of a level are told apart by where they begin.
LEMMA FreshApart ==
  ASSUME NEW objects \in Seq(Object), NEW q \in Places, NEW above \in Places, NEW i \in Level,
         RunsAreSound(objects, q, above, i), q.kind = "fresh"
  PROVE  /\ q.before.main \notin Ends(q.into) /\ q.before.secondary \notin Ends(q.into)
         /\ q.into.main \in Ends(q.into)
<1>1. FreshRun(objects, q, above, i) /\ above.end \in Nat /\ RunMass[i] \in Nat \ {0}
  BY PlaceType, RunMassIs, RuntimeAssumption DEF RunsAreSound, Level
<1>2. /\ q.into.main \in DOMAIN objects /\ objects[q.into.main].first = above.end
      /\ ~objects[q.into.main].secondary
      /\ objects[q.before.main].first = above.end - 2 * RunMass[i]
      /\ objects[q.before.secondary].secondary
      /\ q.into.secondary = Null
  BY <1>1 DEF FreshRun, IsRun
<1>3. Ends(q.into) = {q.into.main}
  <2>1. 0 \notin DOMAIN objects
    OBVIOUS
  <2>2. q.into.main # 0
    BY <1>2, <2>1
  <2>3. QED
    BY <1>2, <2>2 DEF Ends, Null
<1>4. above.end - 2 * RunMass[i] # above.end
  BY <1>1
<1>5. q.before.main # q.into.main
  BY <1>2, <1>4
<1>6. q.before.secondary # q.into.main
  BY <1>2
<1>7. QED
  BY <1>3, <1>5, <1>6

\* The slots of such a level, and its last output.
LEMMA LevelIsFound ==
  ASSUME NEW f, NEW p, IsLaidOut(f, p), NEW j \in Level, j # 0, ~p[j].seen,
         NEW g, NEW other, Grown(f.objects, g.objects),
         g.slots[j] = [s \in Slots |-> Marked(f.slots[j][s], Ends(p[j].into))],
         g.last[j] = Noticed(f.last[j], Ends(p[j].into)),
         other.into = p[j + 1].into, other.end = p[j + 1].end,
         IF p[j].kind = "fresh" THEN other.seen ELSE other = p[j + 1],
         Working(g) = Working(f), f.height = g.height
  PROVE  /\ RunsAreSound(g.objects, Found(p[j]), other, j)
         /\ SlotsAreSound(g, j, Found(p[j]), other)
         /\ LastIsSound(g, j, Found(p[j]))
         /\ j >= g.height => Found(p[j]).kind = "none"
<1> DEFINE q == p[j]
           n == Found(q)
           E == Ends(q.into)
           above == p[j + 1]
<1>1. /\ q \in Places /\ above \in Places /\ RunsAreSound(f.objects, q, above, j) /\ SlotsAreSound(f, j, q, above)
      /\ LastIsSound(f, j, q) /\ (j >= f.height => q.kind = "none") /\ RunMass[j] \in Nat \ {0}
      /\ f.objects \in Seq(Object) /\ f.slots \in [Level -> [Slots -> Slot]]
      /\ f.last \in [Level -> [identity : Nat, visible : BOOLEAN]]
  BY LevelAt, StackOf
<1>2. /\ n \in Places /\ n.kind = IF q.kind = "fresh" THEN "one" ELSE q.kind
      /\ n.a = q.a /\ n.b = q.b /\ n.c = q.c /\ n.into = q.into
      /\ n.before = IF q.kind = "fresh" THEN Nowhere ELSE q.before
      /\ n.end = q.end /\ n.seen
  BY <1>1, FoundForm
<1>3. /\ q.kind \in Kinds /\ q.a \in Slots /\ q.b \in Slots /\ q.c \in Slots /\ q.seen \in BOOLEAN
      /\ q.into \in Route /\ above.end \in Nat
  BY <1>1, PlaceType
<1>4. q.kind # "none" /\ q.kind # "root" /\ ~Reserved(f, j) /\ ~Reserved(g, j)
  <2>1. q.kind # "none" /\ q.kind # "root"
    BY <1>1 DEF RunsAreSound, IsBare, RootRun
  <2>2. ~Reserved(f, j)
    BY ReservedIs
  <2>3. QED
    BY <2>1, <2>2 DEF Reserved
<1>5. \A idle : Waiting(f, j, idle) = idle /\ Waiting(g, j, idle) = idle
  BY <1>4 DEF Waiting
<1>6. Null \notin E /\ \A s \in Slots : g.slots[j][s] = Marked(f.slots[j][s], E)
  BY DEF Ends
<1>7. /\ Marked(Empty, E) = Empty
      /\ \A route : Marked(Carrier("carrier_ready", Null, route), E) = Carrier("carrier_ready", Null, route)
      /\ Marked(Holding("carrier_building", Null), E) = Holding("carrier_building", Null)
  <2>1. Marked(Empty, E) = Empty
    BY <1>6 DEF Marked, Empty
  <2>2. \A route : Marked(Carrier("carrier_ready", Null, route), E) = Carrier("carrier_ready", Null, route)
    BY <1>6 DEF Marked, Carrier
  <2>3. Marked(Holding("carrier_building", Null), E) = Holding("carrier_building", Null)
    BY <1>6 DEF Marked, Carrier, Holding
  <2>4. QED
    BY <2>1, <2>2, <2>3
<1>8. /\ g.slots[j][q.a] = Marked(f.slots[j][q.a], E)
       /\ g.slots[j][q.b] = Marked(f.slots[j][q.b], E)
       /\ g.slots[j][q.c] = Marked(f.slots[j][q.c], E)
  BY <1>3, <1>6
<1>9. f.last[j].identity = Newest(q) /\ f.last[j].identity # Null /\ ~f.last[j].visible
  BY <1>1, <1>3 DEF LastIsSound
<1> HIDE DEF q, n, E, above
<1>10. Newest(n) = Newest(q) /\ Newest(q) \in E
  <2>1. Newest(n) = Newest(q)
    BY <1>2, <1>3 DEF Newest, Kinds
  <2>2. Newest(q) \in {q.into.main, q.into.secondary}
    BY <1>9 DEF Newest
  <2>3. QED
    BY <2>1, <2>2, <1>9 DEF E, Ends
<1>11. LastIsSound(g, j, n)
  <2>1. g.last[j].identity = Newest(q) /\ g.last[j].visible
    <3>1. f.last[j] \in [identity : Nat, visible : BOOLEAN] /\ g.last[j] = Noticed(f.last[j], E)
      BY <1>1 DEF E, q
    <3>2. QED
      BY <3>1, <1>9, <1>10 DEF Noticed
  <2>2. QED
    BY <2>1, <1>2, <1>10 DEF LastIsSound
<1>12. j >= g.height => n.kind = "none"
  BY <1>1, <1>2
<1>13. (q.kind = "fresh" => other.seen) /\ (q.kind # "fresh" => other = above) /\ other.into = above.into /\ other.end = above.end
  BY DEF q, above
<1>14. CASE q.kind = "fresh"
  <2>1. FreshRun(f.objects, q, above, j)
    BY <1>1, <1>14 DEF RunsAreSound
  <2>2. /\ IsRun(g.objects, n.into.main, j, other.end, FALSE, other.into)
        /\ n.into.secondary = Null /\ n.before = Nowhere
        /\ n.end = other.end + RunMass[j]
    <3>1. IsRun(g.objects, q.into.main, j, above.end, FALSE, above.into)
      BY <2>1, RunGrows DEF FreshRun
    <3>2. QED
      BY <3>1, <2>1, <1>2, <1>13, <1>14 DEF FreshRun
  <2>3. OneRun(g.objects, n, other, j)
    BY <2>2, <1>2, <1>13, <1>14 DEF OneRun
  <2>4. q.before.main \notin E /\ q.before.secondary \notin E /\ q.into.main \in E
    BY <1>1, <1>14, FreshApart DEF E
  <2>5. /\ f.slots[j][q.a] = Keeping("active", q.into.main, FALSE)
        /\ f.slots[j][q.b] = Keeping("consumed", q.before.main, TRUE)
        /\ f.slots[j][q.c] = Keeping("consumed", q.before.secondary, TRUE)
    BY <1>1, <1>14 DEF SlotsAreSound, SlotsAre
  <2>6. /\ g.slots[j][q.a] = Keeping("active", q.into.main, TRUE)
        /\ g.slots[j][q.b] = Empty /\ g.slots[j][q.c] = Empty
    <3>1. Marked(Keeping("active", q.into.main, FALSE), E) = Keeping("active", q.into.main, TRUE)
      BY <2>4 DEF Marked, Keeping
    <3>2. Marked(Keeping("consumed", q.before.main, TRUE), E) = Empty
      BY <2>4 DEF Marked, Keeping
    <3>3. Marked(Keeping("consumed", q.before.secondary, TRUE), E) = Empty
      BY <2>4 DEF Marked, Keeping
    <3>4. QED
      BY <2>5, <3>1, <3>2, <3>3, <1>8
  <2>7. SlotsAre(g, j, n, Keeping("active", n.into.main, n.seen), Waiting(g, j, Empty), Empty)
    <3>1. Keeping("active", n.into.main, n.seen) = Keeping("active", q.into.main, TRUE)
      BY <1>2 DEF Keeping
    <3>2. QED
      BY <2>6, <3>1, <1>2, <1>5 DEF SlotsAre
  <2>8. n.kind = "one"
    BY <1>2, <1>14
  <2>9. QED
    BY <2>3, <2>7, <2>8, <1>11, <1>12 DEF RunsAreSound, SlotsAreSound, n, q
<1>15. CASE q.kind = "one"
  <2>1. OneRun(f.objects, q, above, j) /\ ~q.seen
    BY <1>1, <1>15 DEF RunsAreSound, q
  <2>2. above.kind = "none" /\ other = above
    BY <2>1, <1>13, <1>15 DEF OneRun
  <2>3. above.seen
    BY <2>2, StackOf, LevelAt, BareIs DEF IsBare, above
  <2>4. OneRun(g.objects, n, other, j)
    <3>1. OneRun(g.objects, q, above, j)
      <4>1. RunsAreSound(g.objects, q, above, j)
        BY <1>1, RunsStay, SameLooks
      <4>2. QED
        BY <4>1, <1>15 DEF RunsAreSound
    <3>2. QED
      BY <3>1, <2>2, <2>3, <1>2, <1>15 DEF OneRun
  <2>5. /\ f.slots[j][q.a] = Keeping("active", q.into.main, q.seen)
        /\ f.slots[j][q.b] = Empty /\ f.slots[j][q.c] = Empty
    BY <1>1, <1>5, <1>15 DEF SlotsAreSound, SlotsAre
  <2>6. q.into.main \in E
    BY <1>9, <1>10, <1>15 DEF Newest
  <2>7. /\ g.slots[j][q.a] = Keeping("active", q.into.main, TRUE)
        /\ g.slots[j][q.b] = Empty /\ g.slots[j][q.c] = Empty
    <3>1. Marked(Keeping("active", q.into.main, q.seen), E) = Keeping("active", q.into.main, TRUE)
      BY <2>6 DEF Marked, Keeping
    <3>2. QED
      BY <2>5, <1>7, <3>1, <1>8
  <2>8. SlotsAre(g, j, n, Keeping("active", n.into.main, n.seen), Waiting(g, j, Empty), Empty)
    <3>1. Keeping("active", n.into.main, n.seen) = Keeping("active", q.into.main, TRUE)
      BY <1>2 DEF Keeping
    <3>2. QED
      BY <2>7, <3>1, <1>2, <1>5 DEF SlotsAre
  <2>9. n.kind = "one"
    BY <1>2, <1>15
  <2>10. QED
    BY <2>4, <2>8, <2>9, <1>11, <1>12 DEF RunsAreSound, SlotsAreSound, n, q
<1>16. ASSUME q.kind \in {"two", "done"}
       PROVE  /\ q.into.main \in E /\ q.into.secondary \in E
              /\ RunsAreSound(g.objects, n, above, j) /\ n.kind = q.kind /\ n.before = q.before
  <2>1. n.kind = q.kind /\ n.before = q.before
    BY <1>2, <1>16
  <2>2. RunsAreSound(g.objects, q, above, j)
    BY <1>1, RunsStay, SameLooks
  <2>3. RunsAreSound(g.objects, n, above, j)
    BY <2>1, <2>2, <1>2, <1>16 DEF RunsAreSound, TwoRuns, DoneRuns
  <2>4. q.into.main \in DOMAIN f.objects /\ q.into.secondary \in DOMAIN f.objects
    BY <1>1, <1>16 DEF RunsAreSound, TwoRuns, DoneRuns, IsRun
  <2>5. QED
    BY <2>1, <2>3, <2>4, <1>1 DEF E, Ends, Null
<1>17. CASE q.kind = "two"
  <2>1. /\ f.slots[j][q.a] = Keeping("active", q.into.main, TRUE)
        /\ f.slots[j][q.b] = Keeping("active", q.into.secondary, q.seen)
        /\ f.slots[j][q.c] = IF j \in Working(f) THEN Holding("carrier_building", Null) ELSE Empty
    BY <1>1, <1>17 DEF SlotsAreSound, SlotsAre
  <2>2. /\ g.slots[j][q.a] = Keeping("active", q.into.main, TRUE)
        /\ g.slots[j][q.b] = Keeping("active", q.into.secondary, TRUE)
    <3>1. Marked(Keeping("active", q.into.main, TRUE), E) = Keeping("active", q.into.main, TRUE)
      BY <1>16, <1>17 DEF Marked, Keeping
    <3>2. Marked(Keeping("active", q.into.secondary, q.seen), E) = Keeping("active", q.into.secondary, TRUE)
      BY <1>16, <1>17 DEF Marked, Keeping
    <3>3. QED
      BY <2>1, <3>1, <3>2, <1>8
  <2>3. g.slots[j][q.c] = IF j \in Working(f) THEN Holding("carrier_building", Null) ELSE Empty
    BY <2>1, <1>3, <1>6, <1>7
  <2>4. SlotsAre(g, j, n, Keeping("active", n.into.main, TRUE), Keeping("active", n.into.secondary, n.seen),
                 IF j \in Working(g) THEN Holding("carrier_building", Null) ELSE Empty)
    <3>1. /\ Keeping("active", n.into.secondary, n.seen) = Keeping("active", q.into.secondary, TRUE)
          /\ Keeping("active", n.into.main, TRUE) = Keeping("active", q.into.main, TRUE)
      BY <1>2 DEF Keeping
    <3>2. QED
      BY <2>2, <2>3, <3>1, <1>2 DEF SlotsAre
  <2>5. other = above
    BY <1>13, <1>17
  <2>6. QED
    BY <2>4, <2>5, <1>11, <1>12, <1>16, <1>17 DEF SlotsAreSound, n, q
<1>18. CASE q.kind = "done"
  <2>1. /\ f.slots[j][q.a] = Keeping("consumed", q.into.main, TRUE)
        /\ f.slots[j][q.b] = Keeping("consumed", q.into.secondary, q.seen)
        /\ f.slots[j][q.c] = Carrier("carrier_ready", Null, above.into)
    BY <1>1, <1>5, <1>18 DEF SlotsAreSound, SlotsAre
  <2>2. /\ g.slots[j][q.a] = Keeping("consumed", q.into.main, TRUE)
        /\ g.slots[j][q.b] = Keeping("consumed", q.into.secondary, TRUE)
    <3>1. Marked(Keeping("consumed", q.into.main, TRUE), E) = Keeping("consumed", q.into.main, TRUE)
      BY <1>16, <1>18 DEF Marked, Keeping
    <3>2. Marked(Keeping("consumed", q.into.secondary, q.seen), E) = Keeping("consumed", q.into.secondary, TRUE)
      BY <1>16, <1>18 DEF Marked, Keeping
    <3>3. QED
      BY <2>1, <3>1, <3>2, <1>8
  <2>3. g.slots[j][q.c] = Carrier("carrier_ready", Null, above.into)
    BY <2>1, <1>3, <1>6, <1>7
  <2>4. SlotsAre(g, j, n, Keeping("consumed", n.into.main, TRUE), Keeping("consumed", n.into.secondary, n.seen),
                 Waiting(g, j, Carrier("carrier_ready", Null, other.into)))
    <3>1. /\ Keeping("consumed", n.into.secondary, n.seen) = Keeping("consumed", q.into.secondary, TRUE)
          /\ Keeping("consumed", n.into.main, TRUE) = Keeping("consumed", q.into.main, TRUE)
      BY <1>2 DEF Keeping
    <3>2. Waiting(g, j, Carrier("carrier_ready", Null, other.into)) = Carrier("carrier_ready", Null, above.into)
      BY <1>5, <1>13
    <3>3. QED
      BY <2>2, <2>3, <3>1, <3>2, <1>2 DEF SlotsAre
  <2>5. other = above
    BY <1>13, <1>18
  <2>6. QED
    BY <2>4, <2>5, <1>11, <1>12, <1>16, <1>18 DEF SlotsAreSound, n, q
<1>19. QED
  BY <1>3, <1>4, <1>14, <1>15, <1>17, <1>18 DEF Kinds

\* A merge goes on while a root reaches the levels at and above it.
LEMMA JobStaysFound ==
  ASSUME NEW f, NEW g, NEW p, NEW r, NEW i, i \in Working(f), JobIsSound(f, p, i),
         Grown(f.objects, g.objects), g.jobs[i] = f.jobs[i], f.height = g.height,
         r[i].kind = p[i].kind, r[i].a = p[i].a, r[i].b = p[i].b, r[i].c = p[i].c,
         r[i + 1] = p[i + 1], r[i + 2] = p[i + 2]
  PROVE  JobIsSound(g, r, i)
<1>1. f.jobs[i].stage \in {"carrier_index", "commit"} =>
        IsRun(g.objects, f.jobs[i].output, i + 1, p[i + 1].end, p[i + 1].kind = "one", f.jobs[i].route)
  BY RunGrows DEF JobIsSound
<1>2. QED
  BY <1>1 DEF JobIsSound

\* What the commit of the merge at level 0 makes the root of.
Entry(route) == [first |-> 0, last |-> 0, level |-> 0, secondary |-> FALSE, next |-> route]
Entered(f, slot, route) ==
  [f EXCEPT !.objects = Append(@, Entry(route)),
            !.slots[0][slot] = Carrier("root_carrier", Len(f.objects) + 1, route),
            !.root = [main |-> Len(f.objects) + 1, secondary |-> Null]]

\* The entry that becomes the root stores one object and fills one slot.
LEMMA EnteredIs ==
  ASSUME NEW f, IsTyped(f), NEW slot \in Slots, NEW route \in Route, NEW g, g = Entered(f, slot, route)
  PROVE  /\ DOMAIN g = FrontierFields /\ IsTyped(g)
         /\ g.admissions = f.admissions /\ g.service_due = f.service_due /\ g.height = f.height
         /\ g.jobs = f.jobs /\ g.last = f.last
         /\ g.objects = Append(f.objects, Entry(route)) /\ Entry(route) \in Object
         /\ g.root = [main |-> Len(f.objects) + 1, secondary |-> Null]
         /\ \A j \in Level, s \in Slots :
              g.slots[j][s] = IF j = 0 /\ s = slot THEN Carrier("root_carrier", Len(f.objects) + 1, route)
                              ELSE f.slots[j][s]
<1> DEFINE id == Len(f.objects) + 1
           x == Carrier("root_carrier", id, route)
<1>1. /\ f.objects \in Seq(Object) /\ f.slots \in [Level -> [Slots -> Slot]] /\ 0 \in Level
      /\ DOMAIN f = FrontierFields /\ id \in Nat
  BY RuntimeAssumption DEF IsTyped, IsFrontier, Level
<1>2. x \in Slot
  BY <1>1 DEF Carrier, Slot, States
<1>3. Entry(route) \in Object
  BY <1>1 DEF Entry, Object
<1>4. /\ DOMAIN g = FrontierFields
      /\ g.admissions = f.admissions /\ g.service_due = f.service_due /\ g.height = f.height
      /\ g.jobs = f.jobs /\ g.last = f.last
      /\ g.objects = Append(f.objects, Entry(route))
      /\ g.root = [main |-> id, secondary |-> Null]
      /\ g.slots = [f.slots EXCEPT ![0] = [f.slots[0] EXCEPT ![slot] = x]]
  <2> HIDE DEF x, id
  <2>1. g = [f EXCEPT !.objects = Append(f.objects, Entry(route)),
                      !.slots[0][slot] = x, !.root = [main |-> id, secondary |-> Null]]
    BY DEF Entered, x, id
  <2>2. QED
    BY <2>1, <1>1 DEF FrontierFields
<1> HIDE DEF x
<1>5. \A j \in Level, s \in Slots : g.slots[j][s] = IF j = 0 /\ s = slot THEN x ELSE f.slots[j][s]
  BY <1>1, <1>4
<1>6. g.slots \in [Level -> [Slots -> Slot]]
  <2> DEFINE inner == [f.slots[0] EXCEPT ![slot] = x]
  <2>1. inner \in [Slots -> Slot]
    BY <1>1, <1>2
  <2> HIDE DEF inner
  <2>2. [f.slots EXCEPT ![0] = inner] \in [Level -> [Slots -> Slot]]
    BY <2>1, <1>1
  <2>3. QED
    BY <2>2, <1>4 DEF inner
<1>7. IsTyped(g)
  <2>1. g.root \in Route /\ g.objects \in Seq(Object)
    BY <1>1, <1>3, <1>4 DEF Route, Null
  <2>2. QED
    BY <2>1, <1>4, <1>6 DEF IsTyped, IsFrontier
<1>8. QED
  BY <1>3, <1>4, <1>5, <1>7 DEF x

\* The levels that a root reaches for the first time: all up to the first
\* without a run that hides another.
IsHidden(p, n) ==
  /\ n \in Level /\ n # 0
  /\ \A j \in 1..n : ~p[j].seen /\ p[j].kind # "none" /\ j \in Level
  /\ \A j \in 1..(n - 1) : p[j].kind = "fresh"
  /\ p[n].kind # "fresh"

\* A done level 0 is the lowest of the levels that no root reaches: above them is
\* one that a root reaches, or none that has runs.
LEMMA Hidden ==
  ASSUME NEW f, NEW p, IsLaidOut(f, p), p[0].kind = "done"
  PROVE  \E n : IsHidden(p, n)
<1> USE RuntimeAssumption
<1> DEFINE S == {k \in 1..Levels : p[k].kind # "fresh"}
<1>1. Levels \in S /\ p[Levels].seen /\ p[Levels].kind = "none"
  BY DEF IsLaidOut, IsBare
<1>2. PICK n \in S : \A k \in S : n <= k
  <2>1. S \subseteq Nat /\ S # {}
    BY <1>1
  <2>2. QED
    BY <2>1, LeastNatural
<1>3. n \in 1..Levels /\ p[n].kind # "fresh" /\ \A j \in 1..(n - 1) : p[j].kind = "fresh"
  BY <1>2
<1>4. ASSUME NEW j \in 1..n PROVE ~p[j].seen /\ p[j].kind # "none"
  <2>1. j - 1 \in Level /\ (j - 1) + 1 = j
    BY <1>3 DEF Level
  <2>2. RunsAreSound(f.objects, p[j - 1], p[j], j - 1)
    BY <2>1, LevelAt
  <2>3. p[j - 1].kind \in {"done", "fresh"}
    <3>1. CASE j = 1
      BY <3>1
    <3>2. CASE j # 1
      <4>1. j - 1 \in 1..(n - 1)
        BY <3>2, <1>3
      <4>2. QED
        BY <4>1, <1>3
    <3>3. QED
      BY <3>1, <3>2
  <2>4. QED
    BY <2>2, <2>3 DEF RunsAreSound, DoneRuns, FreshRun
<1>5. n # Levels
  <2>1. n \in 1..n
    BY <1>3
  <2>2. QED
    BY <2>1, <1>1, <1>4
<1>6. n \in Level /\ n # 0 /\ \A j \in 1..n : j \in Level
  BY <1>3, <1>5 DEF Level
<1>7. QED
  BY <1>3, <1>4, <1>6 DEF IsHidden

\* The place of level 0 under a new root.
Crowned(q, id) ==
  [kind |-> "root", a |-> q.c, b |-> q.a, c |-> q.b, into |-> [main |-> id, secondary |-> Null],
   before |-> Nowhere, end |-> q.end, seen |-> TRUE]

\* A level 0 that became the root keeps its end.
LEMMA CrownedForm ==
  ASSUME NEW q \in Places, NEW id \in Nat
  PROVE  /\ Crowned(q, id) \in Places
         /\ Crowned(q, id).kind = "root" /\ Crowned(q, id).a = q.c /\ Crowned(q, id).b = q.a /\ Crowned(q, id).c = q.b
         /\ Crowned(q, id).into = [main |-> id, secondary |-> Null] /\ Crowned(q, id).before = Nowhere
         /\ Crowned(q, id).end = q.end /\ Crowned(q, id).seen
<1>1. /\ q.a \in Slots /\ q.b \in Slots /\ q.c \in Slots
      /\ q.a # q.b /\ q.a # q.c /\ q.b # q.c /\ q.end \in Nat
  BY PlaceType
<1>2. [main |-> id, secondary |-> Null] \in Route /\ Nowhere \in Route
  BY DEF Route, Nowhere, Null
<1>3. Crowned(q, id) \in Place
  BY <1>1, <1>2 DEF Crowned, Place, Kinds
<1>4. /\ Crowned(q, id).kind = "root" /\ Crowned(q, id).a = q.c /\ Crowned(q, id).b = q.a /\ Crowned(q, id).c = q.b
      /\ Crowned(q, id).into = [main |-> id, secondary |-> Null] /\ Crowned(q, id).before = Nowhere
      /\ Crowned(q, id).end = q.end /\ Crowned(q, id).seen
  BY DEF Crowned
<1>5. QED
  BY <1>1, <1>3, <1>4 DEF Places

IsCrowned(p, r, n, id) ==
  /\ r \in [0..Levels -> Places]
  /\ r[0] = Crowned(p[0], id)
  /\ \A j \in 1..n : r[j] = Found(p[j])
  /\ \A j \in (n + 1)..Levels : r[j] = p[j]

\* Level by level, what the new root reaches.
LEMMA CrownedLevels ==
  ASSUME NEW f, NEW p, IsLaidOut(f, p), p[0].kind = "done",
         NEW n, IsHidden(p, n),
         NEW id, NEW r, IsCrowned(p, r, n, id),
         NEW g, Grown(f.objects, g.objects), Working(g) = Working(f), g.height = f.height,
         \A j \in 1..n : /\ g.slots[j] = [s \in Slots |-> Marked(f.slots[j][s], Ends(p[j].into))]
                         /\ g.last[j] = Noticed(f.last[j], Ends(p[j].into))
  PROVE  \A j \in 1..n : LevelIsSound(g, r, j)
<1> TAKE j \in 1..n
<1>5. /\ n \in Level /\ n # 0 /\ (\A k \in 1..n : ~p[k].seen /\ p[k].kind # "none" /\ k \in Level)
      /\ (\A k \in 1..(n - 1) : p[k].kind = "fresh") /\ p[n].kind # "fresh"
  BY DEF IsHidden
<1>1. j \in Level /\ j # 0 /\ ~p[j].seen /\ j + 1 \in 0..Levels /\ r[j] = Found(p[j])
  BY <1>5, RuntimeAssumption DEF IsCrowned, Level
<1>2. /\ r[j + 1].into = p[j + 1].into /\ r[j + 1].end = p[j + 1].end
      /\ IF p[j].kind = "fresh" THEN r[j + 1].seen ELSE r[j + 1] = p[j + 1]
  <2>1. CASE j < n
    <3>1. j + 1 \in 1..n /\ j \in 1..(n - 1)
      BY <2>1, <1>5 DEF Level
    <3>2. r[j + 1] = Found(p[j + 1]) /\ p[j].kind = "fresh" /\ p[j + 1] \in Places
      BY <3>1, <1>1, <1>5 DEF IsCrowned, IsLaidOut
    <3>3. QED
      BY <3>2, FoundForm
  <2>2. CASE j = n
    <3>1. j + 1 \in (n + 1)..Levels
      BY <2>2, <1>1, <1>5, RuntimeAssumption DEF Level
    <3>2. r[j + 1] = p[j + 1]
      BY <3>1 DEF IsCrowned
    <3>3. QED
      BY <3>2, <2>2, <1>5
  <2>3. QED
    BY <2>1, <2>2, <1>5 DEF Level
<1>3. /\ RunsAreSound(g.objects, Found(p[j]), r[j + 1], j)
      /\ SlotsAreSound(g, j, Found(p[j]), r[j + 1])
      /\ LastIsSound(g, j, Found(p[j]))
      /\ j >= g.height => Found(p[j]).kind = "none"
  <2> DEFINE other == r[j + 1]
  <2>1. /\ other.into = p[j + 1].into /\ other.end = p[j + 1].end
        /\ IF p[j].kind = "fresh" THEN other.seen ELSE other = p[j + 1]
    BY <1>2
  <2>2. /\ g.slots[j] = [s \in Slots |-> Marked(f.slots[j][s], Ends(p[j].into))]
        /\ g.last[j] = Noticed(f.last[j], Ends(p[j].into)) /\ f.height = g.height
    OBVIOUS
  <2> HIDE DEF other
  <2>3. /\ RunsAreSound(g.objects, Found(p[j]), other, j)
        /\ SlotsAreSound(g, j, Found(p[j]), other)
        /\ LastIsSound(g, j, Found(p[j]))
        /\ j >= g.height => Found(p[j]).kind = "none"
    BY <1>1, <2>1, <2>2, LevelIsFound
  <2>4. QED
    BY <2>3 DEF other
<1>4. QED
  BY <1>1, <1>3 DEF LevelIsSound

WithEntry(f, objects, id, route) == id = Len(f.objects) + 1 /\ objects = Append(f.objects, Entry(route))

\* The levels as the new root reaches them: a stack of runs, and a walk down it.
LEMMA CrownedStack ==
  ASSUME NEW f, NEW p, IsLaidOut(f, p), p[0].kind = "done",
         NEW n, IsHidden(p, n),
         NEW r, NEW id, IsCrowned(p, r, n, id),
         NEW objects, WithEntry(f, objects, id, p[1].into)
  PROVE  /\ IsStack(objects, r)
         /\ Grown(f.objects, objects) /\ objects[id] = Entry(p[1].into) /\ id \in DOMAIN objects
         /\ id \in Nat \ {0} /\ id \notin DOMAIN f.objects /\ objects \in Seq(Object)
         /\ RunsAreSound(objects, r[0], r[1], 0)
<1> USE RuntimeAssumption
<1>7. /\ n \in Level /\ n # 0 /\ (\A j \in 1..n : ~p[j].seen /\ p[j].kind # "none" /\ j \in Level)
      /\ (\A j \in 1..(n - 1) : p[j].kind = "fresh") /\ p[n].kind # "fresh"
  BY DEF IsHidden
<1>0. /\ 0 \in Level /\ 1 \in 1..n /\ 1 \in 0..Levels /\ 0 \in 0..Levels /\ f.objects \in Seq(Object)
      /\ p[1] \in Places /\ p[0] \in Places
  BY <1>7, StackOf DEF Level, IsLaidOut
<1>1. /\ Grown(f.objects, objects) /\ objects[id] = Entry(p[1].into) /\ id \in DOMAIN objects
      /\ id \in Nat \ {0} /\ id \notin DOMAIN f.objects /\ objects \in Seq(Object)
  <2>1. Entry(p[1].into) \in Object
    BY <1>0, PlaceType DEF Entry, Object
  <2>2. QED
    BY <2>1, <1>0, GrownAppend DEF WithEntry
<1>2. RunsAreSound(objects, r[0], r[1], 0)
  <2>1. DoneRuns(f.objects, p[0], p[1], 0)
    BY <1>0, LevelAt DEF RunsAreSound
  <2>2. /\ r[0].kind = "root" /\ r[0].into = [main |-> id, secondary |-> Null] /\ r[0].before = Nowhere
        /\ r[0].end = p[0].end /\ r[0].seen
    BY <1>0, <1>1, CrownedForm DEF IsCrowned
  <2>3. r[1].into = p[1].into /\ r[1].end = p[1].end /\ r[1].seen /\ r[1].kind # "none"
    BY <1>0, <1>7, FoundForm DEF IsCrowned
  <2>4. RootRun(objects, r[0], r[1], 0)
    BY <1>1, <2>1, <2>2, <2>3 DEF RootRun, Entry, DoneRuns
  <2>5. QED
    BY <2>2, <2>4 DEF RunsAreSound
<1>3. ASSUME NEW j \in 1..n PROVE RunsAreSound(objects, r[j], r[j + 1], j)
  <2> DEFINE w == [objects |-> objects, jobs |-> f.jobs, height |-> f.height,
                   slots |-> [k \in Level |-> [s \in Slots |-> Marked(f.slots[k][s], Ends(p[k].into))]],
                   last |-> [k \in Level |-> Noticed(f.last[k], Ends(p[k].into))]]
  <2>1. /\ Grown(f.objects, w.objects) /\ Working(w) = Working(f) /\ w.height = f.height
        /\ \A k \in Level : /\ w.slots[k] = [s \in Slots |-> Marked(f.slots[k][s], Ends(p[k].into))]
                            /\ w.last[k] = Noticed(f.last[k], Ends(p[k].into))
    BY <1>1 DEF Working
  <2>2. w.objects = objects
    OBVIOUS
  <2> HIDE DEF w
  <2>3. \A k \in 1..n : LevelIsSound(w, r, k)
    <3>1. \A k \in 1..n : /\ w.slots[k] = [s \in Slots |-> Marked(f.slots[k][s], Ends(p[k].into))]
                          /\ w.last[k] = Noticed(f.last[k], Ends(p[k].into))
      BY <2>1, <1>7
    <3>2. Grown(f.objects, w.objects) /\ Working(w) = Working(f) /\ w.height = f.height
      BY <2>1
    <3>3. QED
      BY <3>1, <3>2, CrownedLevels, Zenon
  <2>4. QED
    BY <2>2, <2>3 DEF LevelIsSound
<1>4. ASSUME NEW j \in Level, j \notin 0..n PROVE RunsAreSound(objects, r[j], r[j + 1], j)
  <2>1. j \in (n + 1)..Levels /\ j + 1 \in (n + 1)..Levels
    BY <1>4, <1>7 DEF Level
  <2>2. r[j] = p[j] /\ r[j + 1] = p[j + 1]
    BY <2>1 DEF IsCrowned
  <2>3. RunsAreSound(f.objects, p[j], p[j + 1], j)
    BY LevelAt
  <2>4. QED
    BY <2>2, <2>3, <1>1, RunsStay, SameLooks
<1>5. IsStack(objects, r)
  <2>1. IsBare(r[Levels])
    <3>1. Levels \in (n + 1)..Levels
      BY <1>7 DEF Level
    <3>2. QED
      BY <3>1 DEF IsCrowned, IsLaidOut
  <2>2. ASSUME NEW j \in Level PROVE RunsAreSound(objects, r[j], r[j + 1], j)
    <3>1. CASE j = 0
      BY <3>1, <1>2
    <3>2. CASE j \in 1..n
      BY <3>2, <1>3
    <3>3. CASE j \notin 0..n
      BY <3>3, <1>4
    <3>4. j = 0 \/ j \in 1..n \/ j \notin 0..n
      BY <1>7 DEF Level
    <3>5. QED
      BY <3>1, <3>2, <3>3, <3>4
  <2>3. QED
    BY <2>1, <2>2 DEF IsStack, IsCrowned
<1>6. QED
  BY <1>1, <1>2, <1>5

\* The commit at level 0 makes the root: every level keeps its runs, and the
\* runs that the old root reached and the new one does not are given up.
LEMMA RootingLaysOut ==
  ASSUME NEW f, NEW p, IsLaidOut(f, p), p[0].kind = "done", f.root = p[0].into, f.last[0].identity = Null,
         f.admissions = p[0].end, f.admissions <= MaxAdmissions,
         NEW job, Target(job) = p[1].into, job.carrier_slot = p[0].c
  PROVE  \E r : /\ IsWhole(Rooted(f, job), r)
                /\ r[0].kind = "root" /\ r[0].end = p[0].end
                /\ \A j \in 1..Levels : r[j].end = p[j].end /\ (r[j].kind = "two" <=> p[j].kind = "two")
                /\ Rooted(f, job).admissions = f.admissions
                /\ Rooted(f, job).service_due = f.service_due
                /\ Rooted(f, job).jobs = f.jobs
<1> USE RuntimeAssumption
<1> DEFINE id == Len(f.objects) + 1
           T == p[1].into
           e == Entered(f, p[0].c, T)
<1>1. /\ 0 \in Level /\ 0 \in 0..Levels /\ 1 \in 0..Levels /\ p[0] \in Places /\ p[1] \in Places
      /\ T \in Route /\ p[0].c \in Slots /\ p[0].a \in Slots /\ p[0].b \in Slots
      /\ p[0].a # p[0].b /\ p[0].a # p[0].c /\ p[0].b # p[0].c
      /\ IsTyped(f) /\ p \in [0..Levels -> Places]
  BY PlaceType DEF Level, IsLaidOut
<1>0. PICK n : IsHidden(p, n)
  BY Hidden
<1>2. /\ n \in Level /\ n # 0 /\ (\A j \in 1..n : ~p[j].seen /\ p[j].kind # "none" /\ j \in Level)
      /\ (\A j \in 1..(n - 1) : p[j].kind = "fresh") /\ p[n].kind # "fresh"
  BY <1>0 DEF IsHidden
<1> DEFINE r == [j \in 0..Levels |-> IF j = 0 THEN Crowned(p[0], id) ELSE IF j <= n THEN Found(p[j]) ELSE p[j]]
<1>3. Rooted(f, job) = Shown(e)
  BY DEF Rooted, Entered, Entry
<1>4. /\ DOMAIN e = FrontierFields /\ IsTyped(e)
      /\ e.admissions = f.admissions /\ e.service_due = f.service_due /\ e.height = f.height
      /\ e.jobs = f.jobs /\ e.last = f.last
      /\ e.objects = Append(f.objects, Entry(T))
      /\ e.root = [main |-> id, secondary |-> Null]
      /\ \A j \in Level, s \in Slots :
           e.slots[j][s] = IF j = 0 /\ s = p[0].c THEN Carrier("root_carrier", id, T) ELSE f.slots[j][s]
  BY <1>1, EnteredIs
<1> HIDE DEF e
<1>5. IsCrowned(p, r, n, id)
  <2>1. id \in Nat
    BY <1>1, StackOf
  <2>2. Crowned(p[0], id) \in Places /\ \A j \in 0..Levels : Found(p[j]) \in Places /\ p[j] \in Places
    BY <2>1, <1>1, CrownedForm, FoundForm
  <2>3. r \in [0..Levels -> Places]
    BY <2>2
  <2>4. r[0] = Crowned(p[0], id) /\ (\A j \in 1..n : r[j] = Found(p[j])) /\ \A j \in (n + 1)..Levels : r[j] = p[j]
    BY <1>2 DEF Level
  <2>5. QED
    BY <2>3, <2>4 DEF IsCrowned
<1> HIDE DEF r, id
<1>6. /\ IsStack(e.objects, r)
      /\ Grown(f.objects, e.objects) /\ e.objects[id] = Entry(T) /\ id \in DOMAIN e.objects
      /\ id \in Nat \ {0} /\ id \notin DOMAIN f.objects /\ e.objects \in Seq(Object)
      /\ RunsAreSound(e.objects, r[0], r[1], 0)
  <2> DEFINE objects == e.objects
  <2>1. WithEntry(f, objects, id, p[1].into)
    BY <1>4 DEF id, WithEntry
  <2> HIDE DEF objects
  <2>2. /\ IsStack(objects, r)
        /\ Grown(f.objects, objects) /\ objects[id] = Entry(p[1].into) /\ id \in DOMAIN objects
        /\ id \in Nat \ {0} /\ id \notin DOMAIN f.objects /\ objects \in Seq(Object)
        /\ RunsAreSound(objects, r[0], r[1], 0)
    BY <2>1, <1>0, <1>5, CrownedStack
  <2>3. QED
    BY <2>2 DEF objects
<1>7. /\ r[0].kind = "root" /\ r[0].into = [main |-> id, secondary |-> Null] /\ r[0].before = Nowhere
      /\ r[0].a = p[0].c /\ r[0].b = p[0].a /\ r[0].c = p[0].b
      /\ r[0].end = p[0].end /\ r[0].seen /\ r \in [0..Levels -> Places]
      /\ r[1].into = p[1].into
  <2>1. 1 \in 1..n
    BY <1>2 DEF Level
  <2>2. r[1] = Found(p[1])
    BY <1>5, <2>1 DEF IsCrowned
  <2>3. QED
    BY <2>2, <1>1, <1>5, <1>6, CrownedForm, FoundForm DEF IsCrowned
<1> DEFINE R == ShownRoutes(r)
<1>8. IsChain(e.objects, R) /\ e.root = R[0]
  <2>1. R[0] = r[0].into
    BY <1>1, <1>7 DEF ShownRoutes, Shows
  <2>2. QED
    BY <2>1, <1>4, <1>6, <1>7, StackChain
<1> HIDE DEF R
<1>9. NamesAreHome(e)
  <2>1. NamesAreHome(f)
    BY HomeNames
  <2>2. ASSUME NEW x, x \in DOMAIN f.objects PROVE x \in DOMAIN e.objects /\ e.objects[x] = f.objects[x]
    BY <1>6, <2>2 DEF Grown
  <2>3. Carrier("root_carrier", id, T).object = id /\ e.objects[id].level = 0
    BY <1>6 DEF Carrier, Entry
  <2>4. ASSUME NEW i \in Level, NEW s \in Slots, e.slots[i][s].object # Null
        PROVE  e.slots[i][s].object \in DOMAIN e.objects /\ e.objects[e.slots[i][s].object].level = i
    <3>1. CASE i = 0 /\ s = p[0].c
      <4>1. e.slots[i][s] = Carrier("root_carrier", id, T)
        BY <3>1, <1>4
      <4>2. QED
        BY <3>1, <4>1, <2>3, <1>6
    <3>2. CASE ~(i = 0 /\ s = p[0].c)
      <4>1. e.slots[i][s] = f.slots[i][s]
        BY <3>2, <1>4
      <4>2. QED
        BY <4>1, <2>1, <2>2, <2>4 DEF NamesAreHome
    <3>3. QED
      BY <3>1, <3>2
  <2>5. ASSUME NEW i \in Level, e.last[i].identity # Null
        PROVE  e.last[i].identity \in DOMAIN e.objects /\ e.objects[e.last[i].identity].level = i
    BY <2>1, <2>2, <2>5, <1>4 DEF NamesAreHome
  <2>6. QED
    BY <2>4, <2>5 DEF NamesAreHome
<1> DEFINE g == Shown(e)
<1>10. /\ DOMAIN g = FrontierFields
       /\ g.admissions = e.admissions /\ g.service_due = e.service_due
       /\ g.height = e.height /\ g.objects = e.objects
       /\ g.root = e.root /\ g.jobs = e.jobs
       /\ g.slots = MarkedSlots(e, R) /\ g.last = NoticedLast(e, R)
  <2>1. DOMAIN e = FrontierFields
    BY <1>4
  <2>2. QED
    BY <2>1, <1>8, <1>9, ShownIs
<1>11. IsTyped(g)
  BY <1>4, <1>8, <1>9, ShownTyped
<1> HIDE DEF g
<1>12. /\ Working(g) = Working(f) /\ g.jobs = f.jobs /\ g.height = f.height /\ \A i : Reserved(g, i) <=> Reserved(f, i)
       /\ Grown(f.objects, g.objects) /\ g.height \in 1..Levels
  <2>1. f.height \in 1..Levels
    BY StackOf
  <2>2. QED
    BY <2>1, <1>4, <1>6, <1>10 DEF Working, Reserved
<1>13. \A j \in Level : j # 0 => /\ g.slots[j] = [s \in Slots |-> Marked(f.slots[j][s], Ends(R[j]))]
                                 /\ g.last[j] = Noticed(f.last[j], Ends(R[j]))
  BY <1>4, <1>10 DEF MarkedSlots, NoticedLast
<1>14. \A j \in 1..n : LevelIsSound(g, r, j)
  <2>1. ASSUME NEW j \in 1..n PROVE R[j] = p[j].into
    <3>1. r[j] = Found(p[j]) /\ p[j] \in Places /\ j \in 0..Levels
      BY <1>1, <1>2, <1>5 DEF IsCrowned, Level
    <3>2. QED
      BY <3>1, FoundForm DEF R, ShownRoutes, Shows
  <2>2. \A j \in 1..n : /\ g.slots[j] = [s \in Slots |-> Marked(f.slots[j][s], Ends(p[j].into))]
                        /\ g.last[j] = Noticed(f.last[j], Ends(p[j].into))
    <3> TAKE j \in 1..n
    <3>1. j \in Level /\ j # 0 /\ R[j] = p[j].into
      BY <2>1, <1>2
    <3>2. QED
      BY <3>1, <1>13
  <2>3. QED
    BY <2>2, <1>0, <1>5, <1>12, CrownedLevels
<1>15. ASSUME NEW j \in Level, j \notin 0..n PROVE LevelIsSound(g, r, j)
  <2>1. j \in (n + 1)..Levels /\ j + 1 \in (n + 1)..Levels /\ j # 0 /\ j \in 0..Levels
    BY <1>2, <1>15 DEF Level
  <2>2. r[j] = p[j] /\ r[j + 1] = p[j + 1]
    BY <2>1, <1>5 DEF IsCrowned
  <2>3. R[j] = Shows(p[j])
    BY <2>1, <2>2 DEF R, ShownRoutes
  <2>4. g.slots[j] = f.slots[j] /\ g.last[j] = f.last[j]
    <3>1. /\ g.slots[j] = [s \in Slots |-> Marked(f.slots[j][s], Ends(Shows(p[j])))]
          /\ g.last[j] = Noticed(f.last[j], Ends(Shows(p[j])))
      BY <2>1, <2>3, <1>13
    <3>2. QED
      BY <3>1, MarkedSame
  <2>5. LooksAlike(p[j + 1], r[j + 1]) /\ f.height <= g.height /\ g.height \in Nat
    BY <2>2, <1>12, SameLooks
  <2>6. QED
    BY <2>2, <2>4, <2>5, <1>12, LevelStays
<1>16. p[0].seen
  BY <1>1, LevelAt DEF LastIsSound
<1>17. LevelIsSound(g, r, 0)
  <2> DEFINE E == Ends(R[0])
  <2>1. E = {id}
    BY <1>4, <1>6, <1>8 DEF Ends, Null
  <2>2. \A s \in Slots : g.slots[0][s] = Marked(e.slots[0][s], E)
    BY <1>1, <1>10 DEF MarkedSlots
  <2>3. /\ f.slots[0][p[0].a] = Keeping("consumed", p[0].into.main, TRUE)
        /\ f.slots[0][p[0].b] = Keeping("consumed", p[0].into.secondary, p[0].seen)
    BY <1>1, LevelAt DEF SlotsAreSound, SlotsAre
  <2>4. p[0].into.main \in DOMAIN f.objects /\ p[0].into.secondary \in DOMAIN f.objects
    BY <1>1, LevelAt DEF RunsAreSound, DoneRuns, IsRun
  <2>5. p[0].into.main \notin E /\ p[0].into.secondary \notin E
    BY <2>1, <2>4, <1>6
  <2>6. /\ e.slots[0][p[0].a] = Keeping("consumed", p[0].into.main, TRUE)
        /\ e.slots[0][p[0].b] = Keeping("consumed", p[0].into.secondary, p[0].seen)
        /\ e.slots[0][p[0].c] = Carrier("root_carrier", id, T)
    BY <2>3, <1>1, <1>4
  <2> HIDE DEF E
  <2>7. Marked(Keeping("consumed", p[0].into.main, TRUE), E) = Empty
    BY <2>5 DEF Marked, Keeping
  <2>8. Marked(Keeping("consumed", p[0].into.secondary, p[0].seen), E) = Empty
    BY <2>5, <1>16 DEF Marked, Keeping
  <2>9. Marked(Carrier("root_carrier", id, T), E) = Rooting(id, T)
    BY <2>1 DEF Marked, Carrier, Rooting
  <2>10. SlotsAre(g, 0, r[0], Rooting(id, T), Empty, Empty)
    BY <2>2, <2>6, <2>7, <2>8, <2>9, <1>1, <1>7 DEF SlotsAre
  <2>11. Rooting(r[0].into.main, r[1].into) = Rooting(id, T)
    BY <1>7
  <2>12. SlotsAreSound(g, 0, r[0], r[1])
    BY <2>10, <2>11, <1>7 DEF SlotsAreSound
  <2>13. LastIsSound(g, 0, r[0])
    <3>1. g.last[0].identity = Null
      <4>1. f.last[0] \in [identity : Nat, visible : BOOLEAN] /\ g.last[0] = Noticed(f.last[0], E)
        BY <1>1, <1>4, <1>10, StackOf DEF NoticedLast, E
      <4>2. QED
        BY <4>1 DEF Noticed
    <3>2. QED
      BY <3>1, <1>7 DEF LastIsSound
  <2>14. ~(0 >= g.height) /\ RunsAreSound(g.objects, r[0], r[1], 0)
    BY <1>6, <1>10, <1>12
  <2>15. QED
    BY <2>12, <2>13, <2>14 DEF LevelIsSound
<1>18. ASSUME NEW j \in Working(g) PROVE JobIsSound(g, r, j)
  <2>1. /\ j \in Working(f) /\ j \in Level /\ j + 1 \in Level /\ JobIsSound(f, p, j)
        /\ p[j].kind = "two" /\ p[j + 1].seen
    <3>1. j \in Working(f) /\ j \in Level /\ j + 1 \in Level /\ JobIsSound(f, p, j) /\ p[j].kind = "two"
      BY <1>12, JobAt
    <3>2. QED
      BY <3>1, LevelAt DEF RunsAreSound, TwoRuns
  <2>2. j # 0 /\ j + 1 > n
    <3>1. j + 1 \notin 1..n
      BY <2>1, <1>2
    <3>2. QED
      BY <2>1, <3>1, <1>2 DEF Level
  <2>3. j >= n /\ j + 1 \in (n + 1)..Levels /\ j + 2 \in (n + 1)..Levels
    BY <2>1, <2>2, <1>2 DEF Level
  <2>4. r[j + 1] = p[j + 1] /\ r[j + 2] = p[j + 2]
    BY <2>3, <1>5 DEF IsCrowned
  <2>5. r[j].kind = p[j].kind /\ r[j].a = p[j].a /\ r[j].b = p[j].b /\ r[j].c = p[j].c
    <3>1. CASE j = n
      <4>1. j \in 1..n /\ p[j] \in Places
        BY <3>1, <1>2, <1>1, <2>1 DEF Level
      <4>2. r[j] = Found(p[j])
        BY <4>1, <1>5 DEF IsCrowned
      <4>3. QED
        BY <4>1, <4>2, <2>1, FoundForm
    <3>2. CASE j # n
      <4>1. j \in (n + 1)..Levels
        BY <3>2, <2>1, <2>3, <1>2 DEF Level
      <4>2. QED
        BY <4>1, <1>5 DEF IsCrowned
    <3>3. QED
      BY <3>1, <3>2
  <2>6. g.jobs[j] = f.jobs[j] /\ f.height = g.height
    BY <1>12
  <2>7. QED
    BY <2>1, <2>4, <2>5, <2>6, <1>12, JobStaysFound
<1>19. IsLaidOut(g, r)
  <2>1. \A j \in Level : LevelIsSound(g, r, j)
    <3> TAKE j \in Level
    <3>1. j = 0 \/ j \in 1..n \/ j \notin 0..n
      BY <1>2 DEF Level
    <3>2. QED
      BY <3>1, <1>14, <1>15, <1>17
  <2>2. QED
    BY <2>1, <1>6, <1>7, <1>11, <1>18 DEF IsLaidOut, IsStack
<1>20. g.last[0].identity = Null
  <2>1. f.last[0] \in [identity : Nat, visible : BOOLEAN] /\ g.last[0] = Noticed(f.last[0], Ends(R[0]))
    BY <1>1, <1>4, <1>10, StackOf DEF NoticedLast
  <2>2. QED
    BY <2>1 DEF Noticed
<1>21. IsWhole(g, r)
  BY <1>19, <1>20, <1>4, <1>7, <1>10 DEF IsWhole
<1>22. ASSUME NEW j \in 1..Levels PROVE r[j].end = p[j].end /\ (r[j].kind = "two" <=> p[j].kind = "two")
  <2>1. CASE j \in 1..n
    <3>1. r[j] = Found(p[j]) /\ p[j] \in Places
      BY <2>1, <1>1, <1>5 DEF IsCrowned
    <3>2. QED
      BY <3>1, FoundForm
  <2>2. CASE j \notin 1..n
    <3>1. j \in (n + 1)..Levels
      BY <2>2, <1>2 DEF Level
    <3>2. QED
      BY <3>1, <1>5 DEF IsCrowned
  <2>3. QED
    BY <2>1, <2>2
<1>23. QED
  BY <1>3, <1>4, <1>7, <1>10, <1>21, <1>22 DEF g
-----------------------------------------------------------------------------
(* Accounts, and the first frontiers *)

Billed(f, due) == [f EXCEPT !.service_due = due]

\* What is due has nothing to do with the layout.
LEMMA BillingLaysOut ==
  ASSUME NEW f, NEW p, IsWhole(f, p), NEW due \in Nat, NEW g, g = Billed(f, due)
  PROVE  /\ IsWhole(g, p) /\ g.admissions = f.admissions /\ g.service_due = due
         /\ g.jobs = f.jobs /\ Working(g) = Working(f) /\ Unsafe(g) = Unsafe(f)
<1>1. /\ DOMAIN f = FrontierFields /\ IsLaidOut(f, p) /\ IsTyped(f) /\ f.height \in 1..Levels /\ f.objects \in Seq(Object)
  BY StackOf DEF IsWhole, IsLaidOut
<1>2. /\ DOMAIN g = FrontierFields
      /\ g.admissions = f.admissions /\ g.service_due = due /\ g.height = f.height /\ g.objects = f.objects
      /\ g.root = f.root /\ g.slots = f.slots /\ g.jobs = f.jobs /\ g.last = f.last
  BY <1>1 DEF Billed, FrontierFields
<1>3. Working(g) = Working(f) /\ \A i : Reserved(g, i) <=> Reserved(f, i)
  BY <1>2 DEF Working, Reserved
<1>4. IsTyped(g)
  BY <1>1, <1>2 DEF IsTyped, IsFrontier
<1>5. Grown(f.objects, g.objects) /\ f.height <= g.height /\ g.height \in Nat /\ f.height \in Nat
  BY <1>1, <1>2, GrownSame
<1>6. ASSUME NEW i \in Level PROVE LevelIsSound(g, p, i)
  <2>1. LooksAlike(p[i + 1], p[i + 1]) /\ g.slots[i] = f.slots[i] /\ g.last[i] = f.last[i]
    BY <1>2, SameLooks
  <2>2. Reserved(f, i) => g.jobs[i - 1].output = f.jobs[i - 1].output
    BY <1>2
  <2>3. QED
    BY <1>1, <1>3, <1>5, <2>1, <2>2, LevelStays
<1>7. ASSUME NEW i \in Working(g) PROVE JobIsSound(g, p, i)
  <2>1. i \in Working(f) /\ JobIsSound(f, p, i) /\ g.jobs[i] = f.jobs[i]
    BY <1>1, <1>2, <1>3 DEF IsLaidOut
  <2>2. QED
    BY <2>1, <1>5, JobStays
<1>8. IsLaidOut(g, p)
  BY <1>1, <1>4, <1>6, <1>7 DEF IsLaidOut
<1>9. IsWhole(g, p)
  BY <1>2, <1>8 DEF IsWhole
<1>10. Unsafe(g) = Unsafe(f)
  BY <1>1, <1>8, UnsafeIs
<1>11. QED
  BY <1>2, <1>3, <1>9, <1>10

\* A place without runs.
Bare == [kind |-> "none", a |-> 0, b |-> 1, c |-> 2, into |-> Nowhere, before |-> Nowhere, end |-> 0, seen |-> TRUE]

\* The bare place.
LEMMA BareForm ==
  /\ Bare \in Places /\ IsBare(Bare) /\ Bare.kind = "none" /\ Bare.a = 0 /\ Bare.b = 1 /\ Bare.c = 2
  /\ Bare.into = Nowhere /\ Bare.end = 0 /\ Bare.seen
<1>1. Nowhere \in Route
  BY DEF Nowhere, Route, Null
<1>2. Bare \in Place /\ Bare.a # Bare.b /\ Bare.a # Bare.c /\ Bare.b # Bare.c
  BY <1>1 DEF Bare, Place, Kinds, Slots
<1>3. QED
  BY <1>2 DEF Bare, Places, IsBare

\* An executor starts with nothing.
LEMMA InitLaysOut ==
  ASSUME Init
  PROVE  /\ IsWhole(frontier, [i \in 0..Levels |-> Bare]) /\ frontier.admissions = 0 /\ frontier.service_due = 0
         /\ Working(frontier) = {}
<1> DEFINE f == frontier
           p == [i \in 0..Levels |-> Bare]
<1>1. /\ f.admissions = 0 /\ f.service_due = 0 /\ f.height = 1 /\ f.objects = <<>> /\ f.root = Nowhere
      /\ f.slots = [i \in Level |-> [s \in Slots |-> Empty]]
      /\ f.jobs = <<>> /\ f.last = [i \in Level |-> [identity |-> Null, visible |-> FALSE]]
      /\ DOMAIN f = FrontierFields
  BY DEF Init, FrontierFields
<1>2. Working(f) = {} /\ \A i : ~Reserved(f, i)
  BY <1>1 DEF Working, Reserved
<1>3. IsTyped(f)
  <2>1. f.slots \in [Level -> [Slots -> Slot]] /\ f.last \in [Level -> [identity : Nat, visible : BOOLEAN]]
    BY <1>1, SlotForms DEF Null
  <2>2. f.root \in Route /\ f.height \in 1..Levels /\ f.objects \in Seq(Object)
    BY <1>1, RuntimeAssumption DEF Route, Nowhere, Null
  <2>3. DOMAIN f.jobs \subseteq Level /\ f.jobs \in [DOMAIN f.jobs -> Job]
    BY <1>1
  <2>4. QED
    BY <2>1, <2>2, <2>3, <1>1 DEF IsTyped, IsFrontier
<1>4. p \in [0..Levels -> Places] /\ \A i \in 0..Levels : p[i] = Bare
  BY BareForm
<1> HIDE DEF p, f
<1>5. ASSUME NEW i \in Level PROVE LevelIsSound(f, p, i)
  <2>1. i \in 0..Levels /\ i + 1 \in 0..Levels /\ p[i] = Bare /\ p[i + 1] = Bare
    BY <1>4, RuntimeAssumption DEF Level
  <2>2. RunsAreSound(f.objects, Bare, Bare, i)
    BY BareForm DEF RunsAreSound
  <2>3. SlotsAreSound(f, i, Bare, Bare)
    <3>1. SlotsAre(f, i, Bare, Waiting(f, i, Empty), Empty, Empty)
      <4>1. Waiting(f, i, Empty) = Empty
        BY <1>2 DEF Waiting
      <4>2. \A s \in Slots : f.slots[i][s] = Empty
        BY <1>1
      <4>3. QED
        BY <4>1, <4>2, BareForm DEF SlotsAre, Slots
    <3>2. QED
      BY <3>1, BareForm DEF SlotsAreSound
  <2>4. LastIsSound(f, i, Bare)
    BY <1>1, BareForm DEF LastIsSound
  <2>5. QED
    BY <2>1, <2>2, <2>3, <2>4, BareForm DEF LevelIsSound
<1>6. Levels \in 0..Levels /\ 0 \in 0..Levels /\ 0 \in Level
  BY RuntimeAssumption DEF Level
<1>7. IsLaidOut(f, p)
  BY <1>2, <1>3, <1>4, <1>5, <1>6, BareForm DEF IsLaidOut
<1>8. IsWhole(f, p)
  <2>1. 0 <= MaxAdmissions
    BY RuntimeAssumption, RunMassIs
  <2>2. p[0].end = 0 /\ p[0].into = Nowhere /\ p[0].kind = "none"
    BY <1>4, <1>6, BareForm
  <2>3. f.last[0].identity = Null
    BY <1>1, <1>6
  <2>4. QED
    BY <2>1, <2>2, <2>3, <1>1, <1>7 DEF IsWhole
<1>9. QED
  BY <1>1, <1>2, <1>8 DEF f, p

\* An executor without objects has neither runs nor jobs.
LEMMA NothingYet ==
  ASSUME NEW f, NEW p, IsWhole(f, p), f.objects = <<>>
  PROVE  /\ Working(f) = {} /\ f.jobs = <<>> /\ \A i \in Level : f.last[i].identity = Null
<1>1. IsLaidOut(f, p) /\ IsStack(f.objects, p)
  BY StackOf DEF IsWhole
<1>2. ASSUME NEW i \in Level PROVE p[i].kind = "none" /\ f.last[i].identity = Null
  <2>1. RunsAreSound(f.objects, p[i], p[i + 1], i) /\ p[i] \in Places /\ LastIsSound(f, i, p[i])
    BY <1>1, LevelAt
  <2>2. DOMAIN f.objects = {}
    OBVIOUS
  <2>3. p[i].kind = "none"
    BY <2>1, <2>2, PlaceType DEF RunsAreSound, OneRun, FreshRun, TwoRuns, DoneRuns, RootRun, IsRun, Kinds
  <2>4. QED
    BY <2>1, <2>3 DEF LastIsSound, Newest
<1>3. Working(f) = {}
  <2>1. \A i \in Working(f) : p[i].kind = "two" /\ i \in Level
    BY <1>1, JobAt
  <2>2. QED
    BY <1>2, <2>1
<1>4. f.jobs = <<>>
  <2>1. f.jobs \in [Working(f) -> Job]
    BY <1>1, StackOf
  <2>2. QED
    BY <1>3, <2>1
<1>5. QED
  BY <1>2, <1>3, <1>4

BatchRun(height, i) ==
  [first |-> RunMass[height] - RunMass[i + 1], last |-> RunMass[height] - RunMass[i], level |-> i,
   secondary |-> FALSE, next |-> [main |-> height - i - 1, secondary |-> Null]]
BatchEntry(height) ==
  [first |-> RunMass[height] - 1, last |-> RunMass[height], level |-> 0, secondary |-> TRUE, next |-> Nowhere]
BatchObjects(height) == Append([n \in 1..height |-> BatchRun(height, height - n)], BatchEntry(height))

\* The runs of a batch.
LEMMA BatchObjectsAre ==
  ASSUME NEW height \in 1..(Levels - 1)
  PROVE  /\ BatchObjects(height) \in Seq(Object)
         /\ \A i \in 0..(height - 1) : /\ height - i \in DOMAIN BatchObjects(height)
                                       /\ BatchObjects(height)[height - i] = BatchRun(height, i)
         /\ height + 1 \in DOMAIN BatchObjects(height)
         /\ BatchObjects(height)[height + 1] = BatchEntry(height)
<1> USE RuntimeAssumption
<1>1. RunMass[height] \in Nat \ {0} /\ height \in Nat
  BY RunMassIs
<1>2. ASSUME NEW i \in 0..(height - 1) PROVE BatchRun(height, i) \in Object
  <2>1. /\ i \in Level /\ i \in 0..Levels /\ i + 1 \in 0..Levels /\ height \in 0..Levels
        /\ i + 1 <= height /\ i <= height
    BY DEF Level
  <2>2. /\ RunMass[i] <= RunMass[height] /\ RunMass[i + 1] <= RunMass[height]
        /\ RunMass[i] \in Nat /\ RunMass[i + 1] \in Nat
    BY <2>1, RunMassGrows, RunMassIs
  <2>3. RunMass[height] - RunMass[i + 1] \in Nat /\ RunMass[height] - RunMass[i] \in Nat /\ height - i - 1 \in Nat
    BY <1>1, <2>1, <2>2
  <2>4. [main |-> height - i - 1, secondary |-> Null] \in Route
    BY <2>3 DEF Route, Null
  <2>5. QED
    BY <2>1, <2>3, <2>4 DEF BatchRun, Object
<1>3. BatchEntry(height) \in Object
  <2>1. RunMass[height] - 1 \in Nat /\ Nowhere \in Route /\ 0 \in Level
    BY <1>1 DEF Nowhere, Route, Null, Level
  <2>2. QED
    BY <1>1, <2>1 DEF BatchEntry, Object
<1> DEFINE runs == [n \in 1..height |-> BatchRun(height, height - n)]
           entry == BatchEntry(height)
<1>4. runs \in Seq(Object) /\ Len(runs) = height
  <2>1. \A n \in 1..height : height - n \in 0..(height - 1)
    OBVIOUS
  <2>2. \A n \in 1..height : runs[n] \in Object
    BY <1>2, <2>1
  <2> HIDE DEF runs
  <2>3. DOMAIN runs = 1..height /\ runs = [n \in 1..height |-> runs[n]]
    BY DEF runs
  <2>4. runs \in [1..height -> Object]
    BY <2>2, <2>3
  <2>5. QED
    BY <2>3, <2>4, <1>1
<1>5. \A i \in 0..(height - 1) : height - i \in 1..height /\ runs[height - i] = BatchRun(height, i)
  <2> TAKE i \in 0..(height - 1)
  <2>1. height - i \in 1..height /\ height - (height - i) = i
    OBVIOUS
  <2>2. QED
    BY <2>1
<1> HIDE DEF runs, entry
<1>6. /\ Append(runs, entry) \in Seq(Object)
      /\ Append(runs, entry)[height + 1] = entry /\ height + 1 \in DOMAIN Append(runs, entry)
      /\ \A n \in 1..height : Append(runs, entry)[n] = runs[n] /\ n \in DOMAIN Append(runs, entry)
  BY <1>1, <1>3, <1>4 DEF entry
<1>7. BatchObjects(height) = Append(runs, entry)
  BY DEF BatchObjects, runs, entry
<1>8. QED
  BY <1>5, <1>6, <1>7 DEF entry

Laid(kind, into, before, end) ==
  [kind |-> kind, a |-> 0, b |-> 1, c |-> 2, into |-> into, before |-> before, end |-> end, seen |-> TRUE]

\* A place that a batch lays down.
LEMMA LaidForm ==
  ASSUME NEW kind \in Kinds, NEW into \in Route, NEW before \in Route, NEW end \in Nat
  PROVE  /\ Laid(kind, into, before, end) \in Places /\ Laid(kind, into, before, end).seen
         /\ Laid(kind, into, before, end).kind = kind /\ Laid(kind, into, before, end).into = into
         /\ Laid(kind, into, before, end).before = before /\ Laid(kind, into, before, end).end = end
         /\ Laid(kind, into, before, end).a = 0 /\ Laid(kind, into, before, end).b = 1
         /\ Laid(kind, into, before, end).c = 2
  BY DEF Laid, Places, Place, Slots

\* The places of a batch.
BatchPlace(height, i) ==
  IF i >= height THEN Bare
  ELSE IF i = 0
  THEN Laid("two", [main |-> height, secondary |-> height + 1], [main |-> height, secondary |-> Null], RunMass[height])
  ELSE Laid("one", [main |-> height - i, secondary |-> Null], Nowhere, RunMass[height] - RunMass[i])

\* A batch lays two runs in level 0 and one in each level below its height.
LEMMA BatchPlaceIs ==
  ASSUME NEW height \in 1..(Levels - 1), NEW i \in 0..Levels
  PROVE  /\ BatchPlace(height, i) \in Places /\ BatchPlace(height, i).seen
         /\ BatchPlace(height, i).a = 0 /\ BatchPlace(height, i).b = 1 /\ BatchPlace(height, i).c = 2
         /\ i >= height => BatchPlace(height, i) = Bare
         /\ i = 0 =>
              /\ BatchPlace(height, i).kind = "two"
              /\ BatchPlace(height, i).into = [main |-> height, secondary |-> height + 1]
              /\ BatchPlace(height, i).before = [main |-> height, secondary |-> Null]
              /\ BatchPlace(height, i).end = RunMass[height]
         /\ i # 0 /\ i < height =>
              /\ BatchPlace(height, i).kind = "one"
              /\ BatchPlace(height, i).into = [main |-> height - i, secondary |-> Null]
              /\ BatchPlace(height, i).before = Nowhere
              /\ BatchPlace(height, i).end = RunMass[height] - RunMass[i]
<1> USE RuntimeAssumption
<1>0. Nowhere \in Route /\ (\A m, s \in Nat : [main |-> m, secondary |-> s] \in Route) /\ Null \in Nat
  BY DEF Nowhere, Route, Null
<1>1. CASE i >= height
  BY <1>1, BareForm DEF BatchPlace
<1>2. CASE i < height /\ i # 0
  <2>1. RunMass[height] - RunMass[i] \in Nat /\ height - i \in Nat
    BY SMTT(20), <1>2, RunMassIs, RunMassGrows
  <2>2. [main |-> height - i, secondary |-> Null] \in Route /\ "one" \in Kinds
    BY <2>1, <1>0 DEF Kinds
  <2>3. BatchPlace(height, i) = Laid("one", [main |-> height - i, secondary |-> Null], Nowhere, RunMass[height] - RunMass[i])
    BY <1>2 DEF BatchPlace
  <2>4. QED
    BY <2>1, <2>2, <2>3, <1>0, <1>2, LaidForm
<1>3. CASE i = 0
  <2>1. RunMass[height] \in Nat /\ height \in Nat /\ height + 1 \in Nat /\ i < height
    BY <1>3, RunMassIs
  <2>2. /\ [main |-> height, secondary |-> height + 1] \in Route /\ [main |-> height, secondary |-> Null] \in Route
        /\ "two" \in Kinds
    BY <2>1, <1>0 DEF Kinds
  <2>3. BatchPlace(height, i)
        = Laid("two", [main |-> height, secondary |-> height + 1], [main |-> height, secondary |-> Null], RunMass[height])
    BY <2>1, <1>3 DEF BatchPlace
  <2>4. QED
    BY <2>1, <2>2, <2>3, <1>3, LaidForm
<1>4. QED
  BY <1>1, <1>2, <1>3

BatchSlots(height) ==
  [i \in Level |-> [s \in Slots |->
     CASE s = 0 /\ i < height -> Holding("active", height - i)
       [] s = 1 /\ i = 0      -> Holding("active", height + 1)
       [] OTHER               -> Empty]]

\* What try_initialize_sorted builds.
LEMMA BuiltIs ==
  ASSUME NEW f, IsTyped(f), NEW height \in 1..(Levels - 1), RunMass[height] <= MaxAdmissions,
         NEW g, g = Built(f, height)
  PROVE  /\ DOMAIN g = FrontierFields /\ IsTyped(g)
         /\ g.admissions = RunMass[height] /\ g.height = height /\ g.objects = BatchObjects(height)
         /\ g.slots = BatchSlots(height) /\ g.root = [main |-> height, secondary |-> height + 1]
         /\ g.service_due = service_budget(RunMass[height])
         /\ g.jobs = f.jobs /\ g.last = f.last
<1> USE RuntimeAssumption
<1>1. DOMAIN f = FrontierFields /\ RunMass[height] \in Nat
  BY RunMassIs DEF IsTyped
<1>2. g = [f EXCEPT !.admissions = RunMass[height], !.height = height, !.objects = BatchObjects(height),
                    !.slots = BatchSlots(height), !.root = [main |-> height, secondary |-> height + 1],
                    !.service_due = service_budget(RunMass[height])]
  BY Zenon DEF Built, BatchObjects, BatchRun, BatchEntry, BatchSlots
<1>3. /\ DOMAIN g = FrontierFields
      /\ g.admissions = RunMass[height] /\ g.height = height /\ g.objects = BatchObjects(height)
      /\ g.slots = BatchSlots(height) /\ g.root = [main |-> height, secondary |-> height + 1]
      /\ g.service_due = service_budget(RunMass[height])
      /\ g.jobs = f.jobs /\ g.last = f.last
  BY <1>1, <1>2 DEF FrontierFields
<1>4. BatchSlots(height) \in [Level -> [Slots -> Slot]]
  <2>1. \A id \in Nat : Holding("active", id) \in Slot
    BY SlotForms DEF Slot, States, Route
  <2>2. ASSUME NEW i \in Level, NEW s \in Slots
        PROVE  (CASE s = 0 /\ i < height -> Holding("active", height - i)
                  [] s = 1 /\ i = 0      -> Holding("active", height + 1)
                  [] OTHER               -> Empty) \in Slot
    <3>1. CASE s = 0 /\ i < height
      <4>1. height - i \in Nat
        BY <3>1 DEF Level
      <4>2. QED
        BY <3>1, <4>1, <2>1
    <3>2. CASE s = 1 /\ i = 0
      BY <3>2, <2>1
    <3>3. CASE ~(s = 0 /\ i < height) /\ ~(s = 1 /\ i = 0)
      BY <3>3, SlotForms
    <3>4. QED
      BY <3>1, <3>2, <3>3
  <2>3. QED
    BY <2>2 DEF BatchSlots
<1>5. IsTyped(g)
  <2>1. service_budget(RunMass[height]) \in Nat
    BY <1>1, BudgetType
  <2>2. g.root \in Route /\ g.height \in 1..Levels
    BY <1>3 DEF Route
  <2>3. QED
    BY <1>1, <1>3, <1>4, <2>1, <2>2, BatchObjectsAre DEF IsTyped, IsFrontier
<1>6. QED
  BY <1>3, <1>5

BatchPlaces(height) == [i \in 0..Levels |-> BatchPlace(height, i)]

\* The objects of a batch are a stack.
LEMMA BatchStack ==
  ASSUME NEW height \in 1..(Levels - 1)
  PROVE  /\ IsStack(BatchObjects(height), BatchPlaces(height))
         /\ BatchPlaces(height) \in [0..Levels -> Places]
         /\ \A i \in 0..Levels : BatchPlaces(height)[i] = BatchPlace(height, i)
<1> USE RuntimeAssumption
<1> DEFINE objects == BatchObjects(height)
           p == BatchPlaces(height)
<1>1. p \in [0..Levels -> Places] /\ \A i \in 0..Levels : p[i] = BatchPlace(height, i)
  <2>1. \A i \in 0..Levels : BatchPlace(height, i) \in Places
    BY BatchPlaceIs
  <2>2. QED
    BY <2>1 DEF BatchPlaces
<1>2. /\ \A i \in 0..(height - 1) : height - i \in DOMAIN objects /\ objects[height - i] = BatchRun(height, i)
      /\ height + 1 \in DOMAIN objects /\ objects[height + 1] = BatchEntry(height)
  BY BatchObjectsAre
<1> HIDE DEF p, objects
<1>6. \A j \in 0..Levels :
         /\ p[j].seen
         /\ j >= height => p[j] = Bare
         /\ j = 0 => /\ p[j].kind = "two" /\ p[j].into = [main |-> height, secondary |-> height + 1]
                     /\ p[j].before = [main |-> height, secondary |-> Null] /\ p[j].end = RunMass[height]
         /\ j # 0 /\ j < height =>
              /\ p[j].kind = "one" /\ p[j].into = [main |-> height - j, secondary |-> Null]
              /\ p[j].before = Nowhere /\ p[j].end = RunMass[height] - RunMass[j]
  <2> TAKE j \in 0..Levels
  <2>1. p[j] = BatchPlace(height, j)
    BY <1>1
  <2>2. QED
    BY <2>1, BatchPlaceIs
<1>7. \A j \in 0..Levels : j >= height => p[j] = Bare
  BY <1>6
<1>8. \A j \in 0..Levels : p[j].seen
  BY <1>6
<1>3. IsBare(p[Levels])
  <2>1. Levels \in 0..Levels /\ Levels >= height
    OBVIOUS
  <2>2. p[Levels] = Bare
    BY <2>1, <1>7
  <2>3. QED
    BY <2>2, BareForm
<1>4. ASSUME NEW i \in Level PROVE RunsAreSound(objects, p[i], p[i + 1], i)
  <2> DEFINE k == i + 1
             q == p[i]
             above == p[k]
  <2>1. i \in 0..Levels /\ k \in 0..Levels /\ k = i + 1 /\ k # 0
    BY DEF Level
  <2>2. RunMass[i] \in Nat /\ RunMass[k] = 2 * RunMass[i] /\ RunMass[0] = 1 /\ RunMass[height] \in Nat
    BY <2>1, RunMassIs
  <2> HIDE DEF k
  <2>7. q.seen /\ above.seen
    BY <1>8, <2>1
  <2>3. i < height => /\ above.end = RunMass[height] - RunMass[k]
                      /\ above.into = [main |-> height - i - 1, secondary |-> Null]
    <3>1. CASE k < height
      <4>1. height - k = height - i - 1
        BY <2>1
      <4>2. above.end = RunMass[height] - RunMass[k] /\ above.into = [main |-> height - k, secondary |-> Null]
        BY <3>1, <2>1, <1>6
      <4>3. QED
        BY <4>1, <4>2
    <3>2. CASE k = height
      <4>1. above = Bare
        <5>1. k >= height
          BY <3>2
        <5>2. QED
          BY <5>1, <2>1, <1>7
      <4>2. height - i - 1 = 0
        BY <3>2, <2>1
      <4>3. QED
        BY <4>1, <4>2, <3>2, <2>2, BareForm DEF Nowhere, Null
    <3>3. QED
      BY <3>1, <3>2, <2>1
  <2>4. CASE i >= height
    <3>1. q = Bare /\ above = Bare
      <4>1. k >= height
        BY <2>1, <2>4
      <4>2. QED
        BY <4>1, <2>1, <2>4, <1>7
    <3>2. RunsAreSound(objects, Bare, Bare, i)
      BY BareForm DEF RunsAreSound
    <3>3. QED
      BY <3>1, <3>2 DEF k
  <2>5. CASE i < height
    <3>1. i \in 0..(height - 1)
      BY <2>1, <2>5
    <3>2. IsRun(objects, height - i, i, above.end, FALSE, above.into)
      <4>1. objects[height - i] = BatchRun(height, i) /\ height - i \in DOMAIN objects
        BY <3>1, <1>2
      <4>2. RunMass[height] - RunMass[i] = (RunMass[height] - RunMass[k]) + RunMass[i] /\ RunMass[i + 1] = RunMass[k]
        BY <2>1, <2>2
      <4>3. QED
        BY <4>1, <4>2, <2>3, <2>5 DEF IsRun, BatchRun
    <3>3. CASE i = 0
      <4>1. /\ q.kind = "two" /\ q.into = [main |-> height, secondary |-> height + 1]
            /\ q.before = [main |-> height, secondary |-> Null] /\ q.end = RunMass[height]
        BY <2>1, <3>3, <1>6
      <4>2. above.end = RunMass[height] - 2
        BY <2>2, <2>3, <2>5, <3>3
      <4>3. IsRun(objects, height + 1, i, above.end + RunMass[i], TRUE, Nowhere)
        BY <1>2, <2>2, <4>2, <3>3 DEF IsRun, BatchEntry
      <4>4. TwoRuns(objects, q, above, i)
        <5>1. IsRun(objects, q.into.main, i, above.end, FALSE, above.into)
          <6>1. q.into.main = height - i
            BY <3>3, <4>1
          <6>2. QED
            BY <3>2, <6>1
        <5>2. q.end = above.end + 2 * RunMass[i]
          BY <2>2, <4>1, <4>2, <3>3
        <5>3. IsRun(objects, q.into.secondary, i, above.end + RunMass[i], TRUE, Nowhere)
          <6>1. q.into.secondary = height + 1
            BY <4>1
          <6>2. QED
            BY <4>3, <6>1
        <5>4. q.before = [main |-> q.into.main, secondary |-> Null]
          BY <4>1
        <5> HIDE DEF q, above
        <5>5. QED
          BY <5>1, <5>2, <5>3, <5>4, <2>7 DEF TwoRuns
      <4>5. QED
        BY <4>1, <4>4 DEF RunsAreSound, k
    <3>4. CASE i # 0
      <4>1. /\ q.kind = "one" /\ q.into = [main |-> height - i, secondary |-> Null]
            /\ q.before = Nowhere /\ q.end = RunMass[height] - RunMass[i]
        BY <2>1, <2>5, <3>4, <1>6
      <4>2. q.end = above.end + RunMass[i]
        BY <4>1, <2>2, <2>3, <2>5
      <4>3. OneRun(objects, q, above, i)
        <5>1. IsRun(objects, q.into.main, i, above.end, FALSE, above.into)
          <6>1. q.into.main = height - i
            BY <4>1
          <6>2. QED
            BY <3>2, <6>1
        <5>2. q.into.secondary = Null /\ q.before = Nowhere
          BY <4>1
        <5> HIDE DEF q, above
        <5>3. QED
          BY <5>1, <5>2, <4>2, <2>7 DEF OneRun
      <4>4. QED
        BY <4>1, <4>3 DEF RunsAreSound, k
    <3>5. QED
      BY <3>3, <3>4
  <2>6. QED
    BY <2>4, <2>5 DEF Level
<1>5. QED
  BY <1>1, <1>3, <1>4 DEF IsStack, p, objects

\* try_initialize_sorted leaves a whole frontier: two runs at level 0 and one at
\* each level above, all of them visible.
LEMMA BatchLaysOut ==
  ASSUME NEW f, NEW p, IsWhole(f, p), f.objects = <<>>,
         NEW height \in 1..(Levels - 1), RunMass[height] <= MaxAdmissions
  PROVE  /\ IsWhole(Shown(Built(f, height)), BatchPlaces(height))
         /\ \A i \in 0..Levels : BatchPlaces(height)[i].kind = "two" <=> i = 0
         /\ BatchPlaces(height)[0].end = RunMass[height]
         /\ Shown(Built(f, height)).admissions = RunMass[height]
         /\ Shown(Built(f, height)).service_due = service_budget(RunMass[height])
         /\ Shown(Built(f, height)).jobs = <<>>
<1> USE RuntimeAssumption
<1> DEFINE e == Built(f, height)
           r == BatchPlaces(height)
           R == ShownRoutes(r)
           g == Shown(e)
<1>1. /\ DOMAIN e = FrontierFields /\ IsTyped(e)
      /\ e.admissions = RunMass[height] /\ e.height = height /\ e.objects = BatchObjects(height)
      /\ e.slots = BatchSlots(height) /\ e.root = [main |-> height, secondary |-> height + 1]
      /\ e.service_due = service_budget(RunMass[height])
      /\ e.jobs = f.jobs /\ e.last = f.last
  <2>1. IsTyped(f)
    BY DEF IsWhole, IsLaidOut
  <2>2. QED
    BY <2>1, BuiltIs
<1>2. /\ Working(f) = {} /\ f.jobs = <<>> /\ (\A i \in Level : f.last[i].identity = Null)
      /\ f.last \in [Level -> [identity : Nat, visible : BOOLEAN]]
  <2>1. IsLaidOut(f, p)
    BY DEF IsWhole
  <2>2. QED
    BY <2>1, NothingYet, StackOf
<1>3. /\ IsStack(e.objects, r) /\ r \in [0..Levels -> Places] /\ e.objects \in Seq(Object)
      /\ \A i \in 0..Levels : r[i] = BatchPlace(height, i)
  BY <1>1, BatchStack, BatchObjectsAre
<1>4. /\ \A i \in 0..(height - 1) : height - i \in DOMAIN e.objects /\ e.objects[height - i] = BatchRun(height, i)
      /\ height + 1 \in DOMAIN e.objects /\ e.objects[height + 1] = BatchEntry(height)
  BY <1>1, BatchObjectsAre
<1> HIDE DEF e, r
<1>5. \A i \in 0..Levels : /\ r[i].seen /\ r[i].a = 0 /\ r[i].b = 1 /\ r[i].c = 2
                           /\ i >= height => r[i] = Bare
  BY <1>3, BatchPlaceIs
<1>6. /\ r[0].kind = "two" /\ r[0].into = [main |-> height, secondary |-> height + 1]
      /\ r[0].before = [main |-> height, secondary |-> Null] /\ r[0].end = RunMass[height]
      /\ 0 \in 0..Levels /\ 0 \in Level /\ 0 < height
  <2>1. 0 \in 0..Levels /\ 0 \in Level /\ 0 < height
    BY DEF Level
  <2>2. r[0] = BatchPlace(height, 0)
    BY <1>3, <2>1
  <2>3. QED
    BY <2>1, <2>2, BatchPlaceIs
<1>7. ASSUME NEW i \in 0..Levels, i # 0, i < height
      PROVE  r[i].kind = "one" /\ r[i].into = [main |-> height - i, secondary |-> Null]
  <2>1. r[i] = BatchPlace(height, i)
    BY <1>3
  <2>2. /\ BatchPlace(height, i).kind = "one"
        /\ BatchPlace(height, i).into = [main |-> height - i, secondary |-> Null]
    BY <1>7, BatchPlaceIs
  <2>3. QED
    BY <2>1, <2>2
<1>8. IsChain(e.objects, R) /\ e.root = R[0]
  <2>1. R[0] = r[0].into
    BY <1>5, <1>6 DEF ShownRoutes, Shows
  <2>2. QED
    BY <2>1, <1>1, <1>3, <1>6, StackChain
<1> HIDE DEF R
<1>9. \A i \in Level, s \in Slots :
         e.slots[i][s] = CASE s = 0 /\ i < height -> Holding("active", height - i)
                           [] s = 1 /\ i = 0      -> Holding("active", height + 1)
                           [] OTHER               -> Empty
  BY <1>1 DEF BatchSlots
<1>10. NamesAreHome(e)
  <2>1. ASSUME NEW i \in Level, NEW s \in Slots, e.slots[i][s].object # Null
        PROVE  e.slots[i][s].object \in DOMAIN e.objects /\ e.objects[e.slots[i][s].object].level = i
    <3>1. CASE s = 0 /\ i < height
      <4>1. e.slots[i][s] = Holding("active", height - i) /\ i \in 0..(height - 1)
        BY <3>1, <1>9 DEF Level
      <4>2. e.slots[i][s].object = height - i
        BY <4>1 DEF Holding, Carrier
      <4>3. e.objects[height - i] = BatchRun(height, i) /\ height - i \in DOMAIN e.objects
        BY <4>1, <1>4
      <4>4. QED
        BY <4>2, <4>3 DEF BatchRun
    <3>2. CASE s = 1 /\ i = 0
      <4>1. e.slots[i][s] = Holding("active", height + 1)
        BY <3>2, <1>9
      <4>2. e.slots[i][s].object = height + 1
        BY <4>1 DEF Holding, Carrier
      <4>3. QED
        BY <3>2, <4>2, <1>4 DEF BatchEntry
    <3>3. CASE ~(s = 0 /\ i < height) /\ ~(s = 1 /\ i = 0)
      <4>1. e.slots[i][s] = Empty
        BY <3>3, <1>9
      <4>2. QED
        BY <4>1, <2>1 DEF Empty
    <3>4. QED
      BY <3>1, <3>2, <3>3
  <2>2. \A i \in Level : e.last[i].identity = Null
    BY <1>1, <1>2
  <2>3. QED
    BY <2>1, <2>2 DEF NamesAreHome
<1>11. /\ DOMAIN g = FrontierFields
       /\ g.admissions = e.admissions /\ g.service_due = e.service_due
       /\ g.height = e.height /\ g.objects = e.objects
       /\ g.root = e.root /\ g.jobs = e.jobs
       /\ g.slots = MarkedSlots(e, R) /\ g.last = NoticedLast(e, R)
  <2>1. DOMAIN e = FrontierFields
    BY <1>1
  <2>2. QED
    BY <2>1, <1>8, <1>10, ShownIs
<1>12. IsTyped(g)
  BY <1>1, <1>8, <1>10, ShownTyped
<1> HIDE DEF g
<1>13. /\ Working(g) = {} /\ g.jobs = <<>> /\ \A i : ~Reserved(g, i)
  BY <1>1, <1>2, <1>11 DEF Working, Reserved
<1>14. \A i \in Level : g.last[i].identity = Null
  <2> TAKE i \in Level
  <2>1. g.last[i] = Noticed(f.last[i], Ends(R[i])) /\ f.last[i] \in [identity : Nat, visible : BOOLEAN]
    BY <1>1, <1>2, <1>11 DEF NoticedLast
  <2>2. QED
    BY <2>1, <1>2 DEF Noticed
<1>15. ASSUME NEW i \in Level PROVE LevelIsSound(g, r, i)
  <2> DEFINE q == r[i]
             above == r[i + 1]
             E == Ends(q.into)
  <2>1. /\ i \in 0..Levels /\ q.seen /\ q.a = 0 /\ q.b = 1 /\ q.c = 2 /\ (i >= height => q = Bare)
        /\ RunsAreSound(g.objects, q, above, i)
    <3>1. i \in 0..Levels
      BY DEF Level
    <3>2. QED
      BY <3>1, <1>3, <1>5, <1>11, StackAt
  <2>2. \A s \in Slots : g.slots[i][s] = Marked(e.slots[i][s], E)
    <3>1. R[i] = q.into
      BY <2>1 DEF R, ShownRoutes, Shows
    <3>2. QED
      BY <3>1, <1>11 DEF MarkedSlots
  <2> HIDE DEF q, above, E
  <2>3. Marked(Empty, E) = Empty
    BY DEF Marked, Empty, E, Ends
  <2>4. \A id \in E : Marked(Holding("active", id), E) = Keeping("active", id, TRUE)
    BY DEF Marked, Holding, Carrier, Keeping
  <2>5. Waiting(g, i, Empty) = Empty
    BY <1>13 DEF Waiting
  <2>6. 0 \in Slots /\ 1 \in Slots /\ 2 \in Slots
    BY DEF Slots
  <2>7. SlotsAreSound(g, i, q, above)
    <3>1. CASE i >= height
      <4>1. ASSUME NEW s \in Slots PROVE e.slots[i][s] = Empty
        <5>1. ~(s = 0 /\ i < height) /\ ~(s = 1 /\ i = 0)
          BY <3>1, <1>6 DEF Level
        <5>2. QED
          BY <5>1, <1>9
      <4>2. SlotsAre(g, i, q, Waiting(g, i, Empty), Empty, Empty)
        BY <4>1, <2>1, <2>2, <2>3, <2>5, <2>6 DEF SlotsAre
      <4>3. q.kind = "none"
        BY <2>1, <3>1, BareForm
      <4>4. QED
        BY <4>2, <4>3 DEF SlotsAreSound
    <3>2. CASE i # 0 /\ i < height
      <4>1. q.kind = "one" /\ q.into = [main |-> height - i, secondary |-> Null]
        BY <2>1, <3>2, <1>7 DEF q
      <4>2. e.slots[i][0] = Holding("active", height - i) /\ e.slots[i][1] = Empty /\ e.slots[i][2] = Empty
        BY <3>2, <1>9, <2>6
      <4>3. height - i \in E
        BY <4>1, <3>2 DEF E, Ends, Null, Level
      <4>4. Marked(Holding("active", height - i), E) = Keeping("active", height - i, TRUE)
        BY <4>3 DEF Marked, Holding, Carrier, Keeping
      <4>5. Keeping("active", q.into.main, q.seen) = Keeping("active", height - i, TRUE)
        BY <4>1, <2>1 DEF Keeping
      <4>6. SlotsAre(g, i, q, Keeping("active", q.into.main, q.seen), Waiting(g, i, Empty), Empty)
        BY <4>2, <4>4, <4>5, <2>1, <2>2, <2>3, <2>5, <2>6 DEF SlotsAre
      <4>7. QED
        BY <4>1, <4>6 DEF SlotsAreSound
    <3>3. CASE i = 0
      <4>1. q.kind = "two" /\ q.into = [main |-> height, secondary |-> height + 1]
        BY <3>3, <1>6 DEF q
      <4>2. e.slots[i][0] = Holding("active", height) /\ e.slots[i][1] = Holding("active", height + 1) /\ e.slots[i][2] = Empty
        <5>1. e.slots[0][0] = Holding("active", height - 0) /\ e.slots[0][1] = Holding("active", height + 1) /\ e.slots[0][2] = Empty
          BY <1>6, <1>9, <2>6
        <5>2. height - 0 = height
          OBVIOUS
        <5>3. QED
          BY <5>1, <5>2, <3>3
      <4>3. height \in E /\ height + 1 \in E
        BY <4>1 DEF E, Ends, Null
      <4>4. /\ Marked(Holding("active", height), E) = Keeping("active", height, TRUE)
            /\ Marked(Holding("active", height + 1), E) = Keeping("active", height + 1, TRUE)
        BY <4>3 DEF Marked, Holding, Carrier, Keeping
      <4>5. /\ Keeping("active", q.into.main, TRUE) = Keeping("active", height, TRUE)
            /\ Keeping("active", q.into.secondary, q.seen) = Keeping("active", height + 1, TRUE)
        BY <4>1, <2>1 DEF Keeping
      <4>6. i \notin Working(g)
        BY <1>13
      <4>7. SlotsAre(g, i, q, Keeping("active", q.into.main, TRUE), Keeping("active", q.into.secondary, q.seen), Empty)
        BY ZenonT(30), <4>2, <4>4, <4>5, <2>1, <2>2, <2>3, <2>6 DEF SlotsAre
      <4>8. QED
        BY <4>1, <4>6, <4>7 DEF SlotsAreSound
    <3>4. QED
      BY <3>1, <3>2, <3>3 DEF Level
  <2>8. LastIsSound(g, i, q)
    BY <2>1, <1>14 DEF LastIsSound
  <2>9. i >= g.height => q.kind = "none"
    BY <2>1, <1>1, <1>11, BareForm
  <2>10. QED
    BY <2>1, <2>7, <2>8, <2>9 DEF LevelIsSound, q, above
<1>16. IsLaidOut(g, r)
  BY <1>3, <1>12, <1>13, <1>15 DEF IsLaidOut, IsStack
<1>17. IsWhole(g, r)
  BY <1>1, <1>6, <1>11, <1>14, <1>16 DEF IsWhole
<1>18. \A i \in 0..Levels : r[i].kind = "two" <=> i = 0
  <2> TAKE i \in 0..Levels
  <2>1. i >= height => r[i].kind = "none"
    BY <1>5, BareForm
  <2>2. CASE i = 0
    BY <2>2, <1>6
  <2>3. CASE i # 0 /\ i < height
    <3>1. r[i].kind = "one"
      BY <2>3, <1>7
    <3>2. QED
      BY <2>3, <3>1
  <2>4. CASE i >= height
    <3>1. r[i].kind = "none" /\ i # 0
      BY <2>1, <2>4, <1>6
    <3>2. QED
      BY <3>1
  <2>5. QED
    BY <2>2, <2>3, <2>4
<1>19. QED
  BY <1>1, <1>6, <1>11, <1>13, <1>17, <1>18 DEF e, r, g

\* action::commit: what the frontier becomes.
Committed(f, i) == IF i = 0 THEN Rooted(Handed(f, i), f.jobs[i]) ELSE Handed(f, i)

\* What the merge of a level does to the ends of the levels and to those that wait.
IsMerged(p, r, i) ==
  /\ r[i].kind # "two" /\ r[i + 1].end = p[i].end
  /\ r[i + 1].kind = "two" <=> p[i + 1].kind = "one"
  /\ \A j \in 0..Levels : /\ j # i + 1 => r[j].end = p[j].end
                          /\ j # i /\ j # i + 1 => (r[j].kind = "two" <=> p[j].kind = "two")

\* A commit leaves a whole frontier, one job fewer and what a merge does to the levels.
LEMMA CommitLaysOut ==
  ASSUME NEW f, NEW p, IsWhole(f, p), NEW i \in Working(f), f.jobs[i].stage = "commit"
  PROVE  \E r : /\ IsWhole(Committed(f, i), r) /\ IsMerged(p, r, i)
                /\ Committed(f, i).admissions = f.admissions
                /\ Committed(f, i).service_due = f.service_due
                /\ Committed(f, i).jobs = [j \in Working(f) \ {i} |-> f.jobs[j]]
<1> USE RuntimeAssumption
<1>1. IsLaidOut(f, p)
  BY DEF IsWhole
<1>2. /\ i \in Level /\ i + 1 \in Level /\ i \in Nat /\ f.jobs[i] \in Job /\ f.jobs[i].carrier_slot = p[i].c
      /\ p[i].kind = "two" /\ p[i + 1].kind \in {"none", "one", "done"}
      /\ i \in 0..Levels /\ i + 1 \in 0..Levels
  BY <1>1, JobAt DEF Level
<1>3. PICK q : IsPassedOn(f, p, q, i) /\ IsLaidOut(Handed(f, i), q)
  BY <1>1, HandingLaysOut, Zenon
<1> DEFINE g == Handed(f, i)
<1>4. /\ g.admissions = f.admissions /\ g.service_due = f.service_due /\ g.root = f.root
      /\ g.jobs = [j \in Working(f) \ {i} |-> f.jobs[j]]
      /\ g.last = [f.last EXCEPT ![i + 1] = [identity |-> f.jobs[i].output, visible |-> FALSE]]
  <2>1. IsHanded(f, p, g, i)
    BY <1>1, HandedIs
  <2>2. QED
    BY <2>1 DEF IsHanded
<1> HIDE DEF g
<1>5. /\ p \in [0..Levels -> Places] /\ q \in [0..Levels -> Places]
      /\ q[i] = [p[i] EXCEPT !.kind = "done"] /\ IsRaised(f, p, i, q[i + 1])
      /\ \A j \in 0..Levels : j # i /\ j # i + 1 => q[j] = p[j]
  BY <1>1, <1>3 DEF IsPassedOn, IsLaidOut
<1>6. /\ q[i].kind = "done" /\ q[i].into = p[i].into /\ q[i].end = p[i].end /\ q[i].c = p[i].c
      /\ q[i + 1].end = p[i].end /\ (q[i + 1].kind = "two" <=> p[i + 1].kind = "one")
      /\ q[i + 1].into = Target(f.jobs[i])
  <2>1. p[i] \in Place
    BY <1>2, <1>5 DEF Places
  <2>2. QED
    BY <2>1, <1>2, <1>5 DEF Place, IsRaised
<1>7. IsMerged(p, q, i)
  <2>1. \A j \in 0..Levels : /\ j # i + 1 => q[j].end = p[j].end
                             /\ j # i /\ j # i + 1 => (q[j].kind = "two" <=> p[j].kind = "two")
    BY <1>2, <1>5, <1>6
  <2>2. q[i].kind # "two"
    BY <1>6
  <2>3. QED
    BY <2>1, <2>2, <1>6 DEF IsMerged
<1>8. f.admissions = p[0].end /\ f.admissions <= MaxAdmissions /\ f.root = p[0].into /\ f.last[0].identity = Null
      /\ p[0].kind \in {"none", "one", "two", "root"}
  BY DEF IsWhole
<1>9. g.last[0].identity = Null
  <2>1. f.last \in [Level -> [identity : Nat, visible : BOOLEAN]] /\ 0 \in Level /\ 0 # i + 1
    BY <1>1, <1>2, StackOf DEF Level
  <2>2. QED
    BY <2>1, <1>4, <1>8
<1>10. CASE i = 0
  <2> DEFINE job == f.jobs[i]
  <2>1. Committed(f, i) = Rooted(g, job)
    BY <1>10 DEF Committed, g
  <2>2. q[0].kind = "done" /\ g.root = q[0].into /\ g.admissions = q[0].end /\ g.admissions <= MaxAdmissions
    BY <1>4, <1>6, <1>8, <1>10
  <2>3. Target(job) = q[1].into /\ job.carrier_slot = q[0].c
    BY <1>2, <1>6, <1>10
  <2>4. IsLaidOut(g, q)
    BY <1>3 DEF g
  <2> HIDE DEF job
  <2>5. PICK r : /\ IsWhole(Rooted(g, job), r)
                 /\ r[0].kind = "root" /\ r[0].end = q[0].end
                 /\ \A j \in 1..Levels : r[j].end = q[j].end /\ (r[j].kind = "two" <=> q[j].kind = "two")
                 /\ Rooted(g, job).admissions = g.admissions
                 /\ Rooted(g, job).service_due = g.service_due
                 /\ Rooted(g, job).jobs = g.jobs
    BY <2>2, <2>3, <2>4, <1>9, RootingLaysOut
  <2>6. IsMerged(p, r, i)
    <3>1. r[1].end = q[1].end /\ (r[1].kind = "two" <=> q[1].kind = "two")
      BY <2>5
    <3>2. ASSUME NEW j \in 0..Levels
          PROVE  /\ j # i + 1 => r[j].end = p[j].end
                 /\ j # i /\ j # i + 1 => (r[j].kind = "two" <=> p[j].kind = "two")
      <4>1. CASE j = 0
        BY <4>1, <2>5, <1>6, <1>10
      <4>2. CASE j # 0
        <5>1. r[j].end = q[j].end /\ (r[j].kind = "two" <=> q[j].kind = "two")
          BY <4>2, <2>5
        <5>2. j # 1 => q[j] = p[j]
          BY <4>2, <1>5, <1>10
        <5>3. QED
          BY <4>2, <5>1, <5>2, <1>10
      <4>3. QED
        BY <4>1, <4>2
    <3>3. QED
      BY <3>1, <3>2, <2>5, <1>6, <1>10 DEF IsMerged
  <2>7. QED
    BY <2>1, <2>5, <2>6, <1>4
<1>11. CASE i # 0
  <2>1. Committed(f, i) = g
    BY <1>11 DEF Committed, g
  <2>2. q[0] = p[0]
    BY SMTT(20), <1>2, <1>5, <1>11
  <2>3. IsWhole(g, q)
    BY <2>2, <1>3, <1>4, <1>8, <1>9 DEF IsWhole, g
  <2>4. QED
    BY <2>1, <2>3, <1>4, <1>7
<1>12. QED
  BY <1>10, <1>11

\* commit, at whichever level.
LEMMA CommitIs ==
  ASSUME NEW i, commit(i)
  PROVE  i \in Working(frontier) /\ frontier.jobs[i].stage = "commit" /\ frontier' = Committed(frontier, i)
BY DEF commit, Committed

-----------------------------------------------------------------------------
(* The operations, one by one *)

\* What is paid of the service that is due.
LEMMA LessIs ==
  ASSUME NEW due \in Nat, NEW paid \in Nat
  PROVE  Less(due, paid) \in Nat /\ Less(due, paid) <= due
                                 /\ Less(due, paid) + paid >= due
BY DEF Less

\* A level that waits for its merge is selected only if none below it waits.
LEMMA SelectedIs ==
  ASSUME NEW f, Unsafe(f) # {}
  PROVE  Selected(f) \in Unsafe(f) /\ Selected(f) \in Level /\ \A j \in Unsafe(f) : Selected(f) <= j
<1>1. Unsafe(f) \subseteq Nat /\ Unsafe(f) \subseteq Level
  BY DEF Unsafe, Level
<1>2. QED
  BY <1>1, MinIs DEF Selected

\* A ready executor has at most one run at level 0.
LEMMA ReadyIsOpen ==
  ASSUME NEW f, NEW p, IsLaidOut(f, p), Ready(f)
  PROVE  p[0].kind # "two" /\ 0 \notin Working(f) /\ f.service_due = 0 /\ ~recovery /\ ~checkpoint_pending
<1> USE RuntimeAssumption
<1>1. 0 \notin Working(f) /\ f.service_due = 0 /\ ~recovery /\ ~checkpoint_pending
      /\ Cardinality(In(f, 0, "active")) < 2 /\ 0 \in Level
  BY DEF Ready, Level
<1>2. ASSUME p[0].kind = "two" PROVE FALSE
  <2>1. p[0] \in Places /\ In(f, 0, "active") = {p[0].a, p[0].b}
    BY <1>1, <1>2, LevelAt, InLevel
  <2>2. p[0].a # p[0].b
    BY <2>1 DEF Places
  <2>3. Cardinality({p[0].a, p[0].b}) = 2
    BY <2>2, PairSize
  <2>4. QED
    BY <1>1, <2>1, <2>3
<1>3. QED
  BY <1>1, <1>2

\* The order of the levels: where their records end, and which wait for a merge.
SameOrder(p, r) ==
  \A j \in 0..Levels : r[j].end = p[j].end /\ (r[j].kind = "two" <=> p[j].kind = "two")

\* A contribution admits one record, publishes it and pays at most the allowance.
LEMMA AdmissionStep ==
  ASSUME NEW p, IsWhole(frontier, p), NEW allowance \in Nat, try_contribute(allowance)
  PROVE  \E r : /\ IsWhole(frontier', r) /\ IsWhole(published', r)
                /\ \A i \in 1..Levels : r[i] = p[i]
                /\ p[0].kind # "two" /\ r[0].kind = IF p[0].kind = "one" THEN "two" ELSE "one"
                /\ r[0].end = p[0].end + 1
                /\ published'.admissions = frontier.admissions + 1
                /\ frontier'.admissions = frontier.admissions + 1
                /\ Unsafe(frontier') = Unsafe(published')
                /\ Working(frontier') = Working(frontier) /\ frontier'.jobs = frontier.jobs
                /\ published'.jobs = frontier.jobs
                /\ published'.service_due
                     = IF Unsafe(published') = {} THEN 0 ELSE service_budget(frontier.admissions + 1)
                /\ frontier'.service_due = Less(published'.service_due, allowance)
                /\ credit' = IF Unsafe(frontier') = {} THEN 0 ELSE credit + allowance
<1> DEFINE f == Shown(Admitted(frontier))
           due == Less(f.service_due, allowance)
           g == Billed(f, due)
<1>1. frontier.admissions < MaxAdmissions /\ Ready(frontier)
      /\ published' = f /\ frontier' = g /\ credit' = IF Unsafe(f) = {} THEN 0 ELSE credit + allowance
  BY DEF try_contribute, Billed
<1>2. IsLaidOut(frontier, p)
  BY DEF IsWhole
<1>3. p[0].kind # "two" /\ 0 \notin Working(frontier)
  BY <1>1, <1>2, ReadyIsOpen
<1>4. PICK r : /\ IsWhole(f, r)
               /\ \A i \in 1..Levels : r[i] = p[i]
               /\ r[0].kind = IF p[0].kind = "one" THEN "two" ELSE "one"
               /\ r[0].end = p[0].end + 1
               /\ f.admissions = frontier.admissions + 1
               /\ f.jobs = frontier.jobs
               /\ f.service_due = IF Unsafe(f) = {} THEN 0 ELSE service_budget(frontier.admissions + 1)
  BY <1>1, <1>3, AdmissionLaysOut
<1> HIDE DEF f
<1>5. f.service_due \in Nat
  <2>1. IsLaidOut(f, r)
    BY <1>4 DEF IsWhole
  <2>2. QED
    BY <2>1, StackOf
<1>6. due \in Nat
  BY <1>5, LessIs
<1> HIDE DEF due
<1>7. /\ IsWhole(g, r) /\ g.admissions = f.admissions /\ g.service_due = due
      /\ g.jobs = f.jobs /\ Unsafe(g) = Unsafe(f)
  BY <1>4, <1>6, BillingLaysOut
<1> HIDE DEF g
<1>8. Working(g) = Working(frontier)
  BY <1>4, <1>7 DEF Working
<1>9. frontier'.service_due = Less(published'.service_due, allowance)
  BY <1>1, <1>7 DEF due
<1>10. QED
  BY <1>1, <1>3, <1>4, <1>7, <1>8, <1>9

\* advance: only the account changes.
LEMMA AdvanceStep ==
  ASSUME NEW p, IsWhole(frontier, p), NEW allowance \in Nat, advance(allowance)
  PROVE  /\ IsWhole(frontier', p) /\ frontier'.admissions = frontier.admissions
         /\ frontier'.service_due = Less(frontier.service_due, allowance)
         /\ frontier'.jobs = frontier.jobs /\ Unsafe(frontier') = Unsafe(frontier)
         /\ credit' = credit + allowance
<1> DEFINE due == Less(frontier.service_due, allowance)
           g == Billed(frontier, due)
<1>1. frontier' = g /\ credit' = credit + allowance
  BY DEF advance, Billed
<1>2. frontier.service_due \in Nat
  BY StackOf DEF IsWhole
<1>3. due \in Nat
  BY <1>2, LessIs
<1> HIDE DEF due
<1>4. /\ IsWhole(g, p) /\ g.admissions = frontier.admissions /\ g.service_due = due
      /\ g.jobs = frontier.jobs /\ Unsafe(g) = Unsafe(frontier)
  BY <1>3, BillingLaysOut
<1> HIDE DEF g
<1>5. QED
  BY <1>1, <1>4 DEF due

\* checkpoint: the account is closed if nothing is left to do.
LEMMA CheckpointStep ==
  ASSUME NEW p, IsWhole(frontier, p), Checkpointed(frontier)
  PROVE  /\ IsWhole(frontier', p) /\ frontier'.admissions = frontier.admissions
         /\ frontier'.service_due = IF Unsafe(frontier) = {} THEN 0 ELSE frontier.service_due
         /\ frontier'.jobs = frontier.jobs /\ Unsafe(frontier') = Unsafe(frontier)
         /\ published' = IF initializing /\ Unsafe(frontier) # {} THEN published ELSE frontier'
<1>1. CASE Unsafe(frontier) = {}
  <2> DEFINE g == Billed(frontier, 0)
  <2>1. frontier' = g /\ published' = g
    BY <1>1 DEF Checkpointed, Billed
  <2>2. /\ IsWhole(g, p) /\ g.admissions = frontier.admissions /\ g.service_due = 0
        /\ g.jobs = frontier.jobs /\ Unsafe(g) = Unsafe(frontier)
    BY BillingLaysOut
  <2> HIDE DEF g
  <2>3. QED
    BY <1>1, <2>1, <2>2
<1>2. CASE Unsafe(frontier) # {}
  BY <1>2 DEF Checkpointed
<1>3. QED
  BY <1>1, <1>2

\* try_initialize_sorted: the whole batch is there, and its carry chain is paid.
LEMMA BatchStep ==
  ASSUME NEW p, IsWhole(frontier, p), NEW height, try_initialize_sorted(height)
  PROVE  /\ height \in 1..(Levels - 1)
         /\ IsWhole(frontier', BatchPlaces(height))
         /\ \A i \in 0..Levels : BatchPlaces(height)[i].kind = "two" <=> i = 0
         /\ BatchPlaces(height)[0].end = RunMass[height]
         /\ frontier'.admissions = RunMass[height] /\ frontier'.jobs = <<>>
         /\ frontier'.service_due <= service_budget(RunMass[height])
         /\ credit' = initialization_price(height)
         /\ UNCHANGED <<published, charged, checkpoint_pending>> /\ recovery' /\ initializing'
<1> DEFINE f == Shown(Built(frontier, height))
           r == BatchPlaces(height)
           paid == initialization_price(height)
           due == Less(f.service_due, paid)
           g == Billed(f, due)
<1>1. /\ height \in 1..(Levels - 1) /\ RunMass[height] <= MaxAdmissions /\ frontier.objects = <<>>
      /\ frontier' = g /\ credit' = paid
      /\ UNCHANGED <<published, charged, checkpoint_pending>> /\ recovery' = TRUE /\ initializing' = TRUE
  BY DEF try_initialize_sorted, Billed
<1>2. /\ IsWhole(f, r)
      /\ \A i \in 0..Levels : r[i].kind = "two" <=> i = 0
      /\ r[0].end = RunMass[height] /\ f.admissions = RunMass[height] /\ f.jobs = <<>>
      /\ f.service_due = service_budget(RunMass[height])
  BY <1>1, BatchLaysOut
<1>3. paid \in Nat
  <2>1. height \in 0..Levels /\ LocalBound \in Nat
    BY <1>1, RuntimeAssumption
  <2>2. RunMass[height] \in Nat \ {0}
    BY <2>1, RunMassIs
  <2>3. QED
    BY <2>1, <2>2 DEF initialization_price
<1> HIDE DEF f, r, paid
<1>4. f.service_due \in Nat
  BY <1>2, StackOf DEF IsWhole
<1>5. due \in Nat /\ due <= service_budget(RunMass[height])
  BY <1>2, <1>3, <1>4, LessIs
<1> HIDE DEF due
<1>6. IsWhole(g, r) /\ g.admissions = f.admissions /\ g.jobs = f.jobs /\ g.service_due = due
  BY SMTT(20), <1>2, <1>5, BillingLaysOut
<1> HIDE DEF g
<1>7. QED
  BY <1>1, <1>2, <1>5, <1>6 DEF r, paid

\* perform works at the selected level, which waits for its merge.
LEMMA PerformAt ==
  ASSUME NEW p, IsWhole(frontier, p), perform
  PROVE  LET i == Selected(frontier) IN
           /\ i \in Level /\ p[i].kind = "two" /\ i \in Unsafe(frontier)
           /\ \A j \in Level : p[j].kind = "two" => i <= j
           /\ begin(i) \/ step(i) \/ finish(i) \/ commit(i)
           /\ credit > 0 /\ credit' = credit - 1 /\ ~checkpoint_pending
           /\ UNCHANGED <<published, recovery, initializing>>
<1> DEFINE i == Selected(frontier)
<1>1. /\ begin(i) \/ step(i) \/ finish(i) \/ commit(i)
      /\ Unsafe(frontier) # {} /\ credit > 0 /\ credit' = credit - 1 /\ ~checkpoint_pending
      /\ UNCHANGED <<published, recovery, initializing>>
  BY DEF perform, Serving, Pending, Spend
<1>2. i \in Unsafe(frontier) /\ i \in Level /\ \A j \in Unsafe(frontier) : i <= j
  BY <1>1, SelectedIs
<1>3. Unsafe(frontier) = {j \in Level : p[j].kind = "two"}
  BY UnsafeIs DEF IsWhole
<1> HIDE DEF i
<1>4. QED
  BY <1>1, <1>2, <1>3 DEF i

\* What begin requires of the next level leaves it open.
LEMMA BeginStep ==
  ASSUME NEW p, IsWhole(frontier, p), NEW i \in Level, p[i].kind = "two", begin(i)
  PROVE  \E r : /\ IsWhole(frontier', r) /\ SameOrder(p, r)
                /\ p[i + 1].kind \in {"none", "one", "done"} /\ i + 1 \in Level
                /\ i \notin Working(frontier)
                /\ frontier'.admissions = frontier.admissions
                /\ frontier'.service_due = frontier.service_due
                /\ Working(frontier') = Working(frontier) \cup {i}
                /\ frontier'.jobs[i].stage = "native_merge"
                /\ \A j \in Working(frontier) : frontier'.jobs[j] = frontier.jobs[j]
<1> DEFINE f == frontier
<1>1. i \notin Working(f) /\ MayBegin(f, i) /\ frontier' = Begun(f, i)
  BY DEF begin
<1>2. i + 1 \in Level /\ i + 1 \notin Unsafe(f) /\ (f.last[i + 1].identity # Null => f.last[i + 1].visible)
  BY <1>1 DEF MayBegin
<1>3. IsLaidOut(f, p)
  BY DEF IsWhole
<1>4. p[i + 1].kind # "two"
  BY <1>2, <1>3, UnsafeIs
<1>5. /\ p[i + 1] \in Places /\ p[(i + 1) + 1] \in Places /\ RunsAreSound(f.objects, p[i + 1], p[(i + 1) + 1], i + 1)
      /\ LastIsSound(f, i + 1, p[i + 1])
  BY <1>2, <1>3, LevelAt
<1>6. p[i + 1].seen
  BY <1>2, <1>5 DEF LastIsSound
<1>7. p[i + 1].kind # "fresh"
  BY <1>5, <1>6 DEF RunsAreSound, FreshRun
<1>8. p[i + 1].kind # "root"
  <2>1. i + 1 # 0
    BY DEF Level
  <2>2. QED
    BY <1>5, <2>1 DEF RunsAreSound, RootRun
<1>9. p[i + 1].kind \in {"none", "one", "done"}
  BY <1>4, <1>5, <1>7, <1>8, PlaceType DEF Kinds
<1>10. PICK r : /\ IsWhole(Begun(f, i), r)
                /\ \A j \in 0..Levels : SamePlace(p[j], r[j])
                /\ Begun(f, i).admissions = f.admissions /\ Begun(f, i).service_due = f.service_due
                /\ Working(Begun(f, i)) = Working(f) \cup {i}
                /\ Begun(f, i).jobs[i].stage = "native_merge"
                /\ \A j \in Working(f) : Begun(f, i).jobs[j] = f.jobs[j]
  BY <1>1, <1>2, <1>9, BeginningLaysOut
<1>11. SameOrder(p, r)
  BY <1>10 DEF SameOrder, SamePlace
<1>12. QED
  BY <1>1, <1>2, <1>9, <1>10, <1>11

-----------------------------------------------------------------------------
(* Whatever happens, both frontiers stay whole *)

(* Every level of the executor and of its last checkpoint holds what its place
   says, whatever the rates: the slots, objects, jobs, routes and root of both
   are those of a carry chain that merges, one run at a time.               *)
IsOrderly ==
  /\ \E p : IsWhole(frontier, p)
  /\ \E p : IsWhole(published, p)
  /\ credit \in Nat

\* The empty frontier is orderly.
LEMMA OrderlyInit ==
  ASSUME Init
  PROVE  IsOrderly
<1>1. \E p : IsWhole(frontier, p)
  BY InitLaysOut
<1>2. published = frontier /\ credit = 0
  BY DEF Init
<1>3. QED
  BY <1>1, <1>2 DEF IsOrderly

\* Every step leaves the runtime orderly.
LEMMA OrderlyNext ==
  ASSUME IsOrderly, [Next]_vars
  PROVE  IsOrderly'
<1> USE RuntimeAssumption
<1>1. PICK p : IsWhole(frontier, p)
  BY DEF IsOrderly
<1>2. (\E q : IsWhole(published, q)) /\ credit \in Nat
  BY DEF IsOrderly
<1>3. ASSUME NEW allowance \in Allowances \cup {0}, try_contribute(allowance) PROVE IsOrderly'
  <2>1. allowance \in Nat
    OBVIOUS
  <2>2. PICK r : /\ IsWhole(frontier', r) /\ IsWhole(published', r)
                 /\ credit' = IF Unsafe(frontier') = {} THEN 0 ELSE credit + allowance
    BY <1>1, <1>3, <2>1, AdmissionStep
  <2>3. credit' \in Nat
    BY <1>2, <2>1, <2>2
  <2>4. QED
    BY <2>2, <2>3 DEF IsOrderly
<1>4. ASSUME NEW allowance \in Allowances, advance(allowance) PROVE IsOrderly'
  <2>1. allowance \in Nat
    OBVIOUS
  <2>2. IsWhole(frontier', p) /\ credit' = credit + allowance
    BY <1>1, <1>4, <2>1, AdvanceStep
  <2>3. published' = published
    BY <1>4 DEF advance
  <2>4. QED
    BY <1>2, <2>1, <2>2, <2>3 DEF IsOrderly
<1>5. ASSUME Checkpointed(frontier), credit' \in Nat PROVE IsOrderly'
  <2>1. IsWhole(frontier', p) /\ (published' = published \/ published' = frontier')
    BY <1>1, <1>5, CheckpointStep
  <2>2. \E q : IsWhole(published', q)
    BY <1>2, <2>1
  <2>3. QED
    BY <1>5, <2>1, <2>2 DEF IsOrderly
<1>6. CASE capture
  <2>1. Checkpointed(frontier) /\ credit' = IF Unsafe(frontier) = {} THEN 0 ELSE credit
    BY <1>6 DEF capture
  <2>2. QED
    BY <1>2, <1>5, <2>1
<1>7. CASE checkpoint
  <2>1. Checkpointed(frontier) /\ credit > 0 /\ credit' = IF Unsafe(frontier) = {} THEN 0 ELSE credit - 1
    BY <1>7 DEF checkpoint, Serving
  <2>2. QED
    BY <1>2, <1>5, <2>1
<1>8. ASSUME NEW height \in Level, try_initialize_sorted(height) PROVE IsOrderly'
  <2>1. /\ height \in 1..(Levels - 1) /\ IsWhole(frontier', BatchPlaces(height))
        /\ published' = published /\ credit' = initialization_price(height)
    BY <1>1, <1>8, BatchStep
  <2>2. RunMass[height] \in Nat \ {0}
    BY <2>1, RunMassIs
  <2>3. initialization_price(height) \in Nat
    BY <2>2 DEF initialization_price
  <2>4. QED
    BY <1>2, <2>1, <2>3 DEF IsOrderly
<1>9. CASE perform
  <2> DEFINE i == Selected(frontier)
  <2>1. /\ i \in Level /\ p[i].kind = "two"
        /\ begin(i) \/ step(i) \/ finish(i) \/ commit(i)
        /\ credit > 0 /\ credit' = credit - 1 /\ published' = published
    BY <1>1, <1>9, PerformAt
  <2> HIDE DEF i
  <2>2. \E r : IsWhole(frontier', r)
    <3>1. CASE begin(i)
      BY <3>1, <2>1, <1>1, BeginStep
    <3>2. CASE step(i)
      BY <3>2, <1>1 DEF step
    <3>3. CASE finish(i)
      <4>1. i \in Working(frontier) /\ frontier.jobs[i].stage # "commit" /\ frontier' = Completed(frontier, i)
        BY <3>3 DEF finish
      <4>2. QED
        BY <4>1, <1>1, CompletionLaysOut
    <3>4. CASE commit(i)
      <4>1. i \in Working(frontier) /\ frontier.jobs[i].stage = "commit" /\ frontier' = Committed(frontier, i)
        BY <3>4, CommitIs
      <4>2. QED
        BY <4>1, <1>1, CommitLaysOut
    <3>5. QED
      BY <2>1, <3>1, <3>2, <3>3, <3>4
  <2>3. QED
    BY <1>2, <2>1, <2>2 DEF IsOrderly
<1>10. CASE restart
  BY <1>2, <1>10 DEF restart, IsOrderly
<1>11. CASE UNCHANGED vars
  BY <1>11 DEF vars, IsOrderly
<1>12. QED
  BY <1>3, <1>4, <1>6, <1>7, <1>8, <1>9, <1>10, <1>11 DEF Next

(* The executor's frontier and its last checkpoint are whole in every reachable
   state.                                                                   *)
THEOREM FrontiersStayWhole == Spec => []IsOrderly
<1>1. Init => IsOrderly
  BY OrderlyInit
<1>2. IsOrderly /\ [Next]_vars => IsOrderly'
  BY OrderlyNext
<1>3. QED
  BY <1>1, <1>2, PTL DEF Spec

-----------------------------------------------------------------------------
(* What readers see *)

\* Where the records end that a reader finds at a level and above it: a run no
\* root has reached yet is not counted.
SeenEnd(p, i) == IF p[i].seen THEN p[i].end ELSE p[i].end - RunMass[i]

\* The run is a run of its level from that record on.
Spans(objects, id, i, first, secondary) == IsRun(objects, id, i, first, secondary, objects[id].next)

\* What a route of a level shows are the records from one place to another: none,
\* in a root entry or in nothing at all; those of one run; or those of two.
Tiles(objects, route, i, from, to) ==
  \/ route.main = Null /\ route.secondary = Null /\ to = from
  \/ /\ route.main \in DOMAIN objects /\ route.secondary = Null /\ to = from
     /\ objects[route.main].first = 0 /\ objects[route.main].last = 0
     /\ objects[route.main].level = i
  \/ Spans(objects, route.main, i, from, FALSE) /\ route.secondary = Null /\ to = from + RunMass[i]
  \/ /\ Spans(objects, route.main, i, from, FALSE)
     /\ Spans(objects, route.secondary, i, from + RunMass[i], TRUE)
     /\ to = from + 2 * RunMass[i]

\* A level shows what is between the level above it and itself.
LEMMA LevelTiles ==
  ASSUME NEW objects, NEW p, IsStack(objects, p), NEW i \in Level
  PROVE  /\ SeenEnd(p, i) \in Nat /\ SeenEnd(p, i + 1) \in Nat /\ SeenEnd(p, i + 1) <= SeenEnd(p, i)
         /\ Tiles(objects, Shows(p[i]), i, SeenEnd(p, i + 1), SeenEnd(p, i))
<1> DEFINE q == p[i]
           above == p[i + 1]
           m == RunMass[i]
           from == SeenEnd(p, i + 1)
           to == SeenEnd(p, i)
<1>1. /\ q \in Places /\ above \in Places /\ RunsAreSound(objects, q, above, i)
      /\ m \in Nat \ {0} /\ RunMass[i + 1] = 2 * m
      /\ q.end \in Nat /\ above.end \in Nat /\ q.kind \in Kinds /\ q.seen \in BOOLEAN /\ above.seen \in BOOLEAN
  BY StackAt, PlaceType
<1>2. /\ to = IF q.seen THEN q.end ELSE q.end - m
      /\ from = IF above.seen THEN above.end ELSE above.end - 2 * m
  BY <1>1 DEF SeenEnd
<1>3. above.kind = "none" => above.seen /\ above.end = 0
  BY StackAt, BareIs DEF IsBare
<1>4. Shows(q) = IF q.seen THEN q.into ELSE q.before
  BY DEF Shows
<1> HIDE DEF q, above, m, from, to
<1> SUFFICES to \in Nat /\ from \in Nat /\ from <= to /\ Tiles(objects, Shows(q), i, from, to)
  BY DEF q, from, to
<1>5. ASSUME q.kind = "none" PROVE to \in Nat /\ from \in Nat /\ from <= to /\ Tiles(objects, Shows(q), i, from, to)
  <2>1. IsBare(q) /\ above.kind = "none"
    BY <1>1, <1>5 DEF RunsAreSound
  <2>2. q.seen /\ q.into.main = Null /\ q.into.secondary = Null /\ q.end = 0
    BY <2>1 DEF IsBare, Nowhere
  <2>3. to = 0 /\ from = 0 /\ Shows(q) = q.into
    BY <2>1, <2>2, <1>2, <1>3, <1>4
  <2>4. Tiles(objects, Shows(q), i, from, to)
    BY <2>2, <2>3 DEF Tiles
  <2>5. QED
    BY <2>3, <2>4
<1>6. ASSUME q.kind = "one" PROVE to \in Nat /\ from \in Nat /\ from <= to /\ Tiles(objects, Shows(q), i, from, to)
  <2>1. /\ IsRun(objects, q.into.main, i, above.end, FALSE, above.into)
        /\ q.into.secondary = Null /\ q.before = Nowhere
        /\ q.end = above.end + m /\ (IF q.seen THEN above.seen ELSE above.kind = "none")
    BY <1>1, <1>6 DEF RunsAreSound, OneRun, m
  <2>2. CASE q.seen
    <3>1. to = above.end + m /\ from = above.end /\ Shows(q) = q.into
      BY <2>1, <2>2, <1>2, <1>4
    <3>2. Spans(objects, q.into.main, i, from, FALSE)
      BY <2>1, <3>1 DEF Spans, IsRun
    <3>3. to \in Nat /\ from \in Nat /\ from <= to /\ to = from + m
      BY <3>1, <1>1
    <3>4. QED
      BY <2>1, <3>1, <3>2, <3>3 DEF Tiles, m
  <2>3. CASE ~q.seen
    <3>1. to = above.end /\ from = above.end /\ Shows(q) = Nowhere
      BY <2>1, <2>3, <1>1, <1>2, <1>3, <1>4
    <3>2. QED
      BY <3>1, <1>1 DEF Tiles, Nowhere
  <2>4. QED
    BY <2>2, <2>3
<1>7. ASSUME q.kind = "fresh" PROVE to \in Nat /\ from \in Nat /\ from <= to /\ Tiles(objects, Shows(q), i, from, to)
  <2>1. /\ IsRun(objects, q.before.main, i, above.end - 2 * m, FALSE, above.before)
        /\ IsRun(objects, q.before.secondary, i, above.end - m, TRUE, Nowhere)
        /\ q.end = above.end + m /\ above.end >= 2 * m /\ ~q.seen /\ ~above.seen
    BY <1>1, <1>7 DEF RunsAreSound, FreshRun, m
  <2>2. to = above.end /\ from = above.end - 2 * m /\ Shows(q) = q.before
    BY <2>1, <1>1, <1>2, <1>4
  <2>3. to \in Nat /\ from \in Nat /\ from <= to /\ to = from + 2 * m /\ from + m = above.end - m
    BY <2>1, <2>2, <1>1
  <2>4. Spans(objects, q.before.main, i, from, FALSE) /\ Spans(objects, q.before.secondary, i, from + m, TRUE)
    BY <2>1, <2>2, <2>3 DEF Spans, IsRun
  <2>5. QED
    BY <2>2, <2>3, <2>4 DEF Tiles, m
<1>8. ASSUME NEW start \in Nat, to \in Nat, from = start, q.seen \/ q.before = [main |-> q.into.main, secondary |-> Null],
             to = IF q.seen THEN start + 2 * m ELSE start + m,
             Spans(objects, q.into.main, i, start, FALSE), Spans(objects, q.into.secondary, i, start + m, TRUE)
      PROVE  to \in Nat /\ from \in Nat /\ from <= to /\ Tiles(objects, Shows(q), i, from, to)
  <2>1. CASE q.seen
    <3>1. to = from + 2 * m /\ Shows(q) = q.into
      BY <2>1, <1>8, <1>4
    <3>2. Tiles(objects, Shows(q), i, from, to)
      BY <3>1, <1>8, <1>1 DEF Tiles, m
    <3>3. from <= to
      BY <3>1, <1>8, <1>1
    <3>4. QED
      BY <3>2, <3>3, <1>8
  <2>2. CASE ~q.seen
    <3>1. to = from + m /\ Shows(q).main = q.into.main /\ Shows(q).secondary = Null
      BY <2>2, <1>8, <1>4
    <3>2. Tiles(objects, Shows(q), i, from, to)
      BY <3>1, <1>8, <1>1 DEF Tiles, m
    <3>3. from <= to
      BY <3>1, <1>8, <1>1
    <3>4. QED
      BY <3>2, <3>3, <1>8
  <2>3. QED
    BY <2>1, <2>2
<1>9. ASSUME q.kind = "two" PROVE to \in Nat /\ from \in Nat /\ from <= to /\ Tiles(objects, Shows(q), i, from, to)
  <2>1. /\ IsRun(objects, q.into.main, i, above.end, FALSE, above.into)
        /\ IsRun(objects, q.into.secondary, i, above.end + m, TRUE, Nowhere)
        /\ q.before = [main |-> q.into.main, secondary |-> Null]
        /\ q.end = above.end + 2 * m /\ above.seen
    BY <1>1, <1>9 DEF RunsAreSound, TwoRuns, m
  <2>2. Spans(objects, q.into.main, i, above.end, FALSE) /\ Spans(objects, q.into.secondary, i, above.end + m, TRUE)
    BY <2>1 DEF Spans, IsRun
  <2>3. from = above.end /\ (to = IF q.seen THEN above.end + 2 * m ELSE above.end + m) /\ to \in Nat
    BY <2>1, <1>1, <1>2
  <2>4. QED
    BY <2>1, <2>2, <2>3, <1>1, <1>8
<1>10. ASSUME q.kind = "done" PROVE to \in Nat /\ from \in Nat /\ from <= to /\ Tiles(objects, Shows(q), i, from, to)
  <2> DEFINE start == above.end - 2 * m
  <2>1. /\ IsRun(objects, q.into.main, i, start, FALSE, above.before)
        /\ IsRun(objects, q.into.secondary, i, above.end - m, TRUE, Nowhere)
        /\ q.before = [main |-> q.into.main, secondary |-> Null]
        /\ q.end = above.end /\ above.end >= 2 * m /\ ~above.seen
    BY <1>1, <1>10 DEF RunsAreSound, DoneRuns, m
  <2>2. start \in Nat /\ start + m = above.end - m /\ start + 2 * m = above.end
    BY <2>1, <1>1
  <2>3. Spans(objects, q.into.main, i, start, FALSE) /\ Spans(objects, q.into.secondary, i, start + m, TRUE)
    BY <2>1, <2>2 DEF Spans, IsRun
  <2>4. from = start /\ (to = IF q.seen THEN start + 2 * m ELSE start + m) /\ to \in Nat
    BY <2>1, <2>2, <1>1, <1>2
  <2> HIDE DEF start
  <2>5. QED
    BY <2>1, <2>2, <2>3, <2>4, <1>8
<1>11. ASSUME q.kind = "root" PROVE to \in Nat /\ from \in Nat /\ from <= to /\ Tiles(objects, Shows(q), i, from, to)
  <2>1. /\ i = 0 /\ q.into.main \in DOMAIN objects
        /\ objects[q.into.main].first = 0 /\ objects[q.into.main].last = 0 /\ objects[q.into.main].level = 0
        /\ q.into.secondary = Null /\ q.end = above.end /\ q.seen /\ above.seen
    BY <1>1, <1>11 DEF RunsAreSound, RootRun
  <2>2. to = above.end /\ from = above.end /\ Shows(q) = q.into
    BY <2>1, <1>1, <1>2, <1>4
  <2>3. Tiles(objects, Shows(q), i, from, to)
    BY <2>1, <2>2 DEF Tiles
  <2>4. QED
    BY <2>2, <2>3, <1>1
<1>12. QED
  BY <1>1, <1>5, <1>6, <1>7, <1>9, <1>10, <1>11 DEF Kinds

\* The runs that a route of a level shows, and where they are.
LEMMA TileRuns ==
  ASSUME NEW objects \in Seq(Object), NEW route \in Route, NEW i \in Level, NEW from \in Nat, NEW to \in Nat,
         Tiles(objects, route, i, from, to)
  PROVE  /\ \A id \in Ends(route) : Mass(objects[id]) > 0 => from <= objects[id].first /\ objects[id].last <= to
         /\ \A a, b \in Ends(route) : a # b =>
              /\ objects[a].secondary \/ objects[b].secondary
              /\ objects[b].secondary => objects[a].last <= objects[b].first
         /\ \A r \in Nat : from <= r /\ r < to =>
              \E id \in Ends(route) : Mass(objects[id]) > 0 /\ objects[id].first <= r /\ r < objects[id].last
<1> DEFINE m == RunMass[i]
           x == route.main
           y == route.secondary
<1>1. m \in Nat \ {0}
  BY RunMassIs, RuntimeAssumption DEF Level
<1>2. x \in Nat /\ y \in Nat /\ Ends(route) = {x, y} \ {0} /\ 0 \notin DOMAIN objects
  BY DEF Route, Ends, Null
<1>3. ASSUME x = 0 /\ y = 0 /\ to = from
      PROVE  Ends(route) = {}
  BY <1>2, <1>3
<1>4. ASSUME x \in DOMAIN objects, y = 0, to = from, objects[x].first = 0, objects[x].last = 0
      PROVE  Ends(route) = {x} /\ ~(Mass(objects[x]) > 0)
  BY <1>2, <1>4 DEF Mass
<1>5. ASSUME Spans(objects, x, i, from, FALSE), y = 0, to = from + m
      PROVE  /\ Ends(route) = {x} /\ Mass(objects[x]) = m
             /\ objects[x].first = from /\ objects[x].last = to
  <2>1. x \in DOMAIN objects /\ objects[x].first = from /\ objects[x].last = from + m
    BY <1>5 DEF Spans, IsRun
  <2>2. QED
    BY <2>1, <1>1, <1>2, <1>5 DEF Mass
<1>6. ASSUME Spans(objects, x, i, from, FALSE), Spans(objects, y, i, from + m, TRUE), to = from + 2 * m
      PROVE  /\ Ends(route) = {x, y} /\ Mass(objects[x]) = m /\ Mass(objects[y]) = m
             /\ objects[x].first = from /\ objects[x].last = from + m
             /\ objects[y].first = from + m /\ objects[y].last = to
             /\ ~objects[x].secondary /\ objects[y].secondary
  <2>1. /\ x \in DOMAIN objects /\ objects[x].first = from /\ objects[x].last = from + m
        /\ y \in DOMAIN objects /\ objects[y].first = from + m /\ objects[y].last = (from + m) + m
        /\ ~objects[x].secondary /\ objects[y].secondary
    BY <1>6 DEF Spans, IsRun
  <2>2. QED
    BY <2>1, <1>1, <1>2, <1>6 DEF Mass
<1>7. \/ x = 0 /\ y = 0 /\ to = from
      \/ x \in DOMAIN objects /\ y = 0 /\ to = from /\ objects[x].first = 0 /\ objects[x].last = 0
      \/ Spans(objects, x, i, from, FALSE) /\ y = 0 /\ to = from + m
      \/ Spans(objects, x, i, from, FALSE) /\ Spans(objects, y, i, from + m, TRUE) /\ to = from + 2 * m
  BY DEF Tiles, Null
<1> HIDE DEF m, x, y
<1>8. ASSUME NEW id \in Ends(route), Mass(objects[id]) > 0
      PROVE  from <= objects[id].first /\ objects[id].last <= to
  <2>1. CASE x = 0 /\ y = 0 /\ to = from
    BY <2>1, <1>3, <1>8
  <2>2. CASE x \in DOMAIN objects /\ y = 0 /\ to = from /\ objects[x].first = 0 /\ objects[x].last = 0
    BY <2>2, <1>4, <1>8
  <2>3. CASE Spans(objects, x, i, from, FALSE) /\ y = 0 /\ to = from + m
    <3>1. /\ Ends(route) = {x} /\ Mass(objects[x]) = m
          /\ objects[x].first = from /\ objects[x].last = to
      BY <2>3, <1>5
    <3>2. QED
      BY <3>1, <2>3, <1>1, <1>8
  <2>4. CASE Spans(objects, x, i, from, FALSE) /\ Spans(objects, y, i, from + m, TRUE) /\ to = from + 2 * m
    <3>1. /\ Ends(route) = {x, y} /\ Mass(objects[x]) = m /\ Mass(objects[y]) = m
          /\ objects[x].first = from /\ objects[x].last = from + m
          /\ objects[y].first = from + m /\ objects[y].last = to
          /\ ~objects[x].secondary /\ objects[y].secondary
      BY <2>4, <1>6
    <3>2. QED
      BY <3>1, <2>4, <1>1, <1>8
  <2>5. QED
    BY <1>7, <2>1, <2>2, <2>3, <2>4
<1>9. ASSUME NEW a \in Ends(route), NEW b \in Ends(route), a # b
      PROVE  /\ objects[a].secondary \/ objects[b].secondary
             /\ objects[b].secondary => objects[a].last <= objects[b].first
  <2>1. CASE x = 0 /\ y = 0 /\ to = from
    BY <2>1, <1>3, <1>9
  <2>2. CASE x \in DOMAIN objects /\ y = 0 /\ to = from /\ objects[x].first = 0 /\ objects[x].last = 0
    BY <2>2, <1>4, <1>9
  <2>3. CASE Spans(objects, x, i, from, FALSE) /\ y = 0 /\ to = from + m
    <3>1. /\ Ends(route) = {x} /\ Mass(objects[x]) = m
          /\ objects[x].first = from /\ objects[x].last = to
      BY <2>3, <1>5
    <3>2. QED
      BY <3>1, <2>3, <1>1, <1>9
  <2>4. CASE Spans(objects, x, i, from, FALSE) /\ Spans(objects, y, i, from + m, TRUE) /\ to = from + 2 * m
    <3>1. /\ Ends(route) = {x, y} /\ Mass(objects[x]) = m /\ Mass(objects[y]) = m
          /\ objects[x].first = from /\ objects[x].last = from + m
          /\ objects[y].first = from + m /\ objects[y].last = to
          /\ ~objects[x].secondary /\ objects[y].secondary
      BY <2>4, <1>6
    <3>2. QED
      BY <3>1, <2>4, <1>1, <1>9
  <2>5. QED
    BY <1>7, <2>1, <2>2, <2>3, <2>4
<1>10. ASSUME NEW r \in Nat, from <= r, r < to
       PROVE  \E id \in Ends(route) : Mass(objects[id]) > 0 /\ objects[id].first <= r /\ r < objects[id].last
  <2>1. CASE x = 0 /\ y = 0 /\ to = from
    BY <2>1, <1>3, <1>10
  <2>2. CASE x \in DOMAIN objects /\ y = 0 /\ to = from /\ objects[x].first = 0 /\ objects[x].last = 0
    BY <2>2, <1>4, <1>10
  <2>3. CASE Spans(objects, x, i, from, FALSE) /\ y = 0 /\ to = from + m
    <3>1. /\ Ends(route) = {x} /\ Mass(objects[x]) = m
          /\ objects[x].first = from /\ objects[x].last = to
      BY <2>3, <1>5
    <3>2. QED
      BY <3>1, <2>3, <1>1, <1>10
  <2>4. CASE Spans(objects, x, i, from, FALSE) /\ Spans(objects, y, i, from + m, TRUE) /\ to = from + 2 * m
    <3>1. /\ Ends(route) = {x, y} /\ Mass(objects[x]) = m /\ Mass(objects[y]) = m
          /\ objects[x].first = from /\ objects[x].last = from + m
          /\ objects[y].first = from + m /\ objects[y].last = to
          /\ ~objects[x].secondary /\ objects[y].secondary
      BY <2>4, <1>6
    <3>2. QED
      BY <3>1, <2>4, <1>1, <1>10
  <2>5. QED
    BY <1>7, <2>1, <2>2, <2>3, <2>4
<1>11. QED
  BY <1>8, <1>9, <1>10

\* What a root shows of the levels ends where they do, and starts at the first record.
LEMMA WholeShows ==
  ASSUME NEW f, NEW p, IsWhole(f, p)
  PROVE  /\ IsLaidOut(f, p) /\ IsStack(f.objects, p) /\ f.objects \in Seq(Object)
         /\ IsChain(f.objects, ShownRoutes(p))
         /\ f.root = ShownRoutes(p)[0] /\ SeenEnd(p, 0) = f.admissions /\ SeenEnd(p, Levels) = 0
         /\ Reached(f, f.root) = OnChain(ShownRoutes(p), Levels)
         /\ \A i \in 0..Levels : ShownRoutes(p)[i] = Shows(p[i]) /\ Shows(p[i]) \in Route
<1> USE RuntimeAssumption
<1>1. IsLaidOut(f, p) /\ f.root = p[0].into /\ f.last[0].identity = Null /\ f.admissions = p[0].end
  BY DEF IsWhole
<1>2. IsStack(f.objects, p) /\ f.objects \in Seq(Object) /\ 0 \in Level /\ LastIsSound(f, 0, p[0])
      /\ 0 \in 0..Levels /\ Levels \in 0..Levels
  BY <1>1, StackOf, LevelAt DEF Level
<1>3. p[0].seen
  BY <1>1, <1>2 DEF LastIsSound
<1>4. p[Levels].seen /\ p[Levels].end = 0
  BY <1>2 DEF IsStack, IsBare
<1>5. \A i \in 0..Levels : ShownRoutes(p)[i] = Shows(p[i])
  BY DEF ShownRoutes
<1>6. IsChain(f.objects, ShownRoutes(p))
  BY <1>2, StackChain
<1>7. \A i \in 0..Levels : Shows(p[i]) \in Route
  BY <1>5, <1>6 DEF IsChain
<1>8. f.root = ShownRoutes(p)[0]
  BY <1>1, <1>2, <1>3, <1>5 DEF Shows
<1>9. Reached(f, ShownRoutes(p)[0]) = OnChain(ShownRoutes(p), Levels)
  BY <1>6, Walk
<1>10. QED
  BY <1>1, <1>2, <1>3, <1>4, <1>5, <1>6, <1>7, <1>8, <1>9 DEF SeenEnd

\* What is reached is shown by a level, its own.
LEMMA ReachedAt ==
  ASSUME NEW f, NEW p, IsWhole(f, p)
  PROVE  \A id : id \in Reached(f, f.root) <=>
                   \E i \in Level : id \in Ends(Shows(p[i])) /\ id \in DOMAIN f.objects /\ f.objects[id].level = i
<1> DEFINE R == ShownRoutes(p)
<1>1. /\ IsChain(f.objects, R) /\ Reached(f, f.root) = OnChain(R, Levels)
      /\ \A i \in 0..Levels : R[i] = Shows(p[i])
  BY WholeShows
<1> HIDE DEF R
<1>2. \A id : id \in OnChain(R, Levels) <=> \E i \in 0..Levels : id \in Ends(R[i])
  BY DEF OnChain
<1>3. \A i \in 0..Levels : i \in Level \/ Ends(R[i]) = {}
  <2>1. R[Levels] = Nowhere /\ Ends(Nowhere) = {}
    BY <1>1 DEF IsChain, Ends, Nowhere
  <2>2. \A i \in 0..Levels : i \in Level \/ i = Levels
    BY RuntimeAssumption DEF Level
  <2>3. QED
    BY <2>1, <2>2
<1>4. \A i \in Level : \A id \in Ends(R[i]) : id \in DOMAIN f.objects /\ f.objects[id].level = i
  BY <1>1, ChainEnds
<1>5. Level \subseteq 0..Levels
  BY RuntimeAssumption DEF Level
<1>6. QED
  BY <1>1, <1>2, <1>3, <1>4, <1>5

\* What is seen ends later the lower the level.
LEMMA SeenEndsGrow ==
  ASSUME NEW objects, NEW p, IsStack(objects, p), NEW i \in 0..Levels
  PROVE  \A j \in 0..Levels : i <= j => SeenEnd(p, j) <= SeenEnd(p, i)
<1> DEFINE Bad == {n \in 0..Levels : ~(i <= n => SeenEnd(p, n) <= SeenEnd(p, i))}
<1>1. \A n \in 0..Levels : SeenEnd(p, n) \in Nat
  <2> TAKE n \in 0..Levels
  <2>1. CASE n \in Level
    BY <2>1, LevelTiles
  <2>2. CASE n = Levels
    <3>1. Levels - 1 \in Level /\ (Levels - 1) + 1 = n
      BY <2>2, RuntimeAssumption DEF Level
    <3>2. SeenEnd(p, (Levels - 1) + 1) \in Nat
      BY <3>1, LevelTiles
    <3>3. QED
      BY <3>1, <3>2
  <2>3. QED
    BY <2>1, <2>2, RuntimeAssumption DEF Level
<1>2. 0 \notin Bad
  BY <1>1
<1>3. ASSUME NEW n \in 1..Levels, n \in Bad PROVE n - 1 \in Bad
  <2>1. n - 1 \in Level /\ n - 1 \in 0..Levels /\ (n - 1) + 1 = n
    BY RuntimeAssumption DEF Level
  <2>2. SeenEnd(p, (n - 1) + 1) <= SeenEnd(p, n - 1)
    BY <2>1, LevelTiles
  <2>3. SeenEnd(p, n) <= SeenEnd(p, n - 1)
    BY <2>1, <2>2
  <2>4. QED
    BY <1>3, <2>1, <2>3, <1>1
<1>4. Bad = {}
  <2> HIDE DEF Bad
  <2>1. Bad \subseteq 0..Levels
    BY DEF Bad
  <2>2. QED
    BY <2>1, <1>2, <1>3, RuntimeAssumption, NoException
<1>5. QED
  BY <1>4

\* What a reader finds between two levels.
LEMMA LevelShows ==
  ASSUME NEW f, NEW p, IsWhole(f, p), NEW i \in Level
  PROVE  /\ \A id \in Ends(Shows(p[i])) :
              Mass(f.objects[id]) > 0 => SeenEnd(p, i + 1) <= f.objects[id].first /\ f.objects[id].last <= SeenEnd(p, i)
         /\ \A a, b \in Ends(Shows(p[i])) : a # b =>
              /\ f.objects[a].secondary \/ f.objects[b].secondary
              /\ f.objects[b].secondary => f.objects[a].last <= f.objects[b].first
         /\ \A r \in Nat : SeenEnd(p, i + 1) <= r /\ r < SeenEnd(p, i) =>
              \E id \in Ends(Shows(p[i])) :
                Mass(f.objects[id]) > 0 /\ f.objects[id].first <= r /\ r < f.objects[id].last
<1>1. IsStack(f.objects, p) /\ f.objects \in Seq(Object) /\ Shows(p[i]) \in Route
  BY WholeShows, RuntimeAssumption DEF Level
<1>2. /\ SeenEnd(p, i) \in Nat /\ SeenEnd(p, i + 1) \in Nat
      /\ Tiles(f.objects, Shows(p[i]), i, SeenEnd(p, i + 1), SeenEnd(p, i))
  BY <1>1, LevelTiles
<1>3. QED
  BY <1>1, <1>2, TileRuns

\* The runs a reader walks, and which of two it holds for the older.
LEMMA RunsAre ==
  ASSUME NEW f, NEW route
  PROVE  /\ \A id : id \in Runs(f, route).reached <=> id \in Reached(f, route) /\ Mass(f.objects[id]) > 0
         /\ \A a, b \in Runs(f, route).reached :
              <<a, b>> \in Runs(f, route).older <=>
                /\ a # b
                /\ \/ f.objects[a].level > f.objects[b].level
                   \/ f.objects[a].level = f.objects[b].level /\ f.objects[b].secondary
BY DEF Runs

\* Readers of a whole frontier see every record once, the older runs first.
LEMMA Chronology ==
  ASSUME NEW f, NEW p, IsWhole(f, p)
  PROVE  LET runs == Runs(f, f.root) IN
         /\ \A r \in 0..(f.admissions - 1) :
              \E id \in runs.reached : f.objects[id].first <= r /\ r < f.objects[id].last
         /\ \A a, b \in runs.reached : a # b =>
              /\ <<a, b>> \in runs.older \/ <<b, a>> \in runs.older
              /\ <<a, b>> \in runs.older => f.objects[a].last <= f.objects[b].first
<1> USE RuntimeAssumption
<1> DEFINE reached == Runs(f, f.root).reached
           older == Runs(f, f.root).older
<1>1. /\ IsStack(f.objects, p) /\ f.objects \in Seq(Object)
      /\ SeenEnd(p, 0) = f.admissions /\ SeenEnd(p, Levels) = 0 /\ f.admissions \in Nat
  BY WholeShows, StackOf
<1>2. \A id : id \in reached <=> id \in Reached(f, f.root) /\ Mass(f.objects[id]) > 0
  BY RunsAre
<1>3. \A a, b \in reached : <<a, b>> \in older <=>
                /\ a # b
                /\ \/ f.objects[a].level > f.objects[b].level
                   \/ f.objects[a].level = f.objects[b].level /\ f.objects[b].secondary
  BY RunsAre
<1> HIDE DEF reached, older
<1>4. \A id : id \in Reached(f, f.root) <=>
                   \E i \in Level : id \in Ends(Shows(p[i])) /\ id \in DOMAIN f.objects /\ f.objects[id].level = i
  BY ReachedAt
<1>5. ASSUME NEW r \in 0..(f.admissions - 1)
      PROVE  \E id \in reached : f.objects[id].first <= r /\ r < f.objects[id].last
  <2> DEFINE S == {j \in 0..Levels : SeenEnd(p, j) <= r}
  <2>1. Levels \in S /\ S \subseteq Nat /\ 0 \notin S
    BY <1>1
  <2>2. PICK n \in S : \A m \in S : n <= m
    BY <2>1, LeastNatural
  <2>3. n - 1 \in Level /\ n - 1 \in 0..Levels /\ n - 1 \notin S /\ (n - 1) + 1 = n
    BY <2>1, <2>2 DEF Level
  <2>4. SeenEnd(p, n - 1) \in Nat
    BY <2>3, <1>1, LevelTiles
  <2>5. r \in Nat /\ SeenEnd(p, (n - 1) + 1) <= r /\ r < SeenEnd(p, n - 1)
    BY <1>1, <2>2, <2>3, <2>4
  <2> DEFINE i == n - 1
  <2>6. i \in Level /\ SeenEnd(p, i + 1) <= r /\ r < SeenEnd(p, i) /\ r \in Nat
    BY <2>3, <2>5
  <2> HIDE DEF i
  <2>7. PICK id \in Ends(Shows(p[i])) :
                Mass(f.objects[id]) > 0 /\ f.objects[id].first <= r /\ r < f.objects[id].last
    BY <2>6, LevelShows
  <2>8. id \in DOMAIN f.objects /\ f.objects[id].level = i
    <3>1. i \in 0..Levels /\ IsChain(f.objects, ShownRoutes(p)) /\ ShownRoutes(p)[i] = Shows(p[i])
      BY <2>6, WholeShows DEF Level
    <3>2. QED
      BY <3>1, <2>6, <2>7, ChainEnds
  <2>9. id \in reached
    BY <2>6, <2>7, <2>8, <1>2, <1>4
  <2>10. QED
    BY <2>7, <2>9
<1>6. ASSUME NEW a \in reached, NEW b \in reached, f.objects[a].level > f.objects[b].level
      PROVE  f.objects[a].last <= f.objects[b].first
  <2>1. PICK i \in Level : a \in Ends(Shows(p[i])) /\ a \in DOMAIN f.objects /\ f.objects[a].level = i
    BY <1>2, <1>4
  <2>2. PICK j \in Level : b \in Ends(Shows(p[j])) /\ b \in DOMAIN f.objects /\ f.objects[b].level = j
    BY <1>2, <1>4
  <2>3. Mass(f.objects[a]) > 0 /\ Mass(f.objects[b]) > 0
    BY <1>2
  <2>4. f.objects[a].last <= SeenEnd(p, i)
    BY <2>1, <2>3, LevelShows
  <2>5. SeenEnd(p, j + 1) <= f.objects[b].first
    BY <2>2, <2>3, LevelShows
  <2>6. j + 1 <= i /\ j + 1 \in 0..Levels /\ i \in 0..Levels
    BY <1>6, <2>1, <2>2 DEF Level
  <2>7. SeenEnd(p, i) <= SeenEnd(p, j + 1)
    BY <2>6, <1>1, SeenEndsGrow
  <2>8. SeenEnd(p, i) \in Nat /\ SeenEnd(p, j + 1) \in Nat
    BY <1>1, LevelTiles
  <2>9. f.objects[a] \in Object /\ f.objects[b] \in Object
    BY <1>1, <2>1, <2>2
  <2>10. f.objects[a].last \in Nat /\ f.objects[b].first \in Nat
    BY <2>9 DEF Object
  <2>11. QED
    BY <2>4, <2>5, <2>7, <2>8, <2>10
<1>7. ASSUME NEW a \in reached, NEW b \in reached, a # b, f.objects[a].level = f.objects[b].level
      PROVE  /\ f.objects[a].secondary \/ f.objects[b].secondary
             /\ f.objects[b].secondary => f.objects[a].last <= f.objects[b].first
  <2>1. PICK i \in Level : a \in Ends(Shows(p[i])) /\ f.objects[a].level = i
    BY <1>2, <1>4
  <2>2. PICK j \in Level : b \in Ends(Shows(p[j])) /\ f.objects[b].level = j
    BY <1>2, <1>4
  <2>3. i = j
    BY <2>1, <2>2, <1>7
  <2>4. QED
    BY <2>1, <2>2, <2>3, <1>7, LevelShows
<1>8. ASSUME NEW a \in reached, NEW b \in reached, a # b
      PROVE  /\ <<a, b>> \in older \/ <<b, a>> \in older
             /\ <<a, b>> \in older => f.objects[a].last <= f.objects[b].first
  <2>1. f.objects[a].level \in Nat /\ f.objects[b].level \in Nat
    BY <1>2, <1>4 DEF Level
  <2>2. CASE f.objects[a].level > f.objects[b].level
    BY <2>2, <1>3, <1>6, <1>8
  <2>3. CASE f.objects[b].level > f.objects[a].level
    <3>1. <<b, a>> \in older
      BY <2>3, <1>3, <1>8
    <3>2. <<a, b>> \notin older
      BY <2>1, <2>3, <1>3
    <3>3. QED
      BY <3>1, <3>2
  <2>4. CASE f.objects[a].level = f.objects[b].level
    <3>1. /\ f.objects[a].secondary \/ f.objects[b].secondary
          /\ f.objects[b].secondary => f.objects[a].last <= f.objects[b].first
      BY <2>4, <1>7, <1>8
    <3>2. <<a, b>> \in older <=> f.objects[b].secondary
      BY <2>1, <2>4, <1>3, <1>8
    <3>3. <<b, a>> \in older <=> f.objects[a].secondary
      BY <2>1, <2>4, <1>3, <1>8
    <3>4. QED
      BY <3>1, <3>2, <3>3
  <2>5. QED
    BY <2>1, <2>2, <2>3, <2>4
<1>9. QED
  BY <1>5, <1>8 DEF reached, older

\* Runs that lie in the order of the records make the chronology exact.
LEMMA ChronologyHolds ==
  ASSUME IsOrderly
  PROVE  ChronologyIsExact
<1>1. PICK p : IsWhole(frontier, p)
  BY DEF IsOrderly
<1>2. PICK q : IsWhole(published, q)
  BY DEF IsOrderly
<1>3. QED
  BY <1>1, <1>2, Chronology DEF ChronologyIsExact

\* The objects of a level's slots.
SlotObjects(f, i, q, x, y, z) ==
  f.slots[i][q.a].object = x /\ f.slots[i][q.b].object = y /\ f.slots[i][q.c].object = z

\* No object is in two slots.
Apart(x, y, z) == (x # Null => x # y /\ x # z) /\ (y # Null => y # x /\ y # z) /\ (z # Null => z # x /\ z # y)

\* A slot that waits for a merge names its output, or nothing.
LEMMA WaitingObject ==
  ASSUME NEW f, NEW i, NEW idle, idle.object = Null
  PROVE  Waiting(f, i, idle).object = IF Reserved(f, i) THEN f.jobs[i - 1].output ELSE Null
BY DEF Waiting

\* Within a level no run is kept twice: each starts at its own record.
LEMMA SlotsDiffer ==
  ASSUME NEW f, NEW p, IsLaidOut(f, p), NEW i \in Level
  PROVE  \E x, y, z : SlotObjects(f, i, p[i], x, y, z) /\ Apart(x, y, z)
<1> DEFINE q == p[i]
           above == p[i + 1]
           m == RunMass[i]
           late == IF Reserved(f, i) THEN f.jobs[i - 1].output ELSE Null
<1>1. /\ q \in Places /\ above \in Places /\ RunsAreSound(f.objects, q, above, i) /\ SlotsAreSound(f, i, q, above)
      /\ m \in Nat \ {0} /\ q.end \in Nat /\ above.end \in Nat /\ q.kind \in Kinds
  BY LevelAt, PlaceType
<1>2. late # Null => \E secondary, next : IsRun(f.objects, late, i, q.end, secondary, next)
  BY ReservedIs
<1>3. late # Null => f.objects[late].first = q.end
  BY <1>2 DEF IsRun
<1>4. /\ \A state, id, seen : Keeping(state, id, seen).object = id
      /\ \A id, route : Rooting(id, route).object = id
      /\ \A state, id : Holding(state, id).object = id
      /\ \A state, id, route : Carrier(state, id, route).object = id
      /\ Empty.object = Null
  BY DEF Keeping, Rooting, Holding, Carrier, Empty
<1>5. \A route : Waiting(f, i, Empty).object = late /\ Waiting(f, i, Carrier("carrier_ready", Null, route)).object = late
  BY <1>4, WaitingObject
<1> HIDE DEF late, q, above, m
<1>6. ASSUME q.kind = "none" PROVE \E x, y, z : SlotObjects(f, i, q, x, y, z) /\ Apart(x, y, z)
  <2>1. SlotObjects(f, i, q, late, Null, Null)
    BY <1>1, <1>4, <1>5, <1>6 DEF SlotsAreSound, SlotsAre, SlotObjects
  <2>2. Apart(late, Null, Null)
    BY DEF Apart
  <2>3. QED
    BY <2>1, <2>2
<1>7. ASSUME q.kind = "one" PROVE \E x, y, z : SlotObjects(f, i, q, x, y, z) /\ Apart(x, y, z)
  <2>1. SlotObjects(f, i, q, q.into.main, late, Null)
    BY <1>1, <1>4, <1>5, <1>7 DEF SlotsAreSound, SlotsAre, SlotObjects
  <2>2. f.objects[q.into.main].first = above.end /\ q.end = above.end + m
    BY <1>1, <1>7 DEF RunsAreSound, OneRun, IsRun, m
  <2>3. late # Null => late # q.into.main
    BY <2>2, <1>1, <1>3
  <2>4. Apart(q.into.main, late, Null)
    BY <2>3 DEF Apart
  <2>5. QED
    BY <2>1, <2>4
<1>8. ASSUME q.kind = "fresh" PROVE \E x, y, z : SlotObjects(f, i, q, x, y, z) /\ Apart(x, y, z)
  <2>1. SlotObjects(f, i, q, q.into.main, q.before.main, q.before.secondary)
    BY <1>1, <1>8 DEF SlotsAreSound, SlotsAre, SlotObjects, Keeping, Holding, Carrier, Empty, Null
  <2>2. /\ f.objects[q.into.main].first = above.end /\ f.objects[q.before.main].first = above.end - 2 * m
        /\ f.objects[q.before.secondary].first = above.end - m
    BY <1>1, <1>8 DEF RunsAreSound, FreshRun, IsRun, m
  <2>3. q.into.main # q.before.main /\ q.into.main # q.before.secondary /\ q.before.main # q.before.secondary
    BY <2>2, <1>1
  <2>4. Apart(q.into.main, q.before.main, q.before.secondary)
    BY <2>3 DEF Apart
  <2>5. QED
    BY <2>1, <2>4
<1>9. ASSUME q.kind = "two" PROVE \E x, y, z : SlotObjects(f, i, q, x, y, z) /\ Apart(x, y, z)
  <2>1. SlotObjects(f, i, q, q.into.main, q.into.secondary, Null)
    BY <1>1, <1>9 DEF SlotsAreSound, SlotsAre, SlotObjects, Keeping, Holding, Carrier, Empty, Null
  <2>2. f.objects[q.into.main].first = above.end /\ f.objects[q.into.secondary].first = above.end + m
    BY <1>1, <1>9 DEF RunsAreSound, TwoRuns, IsRun, m
  <2>3. q.into.main # q.into.secondary
    BY <2>2, <1>1
  <2>4. Apart(q.into.main, q.into.secondary, Null)
    BY <2>3 DEF Apart
  <2>5. QED
    BY <2>1, <2>4
<1>10. ASSUME q.kind = "done" PROVE \E x, y, z : SlotObjects(f, i, q, x, y, z) /\ Apart(x, y, z)
  <2>1. SlotObjects(f, i, q, q.into.main, q.into.secondary, late)
    <3>1. Waiting(f, i, Carrier("carrier_ready", Null, above.into)).object = late
      BY <1>5
    <3>2. QED
      BY <3>1, <1>1, <1>10 DEF SlotsAreSound, SlotsAre, SlotObjects, Keeping
  <2>2. f.objects[q.into.main].first = above.end - 2 * m /\ f.objects[q.into.secondary].first = above.end - m
        /\ q.end = above.end
    BY <1>1, <1>10 DEF RunsAreSound, DoneRuns, IsRun, m
  <2>3. q.into.main # q.into.secondary /\ (late # Null => late # q.into.main /\ late # q.into.secondary)
    BY <2>2, <1>1, <1>3
  <2>4. Apart(q.into.main, q.into.secondary, late)
    BY <2>3 DEF Apart
  <2>5. QED
    BY <2>1, <2>4
<1>11. ASSUME q.kind = "root" PROVE \E x, y, z : SlotObjects(f, i, q, x, y, z) /\ Apart(x, y, z)
  <2>1. SlotObjects(f, i, q, q.into.main, Null, Null)
    BY <1>1, <1>4, <1>5, <1>11 DEF SlotsAreSound, SlotsAre, SlotObjects
  <2>2. Apart(q.into.main, Null, Null)
    BY DEF Apart
  <2>3. QED
    BY <2>1, <2>2
<1>12. QED
  BY <1>1, <1>6, <1>7, <1>8, <1>9, <1>10, <1>11 DEF Kinds, q

\* An object that a slot holds is held once, at its own level.
LEMMA HeldOnce ==
  ASSUME NEW f, NEW p, IsLaidOut(f, p), NEW i \in Level, NEW s \in Slots, f.slots[i][s].object # Null
  PROVE  /\ Held(f, f.slots[i][s].object)
         /\ f.objects[f.slots[i][s].object].level = i
         /\ \A t \in Slots : f.slots[i][t].object = f.slots[i][s].object => t = s
<1> DEFINE id == f.slots[i][s].object
           q == p[i]
<1>1. id \in DOMAIN f.objects /\ f.objects[id].level = i
  BY HomeNames DEF NamesAreHome
<1>2. PICK x, y, z : SlotObjects(f, i, q, x, y, z) /\ Apart(x, y, z)
  BY SlotsDiffer
<1>3. q \in Places
  BY LevelAt
<1> HIDE DEF q
<1>4. ASSUME NEW t \in Slots, f.slots[i][t].object = id PROVE t = s
  <2>1. (t = q.a \/ t = q.b \/ t = q.c) /\ (s = q.a \/ s = q.b \/ s = q.c)
    BY <1>3, SlotIs
  <2>2. QED
    BY <2>1, <1>2, <1>4 DEF SlotObjects, Apart
<1>5. ASSUME NEW j \in Level, NEW t \in Slots, f.slots[j][t].object = id PROVE j = i /\ t = s
  <2>1. f.objects[id].level = j
    BY <1>5, HomeNames DEF NamesAreHome
  <2>2. j = i
    BY <2>1, <1>1
  <2>3. QED
    BY <2>2, <1>4, <1>5
<1>6. HolderOf(f, id) = {<<i, s>>}
  <2>1. <<i, s>> \in HolderOf(f, id)
    BY DEF HolderOf
  <2>2. ASSUME NEW h \in HolderOf(f, id) PROVE h = <<i, s>>
    <3>1. PICK j \in Level, t \in Slots : h = <<j, t>> /\ f.slots[j][t].object = id
      BY <2>2 DEF HolderOf
    <3>2. QED
      BY <3>1, <1>5
  <2>3. QED
    BY <2>1, <2>2
<1>7. Held(f, id)
  BY <1>1, <1>6 DEF Held
<1>8. QED
  BY <1>1, <1>4, <1>7

\* What a level shows, a slot of it holds and has marked visible.
LEMMA ShownIsKept ==
  ASSUME NEW f, NEW p, IsLaidOut(f, p), NEW i \in Level, NEW id \in Ends(Shows(p[i]))
  PROVE  \E s \in Slots : f.slots[i][s].object = id /\ f.slots[i][s].ever_visible
<1> DEFINE q == p[i]
           above == p[i + 1]
           Kept(x) == x.object = id /\ x.ever_visible
<1>1. /\ q \in Places /\ RunsAreSound(f.objects, q, above, i) /\ SlotsAreSound(f, i, q, above)
      /\ q.kind \in Kinds /\ q.a \in Slots /\ q.b \in Slots /\ q.c \in Slots /\ q.seen \in BOOLEAN
  BY LevelAt, PlaceType
<1>2. (id = Shows(q).main \/ id = Shows(q).secondary) /\ id # 0 /\ Shows(q) = IF q.seen THEN q.into ELSE q.before
  BY DEF Ends, Shows, Null
<1>3. /\ \A state, seen : seen => Kept(Keeping(state, id, seen))
      /\ \A route : Kept(Rooting(id, route))
  BY DEF Keeping, Rooting
<1> HIDE DEF q, above, Kept
<1> SUFFICES \E s \in Slots : Kept(f.slots[i][s])
  BY DEF Kept
<1>4. q.kind # "none"
  BY <1>1, <1>2 DEF RunsAreSound, IsBare, Nowhere, Null
<1>5. ASSUME q.kind = "one" PROVE Kept(f.slots[i][q.a])
  <2>1. q.into.secondary = 0 /\ q.before.main = 0 /\ q.before.secondary = 0
    BY <1>1, <1>5 DEF RunsAreSound, OneRun, Nowhere, Null
  <2>2. q.seen /\ id = q.into.main
    BY <2>1, <1>2
  <2>3. f.slots[i][q.a] = Keeping("active", q.into.main, q.seen)
    BY <1>1, <1>5 DEF SlotsAreSound, SlotsAre
  <2>4. QED
    BY <2>2, <2>3 DEF Kept, Keeping
<1>6. ASSUME q.kind = "fresh" PROVE Kept(f.slots[i][q.b]) \/ Kept(f.slots[i][q.c])
  <2>1. ~q.seen
    BY <1>1, <1>6 DEF RunsAreSound, FreshRun
  <2>2. id = q.before.main \/ id = q.before.secondary
    BY <2>1, <1>2
  <2>3. /\ f.slots[i][q.b] = Keeping("consumed", q.before.main, TRUE)
        /\ f.slots[i][q.c] = Keeping("consumed", q.before.secondary, TRUE)
    BY <1>1, <1>6 DEF SlotsAreSound, SlotsAre
  <2>4. QED
    BY <2>2, <2>3 DEF Kept, Keeping
<1>7. ASSUME q.kind \in {"two", "done"} PROVE Kept(f.slots[i][q.a]) \/ Kept(f.slots[i][q.b])
  <2>1. q.before = [main |-> q.into.main, secondary |-> 0]
    BY <1>1, <1>7 DEF RunsAreSound, TwoRuns, DoneRuns, Null
  <2>2. id = q.into.main \/ (id = q.into.secondary /\ q.seen)
    BY <2>1, <1>2
  <2>3. \E state : /\ f.slots[i][q.a] = Keeping(state, q.into.main, TRUE)
                   /\ f.slots[i][q.b] = Keeping(state, q.into.secondary, q.seen)
    BY <1>1, <1>7 DEF SlotsAreSound, SlotsAre
  <2>4. QED
    BY <2>2, <2>3 DEF Kept, Keeping
<1>8. ASSUME q.kind = "root" PROVE Kept(f.slots[i][q.a])
  <2>1. q.seen /\ q.into.secondary = 0
    BY <1>1, <1>8 DEF RunsAreSound, RootRun, Null
  <2>2. id = q.into.main
    BY <2>1, <1>2
  <2>3. f.slots[i][q.a] = Rooting(q.into.main, above.into)
    BY <1>1, <1>8 DEF SlotsAreSound, SlotsAre
  <2>4. QED
    BY <2>2, <2>3 DEF Kept, Rooting
<1>9. QED
  BY <1>1, <1>4, <1>5, <1>6, <1>7, <1>8 DEF Kinds

\* What a root reaches keeps its slot, and one object leads to it.
LEMMA VisibleIsHeld ==
  ASSUME NEW f, NEW p, IsWhole(f, p), NEW id \in Reached(f, f.root)
  PROVE  /\ Held(f, id)
         /\ f.slots[f.objects[id].level][CHOOSE s \in Slots : f.slots[f.objects[id].level][s].object = id].ever_visible
         /\ id \in Ends(f.root) => Parents(f, id) = {}
         /\ Cardinality(Parents(f, id)) <= 1
<1> USE RuntimeAssumption
<1>1. PICK i \in Level : id \in Ends(Shows(p[i])) /\ id \in DOMAIN f.objects /\ f.objects[id].level = i
  BY ReachedAt
<1>2. /\ IsLaidOut(f, p) /\ IsStack(f.objects, p) /\ IsChain(f.objects, ShownRoutes(p))
      /\ f.root = ShownRoutes(p)[0] /\ \A j \in 0..Levels : ShownRoutes(p)[j] = Shows(p[j])
  BY WholeShows
<1>3. PICK s \in Slots : f.slots[i][s].object = id /\ f.slots[i][s].ever_visible
  BY <1>1, <1>2, ShownIsKept
<1>4. id # Null
  BY <1>1 DEF Ends
<1>5. Held(f, id) /\ \A t \in Slots : f.slots[i][t].object = id => t = s
  BY <1>2, <1>3, <1>4, HeldOnce
<1>6. (CHOOSE t \in Slots : f.slots[i][t].object = id) = s
  <2>1. \A t \in Slots : f.slots[i][t].object = id <=> t = s
    BY <1>3, <1>5
  <2>2. QED
    BY <2>1
<1>7. ASSUME NEW b \in Parents(f, id)
      PROVE  i # 0 /\ b = Shows(p[i - 1]).main
  <2>1. b \in Reached(f, f.root) /\ id \in Ends(f.objects[b].next)
    BY DEF Parents
  <2>2. PICK j \in Level : b \in Ends(Shows(p[j])) /\ b \in DOMAIN f.objects /\ f.objects[b].level = j
    BY <2>1, ReachedAt
  <2>3. j + 1 \in 0..Levels /\ j \in 0..Levels
    BY DEF Level
  <2> DEFINE R == ShownRoutes(p)
  <2>4. Ends(R[j + 1]) = UNION {Ends(f.objects[x].next) : x \in Ends(R[j])}
    BY <1>2, ChainEnds
  <2>5. id \in Ends(R[j + 1])
    BY <2>1, <2>2, <2>3, <2>4, <1>2
  <2>6. j + 1 \in Level
    <3>1. R[Levels] = Nowhere /\ Ends(Nowhere) = {}
      BY <1>2 DEF IsChain, Ends, Nowhere
    <3>2. j + 1 # Levels
      BY <3>1, <2>5
    <3>3. QED
      BY <3>2 DEF Level
  <2>7. f.objects[id].level = j + 1
    BY <2>5, <2>6, <1>2, ChainEnds
  <2>8. i = j + 1
    BY <2>7, <1>1
  <2>9. b = R[j].main \/ (b = R[j].secondary /\ b # Null)
    BY <2>2, <2>3, <1>2 DEF Ends
  <2>10. R[j].secondary # Null => f.objects[R[j].secondary].next = Nowhere
    BY <1>2 DEF IsChain
  <2>11. b = R[j].main
    BY <2>1, <2>9, <2>10 DEF Ends, Nowhere
  <2>12. i # 0 /\ i - 1 = j
    BY <2>8 DEF Level
  <2>13. QED
    BY <2>3, <2>11, <2>12, <1>2
<1>8. id \in Ends(f.root) => Parents(f, id) = {}
  <2> SUFFICES ASSUME id \in Ends(f.root) PROVE Parents(f, id) = {}
    OBVIOUS
  <2>1. 0 \in Level
    BY DEF Level
  <2>2. f.objects[id].level = 0
    BY <2>1, <1>2, ChainEnds
  <2>3. QED
    BY <2>2, <1>1, <1>7
<1>9. Cardinality(Parents(f, id)) <= 1
  <2>1. CASE Parents(f, id) = {}
    <3>1. Cardinality({}) <= 1
      BY PairSize
    <3>2. QED
      BY <2>1, <3>1
  <2>2. CASE Parents(f, id) # {}
    <3>1. PICK b : b \in Parents(f, id)
      BY <2>2
    <3>2. Parents(f, id) = {b}
      BY <3>1, <1>7
    <3>3. Cardinality({b}) = 1
      BY PairSize
    <3>4. Cardinality(Parents(f, id)) = 1
      BY <3>2, <3>3
    <3>5. QED
      BY <3>4
  <2>3. QED
    BY <2>1, <2>2
<1>10. QED
  BY <1>1, <1>3, <1>5, <1>6, <1>8, <1>9

\* The runs of the present root keep their slots.
LEMMA VisibilityHolds ==
  ASSUME IsOrderly
  PROVE  VisibleRunsAreHeld
<1>1. PICK p : IsWhole(frontier, p)
  BY DEF IsOrderly
<1>2. QED
  BY <1>1, VisibleIsHeld DEF VisibleRunsAreHeld

(* Whatever the service paid and however merges, restarts and initial batches
   interleave, a reader sees each admitted record once and in order, and what a
   root reaches is not given up.                                            *)
THEOREM ReadersStayExact == Spec => []ReadersAreExact
<1>1. IsOrderly => ReadersAreExact
  BY ChronologyHolds, VisibilityHolds DEF ReadersAreExact
<1>2. QED
  BY <1>1, FrontiersStayWhole, PTL

=============================================================================
