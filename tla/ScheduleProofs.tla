--------------------------- MODULE ScheduleProofs ---------------------------
(***************************************************************************)
(* The redundant runtime's schedule, proved: an executor that has paid     *)
(* what service_budget asks has finished every merge that the next         *)
(* admission needs, and the checkpoint of a frontier restores it.  The     *)
(* argument is an account: the records that came since a level's runs      *)
(* were complete pay for the charges its merge still has to spend.         *)
(***************************************************************************)
EXTENDS RedundantProofs

-----------------------------------------------------------------------------
(* What restore accepts                                                  *)

\* The routes a level offers lead to runs that its slots hold.
LEMMA RoutesLeadHome ==
  ASSUME NEW f, NEW p, IsLaidOut(f, p), NEW i \in 0..Levels
  PROVE  /\ RouteInto(f, p[i].into, i) /\ RouteInto(f, p[i].before, i) /\ RouteInto(f, Nowhere, i)
         /\ p[i].kind # "none" => p[i].into.main # Null
<1> USE RuntimeAssumption
<1> DEFINE q == p[i]
           above == p[i + 1]
           Kept(id) == \E s \in Slots : f.slots[i][s].object = id
<1>1. RouteInto(f, Nowhere, i)
  BY DEF RouteInto, Nowhere
<1>2. CASE i = Levels
  <2>1. q.into = Nowhere /\ q.before = Nowhere /\ q.kind = "none"
    BY <1>2 DEF IsLaidOut, IsBare
  <2>2. QED
    BY <2>1, <1>1
<1>3. CASE i # Levels
  <2>1. i \in Level
    BY <1>3 DEF Level
  <2>2. /\ q \in Places /\ q.kind \in Kinds /\ RunsAreSound(f.objects, q, above, i) /\ SlotsAreSound(f, i, q, above)
        /\ q.a \in Slots /\ q.b \in Slots /\ q.c \in Slots /\ 0 \notin DOMAIN f.objects
    BY <2>1, LevelAt, PlaceType, StackOf
  <2>3. ASSUME NEW id \in DOMAIN f.objects, Kept(id)
        PROVE  Held(f, id) /\ f.objects[id].level = i
    <3>1. PICK s \in Slots : f.slots[i][s].object = id
      BY <2>3
    <3>2. id # Null
      BY <2>2 DEF Null
    <3>3. QED
      BY <2>1, <3>1, <3>2, HeldOnce
  <2> DEFINE Main(id) == id \in DOMAIN f.objects /\ Kept(id) /\ ~f.objects[id].secondary
             Second(id) == id \in DOMAIN f.objects /\ Kept(id) /\ f.objects[id].secondary
  <2>4. ASSUME NEW route, Main(route.main), route.secondary = Null \/ Second(route.secondary)
        PROVE  RouteInto(f, route, i)
    <3>1. route.main # Null
      BY <2>2, <2>4 DEF Null
    <3>2. QED
      BY <3>1, <2>3, <2>4 DEF RouteInto
  <2>5. ASSUME q.kind = "none" PROVE q.into = Nowhere /\ q.before = Nowhere
    BY <2>2, <2>5 DEF RunsAreSound, IsBare
  <2>6. ASSUME q.kind \in {"one", "root"} PROVE Main(q.into.main) /\ q.into.secondary = Null /\ q.before = Nowhere
    <3>1. /\ q.into.main \in DOMAIN f.objects /\ ~f.objects[q.into.main].secondary
          /\ q.into.secondary = Null /\ q.before = Nowhere
      BY <2>2, <2>6 DEF RunsAreSound, OneRun, RootRun, IsRun
    <3>2. f.slots[i][q.a].object = q.into.main
      BY <2>2, <2>6 DEF SlotsAreSound, SlotsAre, Keeping, Rooting
    <3>3. QED
      BY <3>1, <3>2, <2>2
  <2>7. ASSUME q.kind = "fresh"
        PROVE  Main(q.into.main) /\ q.into.secondary = Null /\ Main(q.before.main) /\ Second(q.before.secondary)
    <3>1. /\ q.into.main \in DOMAIN f.objects /\ ~f.objects[q.into.main].secondary /\ q.into.secondary = Null
          /\ q.before.main \in DOMAIN f.objects /\ ~f.objects[q.before.main].secondary
          /\ q.before.secondary \in DOMAIN f.objects /\ f.objects[q.before.secondary].secondary
      BY <2>2, <2>7 DEF RunsAreSound, FreshRun, IsRun
    <3>2. /\ f.slots[i][q.a].object = q.into.main /\ f.slots[i][q.b].object = q.before.main
          /\ f.slots[i][q.c].object = q.before.secondary
      BY <2>2, <2>7 DEF SlotsAreSound, SlotsAre, Keeping
    <3>3. QED
      BY <3>1, <3>2, <2>2
  <2>8. ASSUME q.kind \in {"two", "done"}
        PROVE  Main(q.into.main) /\ Second(q.into.secondary) /\ q.before.main = q.into.main /\ q.before.secondary = Null
    <3>1. /\ q.into.main \in DOMAIN f.objects /\ ~f.objects[q.into.main].secondary
          /\ q.into.secondary \in DOMAIN f.objects /\ f.objects[q.into.secondary].secondary
          /\ q.before.main = q.into.main /\ q.before.secondary = Null
      BY SMTT(20), <2>2, <2>8 DEF RunsAreSound, TwoRuns, DoneRuns, IsRun
    <3>2. f.slots[i][q.a].object = q.into.main /\ f.slots[i][q.b].object = q.into.secondary
      BY <2>2, <2>8 DEF SlotsAreSound, SlotsAre, Keeping
    <3>3. QED
      BY <3>1, <3>2, <2>2
  <2>9. q.kind # "none" => q.into.main # Null
    <3>1. q.kind # "none" => q.into.main \in DOMAIN f.objects
      BY <2>2, <2>6, <2>7, <2>8 DEF Kinds
    <3>2. QED
      BY <3>1, <2>2 DEF Null
  <2> HIDE DEF q, Main, Second
  <2>10. RouteInto(f, q.into, i) /\ RouteInto(f, q.before, i)
    <3>1. CASE q.kind = "none"
      BY <3>1, <2>5, <1>1
    <3>2. CASE q.kind \in {"one", "root"}
      BY <3>2, <2>4, <2>6, <1>1
    <3>3. CASE q.kind = "fresh"
      BY <3>3, <2>4, <2>7
    <3>4. CASE q.kind \in {"two", "done"}
      BY <3>4, <2>4, <2>8
    <3>5. QED
      BY <2>2, <3>1, <3>2, <3>3, <3>4 DEF Kinds
  <2>11. QED
    BY <1>1, <2>9, <2>10 DEF q
<1>4. QED
  BY <1>2, <1>3

\* What a slot may hold: nothing; a run; the carrier under way or ready; the root;
\* or what the merge of the level below is to put there.
HoldsRun(f, p, i, id) ==
  /\ id \in DOMAIN f.objects /\ f.objects[id].level = i
  /\ f.objects[id].last = f.objects[id].first + RunMass[i] /\ f.objects[id].last <= p[0].end
  /\ IF f.objects[id].secondary THEN f.objects[id].next = Nowhere
     ELSE f.objects[id].next \in {Nowhere, p[i + 1].into, p[i + 1].before}

KeepsRun(f, p, i, x) ==
  x.state \in {"active", "consumed"} /\ x.route = Nowhere /\ HoldsRun(f, p, i, x.object)

IsReserved(f, p, i, s, x) ==
  /\ Reserved(f, i) /\ s = Vacancy(p[i]) /\ x.state = "reserved" /\ ~x.ever_visible
  /\ x.object = f.jobs[i - 1].output
  /\ x.route \in {Nowhere, p[i + 1].into}
  /\ x.object # Null => HoldsRun(f, p, i, x.object)

IsRooting(f, p, i, x) ==
  /\ i = 0 /\ x = Rooting(x.object, p[1].into) /\ x.object \in DOMAIN f.objects
  /\ f.objects[x.object].first = 0 /\ f.objects[x.object].last = 0 /\ f.objects[x.object].level = 0
  /\ ~f.objects[x.object].secondary /\ f.objects[x.object].next = p[1].into

SlotHolds(f, p, i, s, x) ==
  \/ x = Empty
  \/ KeepsRun(f, p, i, x)
  \/ x = Holding("carrier_building", Null) /\ i \in Working(f) /\ s = p[i].c
  \/ x = Carrier("carrier_ready", Null, p[i + 1].into) /\ p[i + 1].into.main # Null
  \/ IsRooting(f, p, i, x)
  \/ IsReserved(f, p, i, s, x)

\* A run of the level that ends no later than the level does.
LEMMA RunHolds ==
  ASSUME NEW f, NEW p, IsLaidOut(f, p), NEW i \in Level, NEW id, NEW first \in Nat, NEW secondary \in BOOLEAN, NEW next,
         IsRun(f.objects, id, i, first, secondary, next), first + RunMass[i] <= p[0].end,
         IF secondary THEN next = Nowhere ELSE next \in {Nowhere, p[i + 1].into, p[i + 1].before}
  PROVE  HoldsRun(f, p, i, id)
BY DEF HoldsRun, IsRun

\* The slot that is to be filled from the level below, reserved or idle.
LEMMA WaitingHolds ==
  ASSUME NEW f, NEW p, IsLaidOut(f, p), NEW i \in Level, NEW s \in Slots, s = Vacancy(p[i]),
         NEW idle, idle = Empty \/ (idle = Carrier("carrier_ready", Null, p[i + 1].into) /\ p[i + 1].into.main # Null),
         NEW x, x = Waiting(f, i, idle)
  PROVE  SlotHolds(f, p, i, s, x)
<1> USE RuntimeAssumption
<1>1. CASE ~Reserved(f, i)
  BY <1>1 DEF Waiting, SlotHolds
<1>2. CASE Reserved(f, i)
  <2> DEFINE job == f.jobs[i - 1]
  <2>1. /\ i - 1 \in Level /\ (i - 1) + 1 = i /\ JobIsSound(f, p, i - 1) /\ p[i - 1].kind = "two"
        /\ \/ job.output = Null
           \/ IsRun(f.objects, job.output, i, p[i].end, p[i].kind = "one", job.route)
    BY <1>2, ReservedIs
  <2>2. /\ x.state = "reserved" /\ ~x.ever_visible /\ x.object = job.output /\ x.route = idle.route
    BY <1>2 DEF Waiting
  <2>3. idle.route \in {Nowhere, p[i + 1].into}
    BY DEF Empty, Carrier
  <2>4. job.route = (IF p[i].kind = "done" THEN p[i + 1].into ELSE Nowhere)
    <3>1. (i - 1) + 2 = i + 1
      BY DEF Level
    <3>2. JobIsSound(f, p, i - 1) => job.route = (IF p[(i - 1) + 1].kind = "done" THEN p[(i - 1) + 2].into ELSE Nowhere)
      BY DEF JobIsSound
    <3>3. QED
      BY <3>1, <3>2, <2>1
  <2>5. p[i].end + RunMass[i] <= p[0].end /\ p[i].end \in Nat
    <3>1. /\ RunsAreSound(f.objects, p[i - 1], p[(i - 1) + 1], i - 1) /\ RunMass[(i - 1) + 1] = 2 * RunMass[i - 1]
          /\ RunMass[i - 1] \in Nat /\ p[i] \in Places /\ p[i - 1] \in Places /\ i - 1 \in 0..Levels
      BY <2>1, LevelAt
    <3>2. p[i - 1].end = p[i].end + 2 * RunMass[i - 1]
      BY <3>1, <2>1 DEF RunsAreSound, TwoRuns
    <3>3. IsStack(f.objects, p) /\ 0 \in 0..Levels
      BY StackOf
    <3>4. p[i - 1].end <= p[0].end
      BY <3>1, <3>3, EndsGrow
    <3>5. p[i].end \in Nat
      BY <3>1, PlaceType
    <3>6. QED
      BY <3>1, <3>2, <3>4, <3>5, <2>1
  <2>6. x.object # Null => HoldsRun(f, p, i, x.object)
    <3> DEFINE secondary == p[i].kind = "one"
    <3>1. secondary \in BOOLEAN /\ (IF secondary THEN job.route = Nowhere ELSE job.route \in {Nowhere, p[i + 1].into, p[i + 1].before})
      BY <2>4
    <3>2. x.object # Null => IsRun(f.objects, job.output, i, p[i].end, secondary, job.route)
      BY <2>1, <2>2
    <3> HIDE DEF job, secondary
    <3>3. QED
      BY <3>1, <3>2, <2>2, <2>5, RunHolds
  <2>7. IsReserved(f, p, i, s, x)
    BY <1>2, <2>2, <2>3, <2>6 DEF IsReserved
  <2>8. QED
    BY <2>7 DEF SlotHolds
<1>3. QED
  BY <1>1, <1>2

\* A slot that keeps a run keeps what its level says.
LEMMA KeepingHolds ==
  ASSUME NEW f, NEW p, NEW i, NEW s, NEW id, HoldsRun(f, p, i, id), NEW state \in {"active", "consumed"}, NEW seen,
         NEW x, x = Keeping(state, id, seen)
  PROVE  SlotHolds(f, p, i, s, x)
BY DEF SlotHolds, KeepsRun, Keeping

\* Every slot of a frontier that is laid out holds one of those.
LEMMA SlotsHold ==
  ASSUME NEW f, NEW p, IsLaidOut(f, p), NEW i \in Level, NEW s \in Slots
  PROVE  SlotHolds(f, p, i, s, f.slots[i][s])
<1> USE RuntimeAssumption
<1> DEFINE q == p[i]
           above == p[i + 1]
           m == RunMass[i]
<1>1. /\ q \in Places /\ above \in Places /\ q.kind \in Kinds
      /\ RunsAreSound(f.objects, q, above, i) /\ SlotsAreSound(f, i, q, above)
      /\ q.a \in Slots /\ q.b \in Slots /\ q.c \in Slots
      /\ m \in Nat \ {0} /\ q.end \in Nat /\ above.end \in Nat /\ i \in 0..Levels /\ i + 1 \in 0..Levels
  BY LevelAt, PlaceType
<1>2. q.end <= p[0].end
  BY <1>1, StackOf, EndsGrow
<1>3. p[0].end \in Nat
  BY LevelAt, PlaceType DEF Level
<1>4. ASSUME NEW id, NEW first \in Nat, NEW secondary \in BOOLEAN, NEW next,
             IsRun(f.objects, id, i, first, secondary, next), first + m <= q.end,
             IF secondary THEN next = Nowhere ELSE next \in {Nowhere, above.into, above.before}
      PROVE  HoldsRun(f, p, i, id)
  <2>1. first + RunMass[i] <= p[0].end
    BY <1>1, <1>2, <1>3, <1>4
  <2>2. QED
    BY <2>1, <1>4, RunHolds
<1>5. above.kind # "none" => above.into.main # Null
  BY <1>1, RoutesLeadHome
<1> DEFINE Fine(t) == SlotHolds(f, p, i, t, f.slots[i][t])
<1>6. \A t : f.slots[i][t] = Empty => Fine(t)
  BY DEF SlotHolds
<1>7. Vacancy(q) = IF q.kind = "none" THEN q.a ELSE IF q.kind = "one" THEN q.b ELSE q.c
  BY DEF Vacancy
<1>8. ASSUME Vacancy(q) \in Slots, f.slots[i][Vacancy(q)] = Waiting(f, i, Empty) PROVE Fine(Vacancy(q))
  BY <1>8, WaitingHolds
<1>9. ASSUME Vacancy(q) \in Slots, above.into.main # Null,
             f.slots[i][Vacancy(q)] = Waiting(f, i, Carrier("carrier_ready", Null, above.into)) PROVE Fine(Vacancy(q))
  BY <1>9, WaitingHolds
<1>10. ASSUME NEW t, NEW id, HoldsRun(f, p, i, id), NEW state \in {"active", "consumed"}, NEW seen,
              f.slots[i][t] = Keeping(state, id, seen)
       PROVE  Fine(t)
  BY <1>10, KeepingHolds
<1> HIDE DEF q, above, m, Fine
<1> SUFFICES Fine(q.a) /\ Fine(q.b) /\ Fine(q.c)
  <2>1. s = q.a \/ s = q.b \/ s = q.c
    BY <1>1, SlotIs
  <2>2. QED
    BY <2>1 DEF Fine
<1>11. ASSUME q.kind = "none" PROVE Fine(q.a) /\ Fine(q.b) /\ Fine(q.c)
  <2>1. f.slots[i][q.a] = Waiting(f, i, Empty) /\ f.slots[i][q.b] = Empty /\ f.slots[i][q.c] = Empty
    BY <1>1, <1>11 DEF SlotsAreSound, SlotsAre
  <2>2. Vacancy(q) = q.a
    BY <1>7, <1>11
  <2>3. QED
    BY <2>1, <2>2, <1>1, <1>6, <1>8
<1>12. ASSUME q.kind = "one" PROVE Fine(q.a) /\ Fine(q.b) /\ Fine(q.c)
  <2>1. /\ f.slots[i][q.a] = Keeping("active", q.into.main, q.seen)
        /\ f.slots[i][q.b] = Waiting(f, i, Empty) /\ f.slots[i][q.c] = Empty
    BY <1>1, <1>12 DEF SlotsAreSound, SlotsAre
  <2>2. Vacancy(q) = q.b
    BY <1>7, <1>12
  <2>3. IsRun(f.objects, q.into.main, i, above.end, FALSE, above.into) /\ q.end = above.end + m
    BY <1>1, <1>12 DEF RunsAreSound, OneRun, m
  <2>4. HoldsRun(f, p, i, q.into.main)
    <3>1. above.end + m <= q.end
      BY <2>3, <1>1
    <3>2. QED
      BY <3>1, <2>3, <1>1, <1>4
  <2>5. QED
    BY <2>1, <2>2, <2>4, <1>1, <1>6, <1>8, <1>10
<1>13. ASSUME q.kind = "fresh" PROVE Fine(q.a) /\ Fine(q.b) /\ Fine(q.c)
  <2>1. /\ f.slots[i][q.a] = Keeping("active", q.into.main, FALSE)
        /\ f.slots[i][q.b] = Keeping("consumed", q.before.main, TRUE)
        /\ f.slots[i][q.c] = Keeping("consumed", q.before.secondary, TRUE)
    BY <1>1, <1>13 DEF SlotsAreSound, SlotsAre
  <2>2. /\ IsRun(f.objects, q.into.main, i, above.end, FALSE, above.into)
        /\ IsRun(f.objects, q.before.main, i, above.end - 2 * m, FALSE, above.before)
        /\ IsRun(f.objects, q.before.secondary, i, above.end - m, TRUE, Nowhere)
        /\ q.end = above.end + m /\ above.end >= 2 * m
    BY <1>1, <1>13 DEF RunsAreSound, FreshRun, m
  <2>3. above.end - 2 * m \in Nat /\ above.end - m \in Nat
    BY <2>2, <1>1
  <2>4. (above.end - 2 * m) + m <= q.end /\ (above.end - m) + m <= q.end /\ above.end + m <= q.end
    BY <2>2, <1>1
  <2>5. HoldsRun(f, p, i, q.into.main) /\ HoldsRun(f, p, i, q.before.main) /\ HoldsRun(f, p, i, q.before.secondary)
    BY <2>2, <2>3, <2>4, <1>1, <1>4
  <2>6. QED
    BY <2>1, <2>5, <1>10
<1>14. ASSUME q.kind = "two" PROVE Fine(q.a) /\ Fine(q.b) /\ Fine(q.c)
  <2>1. /\ f.slots[i][q.a] = Keeping("active", q.into.main, TRUE)
        /\ f.slots[i][q.b] = Keeping("active", q.into.secondary, q.seen)
        /\ f.slots[i][q.c] = IF i \in Working(f) THEN Holding("carrier_building", Null) ELSE Empty
    BY <1>1, <1>14 DEF SlotsAreSound, SlotsAre
  <2>2. /\ IsRun(f.objects, q.into.main, i, above.end, FALSE, above.into)
        /\ IsRun(f.objects, q.into.secondary, i, above.end + m, TRUE, Nowhere)
        /\ q.end = above.end + 2 * m
    BY <1>1, <1>14 DEF RunsAreSound, TwoRuns, m
  <2>3. above.end + m \in Nat /\ above.end + m <= q.end /\ (above.end + m) + m <= q.end
    BY <2>2, <1>1
  <2>4. HoldsRun(f, p, i, q.into.main) /\ HoldsRun(f, p, i, q.into.secondary)
    BY <2>2, <2>3, <1>1, <1>4
  <2>5. Fine(q.c)
    BY <2>1 DEF Fine, SlotHolds, q
  <2>6. QED
    BY <2>1, <2>4, <2>5, <1>10
<1>15. ASSUME q.kind = "done" PROVE Fine(q.a) /\ Fine(q.b) /\ Fine(q.c)
  <2>1. /\ f.slots[i][q.a] = Keeping("consumed", q.into.main, TRUE)
        /\ f.slots[i][q.b] = Keeping("consumed", q.into.secondary, q.seen)
        /\ f.slots[i][q.c] = Waiting(f, i, Carrier("carrier_ready", Null, above.into))
    BY <1>1, <1>15 DEF SlotsAreSound, SlotsAre
  <2>2. Vacancy(q) = q.c
    BY <1>7, <1>15
  <2>3. /\ IsRun(f.objects, q.into.main, i, above.end - 2 * m, FALSE, above.before)
        /\ IsRun(f.objects, q.into.secondary, i, above.end - m, TRUE, Nowhere)
        /\ q.end = above.end /\ above.end >= 2 * m /\ above.kind # "none"
    BY <1>1, <1>15 DEF RunsAreSound, DoneRuns, m
  <2>4. above.end - 2 * m \in Nat /\ above.end - m \in Nat
    BY <2>3, <1>1
  <2>5. (above.end - 2 * m) + m <= q.end /\ (above.end - m) + m <= q.end
    BY <2>3, <1>1
  <2>6. HoldsRun(f, p, i, q.into.main) /\ HoldsRun(f, p, i, q.into.secondary)
    BY <2>3, <2>4, <2>5, <1>1, <1>4
  <2>7. Fine(q.c)
    BY <2>1, <2>2, <2>3, <1>1, <1>5, <1>9
  <2>8. QED
    BY <2>1, <2>6, <2>7, <1>10
<1>16. ASSUME q.kind = "root" PROVE Fine(q.a) /\ Fine(q.b) /\ Fine(q.c)
  <2>1. f.slots[i][q.a] = Rooting(q.into.main, above.into) /\ f.slots[i][q.b] = Empty /\ f.slots[i][q.c] = Empty
    BY <1>1, <1>16 DEF SlotsAreSound, SlotsAre
  <2>2. /\ i = 0 /\ q.into.main \in DOMAIN f.objects
        /\ f.objects[q.into.main].first = 0 /\ f.objects[q.into.main].last = 0 /\ f.objects[q.into.main].level = 0
        /\ ~f.objects[q.into.main].secondary /\ f.objects[q.into.main].next = above.into
    BY <1>1, <1>16 DEF RunsAreSound, RootRun
  <2>3. above = p[1]
    BY <2>2 DEF above
  <2>4. f.slots[i][q.a].object = q.into.main
    BY <2>1 DEF Rooting
  <2>5. IsRooting(f, p, i, f.slots[i][q.a])
    BY <2>1, <2>2, <2>3, <2>4 DEF IsRooting
  <2>6. Fine(q.a)
    BY <2>5 DEF Fine, SlotHolds
  <2>7. QED
    BY <2>1, <2>6, <1>6
<1>17. QED
  BY <1>1, <1>11, <1>12, <1>13, <1>14, <1>15, <1>16 DEF Kinds

\* A run that a slot holds may be restored with it.
LEMMA RunRestores ==
  ASSUME NEW f, NEW p, IsWhole(f, p), NEW i \in Level, NEW s \in Slots,
         f.slots[i][s].object # Null, HoldsRun(f, p, i, f.slots[i][s].object)
  PROVE  LET run == f.objects[f.slots[i][s].object] IN
         /\ Held(f, f.slots[i][s].object)
         /\ run.level = i /\ run.last <= f.admissions /\ Mass(run) = RunMass[i]
         /\ IF run.secondary THEN run.next = Nowhere ELSE RouteInto(f, run.next, i + 1)
<1> DEFINE id == f.slots[i][s].object
           run == f.objects[id]
<1>1. IsLaidOut(f, p) /\ f.admissions = p[0].end /\ f.objects \in Seq(Object)
  BY StackOf DEF IsWhole
<1>2. Held(f, id)
  BY <1>1, HeldOnce
<1>3. run \in Object
  BY SMTT(20), <1>1 DEF HoldsRun
<1>4. RunMass[i] \in Nat /\ i + 1 \in 0..Levels
  BY <1>1, LevelAt
<1>5. Mass(run) = RunMass[i]
  BY SMTT(20), <1>3, <1>4 DEF HoldsRun, Mass, Object
<1>6. IF run.secondary THEN run.next = Nowhere ELSE RouteInto(f, run.next, i + 1)
  <2>1. RouteInto(f, Nowhere, i + 1) /\ RouteInto(f, p[i + 1].into, i + 1) /\ RouteInto(f, p[i + 1].before, i + 1)
    BY <1>1, <1>4, RoutesLeadHome
  <2>2. QED
    BY <2>1 DEF HoldsRun
<1>7. QED
  BY <1>1, <1>2, <1>5, <1>6 DEF HoldsRun

\* A slot whose object the root reaches is marked visible.
LEMMA ReachedIsMarked ==
  ASSUME NEW f, NEW p, IsWhole(f, p), NEW i \in Level, NEW s \in Slots,
         f.slots[i][s].object # Null, f.slots[i][s].object \in Reached(f, f.root)
  PROVE  f.slots[i][s].ever_visible
<1> DEFINE id == f.slots[i][s].object
<1>1. IsLaidOut(f, p)
  BY DEF IsWhole
<1>2. f.objects[id].level = i /\ \A t \in Slots : f.slots[i][t].object = id => t = s
  BY <1>1, HeldOnce
<1>3. id \in Reached(f, f.root) /\ f.slots[i][s].object = id
  OBVIOUS
<1> HIDE DEF id
<1>4. PICK j \in Level : id \in Ends(Shows(p[j])) /\ f.objects[id].level = j
  BY <1>3, ReachedAt
<1>5. PICK t \in Slots : f.slots[j][t].object = id /\ f.slots[j][t].ever_visible
  BY <1>1, <1>4, ShownIsKept
<1>6. QED
  BY <1>2, <1>3, <1>4, <1>5

\* restore accepts every slot of a whole frontier.
LEMMA SlotRestoresWell ==
  ASSUME NEW f, NEW p, IsWhole(f, p), NEW i \in Level, NEW s \in Slots
  PROVE  SlotRestores(f, i, s)
<1> USE RuntimeAssumption
<1> DEFINE x == f.slots[i][s]
           run == f.objects[x.object]
           IsSound == /\ Held(f, x.object)
                      /\ run.level = i /\ run.last <= f.admissions
                      /\ IF x.state = "root_carrier" THEN i = 0 /\ run.last = 0 /\ ~run.secondary
                         ELSE Mass(run) = RunMass[i]
                      /\ IF run.secondary THEN run.next = Nowhere ELSE RouteInto(f, run.next, i + 1)
                      /\ x.object \in Reached(f, f.root) => x.ever_visible
           Suits == CASE x.state = "empty"               -> x = Empty
                      [] x.state \in {"active", "consumed"} -> x.object # Null /\ x.route = Nowhere
                      [] x.state = "carrier_building"    -> /\ x.object = Null /\ x.route = Nowhere
                                                            /\ i \in Working(f) /\ f.jobs[i].carrier_slot = s
                      [] x.state = "carrier_ready"       -> x.object = Null /\ x.route.main # Null
                      [] x.state = "root_carrier"        -> x.object # Null /\ f.objects[x.object].next = x.route
                      [] x.state = "reserved"            -> i - 1 \in Working(f) /\ f.jobs[i - 1].destination = s
<1>1. /\ IsLaidOut(f, p) /\ f.objects \in Seq(Object) /\ 0 \notin DOMAIN f.objects /\ f.admissions \in Nat
      /\ i + 1 \in 0..Levels
  BY StackOf, LevelAt DEF IsWhole
<1>2. SlotHolds(f, p, i, s, x)
  BY <1>1, SlotsHold
<1>3. RouteInto(f, Nowhere, i + 1) /\ RouteInto(f, p[i + 1].into, i + 1)
  BY <1>1, RoutesLeadHome
<1>4. x.object # Null /\ x.object \in Reached(f, f.root) => x.ever_visible
  BY ReachedIsMarked
<1>5. ASSUME x.object # Null, HoldsRun(f, p, i, x.object), x.state # "root_carrier" PROVE IsSound
  <2>1. /\ Held(f, x.object) /\ run.level = i /\ run.last <= f.admissions /\ Mass(run) = RunMass[i]
        /\ IF run.secondary THEN run.next = Nowhere ELSE RouteInto(f, run.next, i + 1)
    <3>1. IsWhole(f, p) /\ f.slots[i][s].object # Null /\ HoldsRun(f, p, i, f.slots[i][s].object)
      BY <1>5
    <3>2. i \in Level /\ s \in Slots
      OBVIOUS
    <3>3. QED
      BY ONLY SMTT(20), <3>1, <3>2, RunRestores
  <2>2. QED
    BY <2>1, <1>4, <1>5
<1> SUFFICES RouteInto(f, x.route, i + 1) /\ (x.object # Null => IsSound) /\ Suits
  BY DEF SlotRestores
<1>6. ASSUME x = Empty PROVE RouteInto(f, x.route, i + 1) /\ (x.object # Null => IsSound) /\ Suits
  <2>1. x.route = Nowhere /\ x.object = Null /\ x.state = "empty"
    BY <1>6 DEF Empty
  <2>2. QED
    BY <2>1, <1>3, <1>6
<1>7. ASSUME KeepsRun(f, p, i, x) PROVE RouteInto(f, x.route, i + 1) /\ (x.object # Null => IsSound) /\ Suits
  <2>1. x.state \in {"active", "consumed"} /\ x.route = Nowhere /\ HoldsRun(f, p, i, x.object) /\ x.object # Null
    BY <1>1, <1>7 DEF KeepsRun, HoldsRun, Null
  <2>2. IsSound
    BY <2>1, <1>5
  <2>3. QED
    BY <2>1, <2>2, <1>3
<1>8. ASSUME x = Holding("carrier_building", Null), i \in Working(f), s = p[i].c
      PROVE  RouteInto(f, x.route, i + 1) /\ (x.object # Null => IsSound) /\ Suits
  <2>1. x.state = "carrier_building" /\ x.object = Null /\ x.route = Nowhere
    BY <1>8 DEF Holding, Carrier
  <2>2. f.jobs[i].carrier_slot = s
    BY <1>1, <1>8, JobAt
  <2>3. QED
    BY <2>1, <2>2, <1>3, <1>8
<1>9. ASSUME x = Carrier("carrier_ready", Null, p[i + 1].into), p[i + 1].into.main # Null
      PROVE  RouteInto(f, x.route, i + 1) /\ (x.object # Null => IsSound) /\ Suits
  <2>1. x.state = "carrier_ready" /\ x.object = Null /\ x.route = p[i + 1].into
    BY <1>9 DEF Carrier
  <2>2. QED
    BY <2>1, <1>3, <1>9
<1>10. ASSUME IsRooting(f, p, i, x) PROVE RouteInto(f, x.route, i + 1) /\ (x.object # Null => IsSound) /\ Suits
  <2>1. /\ i = 0 /\ x = Rooting(x.object, p[1].into) /\ x.object \in DOMAIN f.objects
        /\ run.first = 0 /\ run.last = 0 /\ run.level = 0 /\ ~run.secondary /\ run.next = p[1].into
    BY <1>10 DEF IsRooting
  <2>2. x.state = "root_carrier" /\ x.route = p[i + 1].into /\ x.ever_visible /\ x.object # Null
    BY <2>1, <1>1 DEF Rooting, Null
  <2>3. Held(f, x.object)
    BY <2>2, <1>1, HeldOnce
  <2>4. RouteInto(f, run.next, i + 1)
    BY <2>1, <1>3
  <2>5. IsSound
    BY <2>1, <2>2, <2>3, <2>4, <1>1
  <2>6. QED
    BY SMTT(20), <2>1, <2>2, <2>5, <1>3
<1>11. ASSUME IsReserved(f, p, i, s, x) PROVE RouteInto(f, x.route, i + 1) /\ (x.object # Null => IsSound) /\ Suits
  <2>1. /\ Reserved(f, i) /\ s = Vacancy(p[i]) /\ x.state = "reserved"
        /\ x.route \in {Nowhere, p[i + 1].into} /\ (x.object # Null => HoldsRun(f, p, i, x.object))
    BY <1>11 DEF IsReserved
  <2>2. i - 1 \in Working(f) /\ f.jobs[i - 1].destination = s
    BY <2>1, <1>1, ReservedIs
  <2>3. x.object # Null => IsSound
    BY <2>1, <1>5
  <2>4. QED
    BY <2>1, <2>2, <2>3, <1>3
<1>12. QED
  BY <1>2, <1>6, <1>7, <1>8, <1>9, <1>10, <1>11 DEF SlotHolds

\* restore accepts every job of a whole frontier.
LEMMA JobRestoresWell ==
  ASSUME NEW f, NEW p, IsWhole(f, p), NEW i \in Working(f)
  PROVE  JobRestores(f, i)
<1> USE RuntimeAssumption
<1> DEFINE job == f.jobs[i]
           q == p[i]
           above == p[i + 1]
           a == f.slots[i][job.inputs[1]]
           b == f.slots[i][job.inputs[2]]
           destination == f.slots[i + 1][job.destination]
           started == job.stage \in {"carrier_index", "commit"}
<1>1. IsLaidOut(f, p)
  BY DEF IsWhole
<1>2. /\ i \in Level /\ i + 1 \in Level /\ JobIsSound(f, p, i) /\ job \in Job
      /\ q.kind = "two" /\ above.kind \in {"none", "one", "done"}
      /\ Reserved(f, i + 1) /\ (i + 1) - 1 = i /\ job.destination = Vacancy(above)
      /\ job.inputs[1] = q.a /\ job.inputs[2] = q.b /\ job.carrier_slot = q.c
      /\ (job.new_main <=> above.kind # "one") /\ Vacancy(above) \in Slots
  BY <1>1, JobAt
<1>3. /\ q \in Places /\ above \in Places /\ SlotsAreSound(f, i, q, above) /\ RunsAreSound(f.objects, q, above, i)
      /\ SlotsAreSound(f, i + 1, above, p[(i + 1) + 1])
      /\ RunMass[i] \in Nat /\ RunMass[i + 1] = 2 * RunMass[i] /\ above.end \in Nat
  BY <1>1, <1>2, LevelAt, PlaceType
<1>4. /\ i + 1 < f.height
      /\ job.route = IF above.kind = "done" THEN p[i + 2].into ELSE Nowhere
      /\ job.existing_main = IF above.kind = "one" THEN above.into.main ELSE Null
      /\ job.stage = "destination_index" => job.new_main
      /\ IF started
         THEN IsRun(f.objects, job.output, i + 1, above.end, above.kind = "one", job.route) ELSE job.output = Null
  BY <1>2 DEF JobIsSound
<1>5. /\ job.inputs[1] # job.inputs[2]
      /\ a = Keeping("active", q.into.main, TRUE) /\ b = Keeping("active", q.into.secondary, q.seen)
      /\ f.slots[i][q.c] = Holding("carrier_building", Null)
  BY <1>2, <1>3 DEF SlotsAreSound, SlotsAre, Places
<1>6. /\ a.state = "active" /\ a.object = q.into.main /\ b.state = "active" /\ b.object = q.into.secondary
      /\ f.slots[i][q.c].state = "carrier_building"
  BY <1>5 DEF Keeping, Holding, Carrier
<1>7. /\ f.objects[a.object].first = above.end /\ f.objects[a.object].last = above.end + RunMass[i]
      /\ f.objects[b.object].first = above.end + RunMass[i]
      /\ f.objects[b.object].last = (above.end + RunMass[i]) + RunMass[i]
  BY <1>2, <1>3, <1>6 DEF RunsAreSound, TwoRuns, IsRun
<1>8. (i + 1) + 1 = i + 2 /\ i + 2 \in 0..Levels /\ i + 1 \in 0..Levels
  BY <1>2 DEF Level
<1>9. \E idle : destination = Waiting(f, i + 1, idle) /\ idle.route = job.route
  <2>1. CASE above.kind = "none"
    <3>1. destination = Waiting(f, i + 1, Empty) /\ Empty.route = Nowhere
      BY <2>1, <1>2, <1>3 DEF SlotsAreSound, SlotsAre, Vacancy, Empty
    <3>2. QED
      BY <3>1, <2>1, <1>4
  <2>2. CASE above.kind = "one"
    <3>1. destination = Waiting(f, i + 1, Empty) /\ Empty.route = Nowhere
      BY <2>2, <1>2, <1>3 DEF SlotsAreSound, SlotsAre, Vacancy, Empty
    <3>2. QED
      BY <3>1, <2>2, <1>4
  <2>3. CASE above.kind = "done"
    <3>1. destination = Waiting(f, i + 1, Carrier("carrier_ready", Null, p[(i + 1) + 1].into))
      BY <2>3, <1>2, <1>3 DEF SlotsAreSound, SlotsAre, Vacancy
    <3>2. Carrier("carrier_ready", Null, p[(i + 1) + 1].into).route = p[i + 2].into
      BY <1>8 DEF Carrier
    <3>3. job.route = p[i + 2].into
      BY <2>3, <1>4
    <3>4. QED
      BY <3>1, <3>2, <3>3
  <2>4. QED
    BY <1>2, <2>1, <2>2, <2>3
<1>10. destination.state = "reserved" /\ destination.object = job.output /\ destination.route = job.route
  BY <1>2, <1>9 DEF Waiting
<1>11. RouteInto(f, job.route, i + 2)
  <2>1. RouteInto(f, Nowhere, i + 2) /\ RouteInto(f, p[i + 2].into, i + 2)
    BY <1>1, <1>8, RoutesLeadHome
  <2>2. QED
    BY <2>1, <1>4
<1>12. IF job.new_main THEN job.existing_main = Null
       ELSE RouteInto(f, [main |-> job.existing_main, secondary |-> Null], i + 1)
  <2>1. CASE above.kind = "one"
    <3>1. RouteInto(f, above.into, i + 1) /\ above.into.secondary = Null
      BY <2>1, <1>1, <1>2, <1>8, RoutesLeadHome, LevelAt DEF RunsAreSound, OneRun
    <3>2. RouteInto(f, [main |-> above.into.main, secondary |-> Null], i + 1)
      BY <3>1 DEF RouteInto
    <3>3. QED
      BY <3>2, <2>1, <1>2, <1>4
  <2>2. CASE above.kind # "one"
    BY <2>2, <1>2, <1>4
  <2>3. QED
    BY <2>1, <2>2
<1>13. (job.output # Null) = started
  <2>1. 0 \notin DOMAIN f.objects
    BY <1>1, StackOf
  <2>2. started => job.output # Null
    BY <2>1, <1>4 DEF IsRun, Null
  <2>3. QED
    BY <2>2, <1>4
<1>14. started => /\ f.objects[job.output].first = f.objects[a.object].first
                  /\ f.objects[job.output].last = f.objects[b.object].last
                  /\ f.objects[job.output].secondary = ~job.new_main
  <2> SUFFICES ASSUME started PROVE /\ f.objects[job.output].first = f.objects[a.object].first
                                    /\ f.objects[job.output].last = f.objects[b.object].last
                                    /\ f.objects[job.output].secondary = ~job.new_main
    OBVIOUS
  <2>1. /\ f.objects[job.output].first = above.end /\ f.objects[job.output].last = above.end + RunMass[i + 1]
        /\ f.objects[job.output].secondary <=> above.kind = "one"
        /\ job.output \in DOMAIN f.objects
    BY <1>4 DEF IsRun
  <2>2. f.objects[job.output].secondary \in BOOLEAN /\ job.new_main \in BOOLEAN
    <3>1. f.objects \in Seq(Object)
      BY <1>1, StackOf
    <3>2. f.objects[job.output] \in Object
      BY <3>1, <2>1
    <3>3. QED
      BY <3>2, <1>2 DEF Object, Job
  <2>3. f.objects[job.output].last = f.objects[b.object].last
    <3>1. above.end + RunMass[i + 1] = (above.end + RunMass[i]) + RunMass[i]
      BY <1>3
    <3>2. QED
      BY <3>1, <2>1, <1>7
  <2>4. QED
    BY <2>1, <2>2, <2>3, <1>2, <1>7
<1>15. QED
  BY <1>2, <1>4, <1>5, <1>6, <1>7, <1>10, <1>11, <1>12, <1>13, <1>14 DEF JobRestores

\* restore accepts a whole and regular frontier whose account is in order.
LEMMA RestoresWell ==
  ASSUME NEW f, NEW p, IsWhole(f, p), IsRegular(f, p),
         f.service_due <= service_budget(f.admissions), Unsafe(f) = {} => f.service_due = 0
  PROVE  Restorable(f)
<1> USE RuntimeAssumption
<1>1. /\ IsLaidOut(f, p) /\ IsTyped(f) /\ f.root = p[0].into /\ f.admissions = p[0].end
      /\ f.objects \in Seq(Object) /\ f.last \in [Level -> [identity : Nat, visible : BOOLEAN]]
  BY StackOf DEF IsWhole, IsLaidOut
<1>2. IsFrontier(f)
  BY <1>1 DEF IsTyped
<1>3. \A i \in Level, s \in Slots : SlotRestores(f, i, s)
  BY SlotRestoresWell
<1>4. \A i \in Working(f) : JobRestores(f, i)
  BY JobRestoresWell
<1>5. ASSUME NEW i \in Level
      PROVE  /\ f.last[i].identity <= Len(f.objects)
             /\ Cardinality(In(f, i, "active")) <= 2
             /\ Cardinality(In(f, i, "carrier_ready") \cup In(f, i, "root_carrier")) <= 1
             /\ Cardinality(In(f, i, "reserved") \cup In(f, i, "carrier_building")) <= 1
             /\ i \in Unsafe(f) => i + 1 \notin Unsafe(f)
  <2> DEFINE q == p[i]
  <2>1. /\ q \in Places
        /\ In(f, i, "active") = IF q.kind = "two" THEN {q.a, q.b}
                                 ELSE IF q.kind \in {"one", "fresh"} THEN {q.a} ELSE {}
        /\ In(f, i, "carrier_ready") = IF q.kind = "done" /\ ~Reserved(f, i) THEN {q.c} ELSE {}
        /\ In(f, i, "root_carrier") = IF q.kind = "root" THEN {q.a} ELSE {}
        /\ In(f, i, "reserved") = IF Reserved(f, i) THEN {Vacancy(q)} ELSE {}
        /\ In(f, i, "carrier_building") = IF i \in Working(f) THEN {q.c} ELSE {}
    BY <1>1, LevelAt, InLevel
  <2>2. i \in Working(f) => ~Reserved(f, i)
    BY <1>1, JobAt, ReservedIs
  <2>3. q.a # q.b
    BY <2>1 DEF Places
  <2>4. /\ \A x, y : x # y => Cardinality({x, y}) = 2
        /\ \A x : Cardinality({x}) = 1
        /\ Cardinality({}) = 0
    BY PairSize
  <2> HIDE DEF q
  <2>5. Cardinality(In(f, i, "active")) \in {0, 1, 2}
    <3>1. In(f, i, "active") = {q.a, q.b} \/ In(f, i, "active") = {q.a} \/ In(f, i, "active") = {}
      BY <2>1
    <3>2. Cardinality({q.a, q.b}) = 2 /\ Cardinality({q.a}) = 1 /\ Cardinality({}) = 0
      BY <2>3, <2>4
    <3>3. QED
      BY <3>1, <3>2
  <2>6. Cardinality(In(f, i, "carrier_ready") \cup In(f, i, "root_carrier")) \in {0, 1}
    <3>1. \/ In(f, i, "carrier_ready") \cup In(f, i, "root_carrier") = {}
          \/ In(f, i, "carrier_ready") \cup In(f, i, "root_carrier") = {q.c}
          \/ In(f, i, "carrier_ready") \cup In(f, i, "root_carrier") = {q.a}
      BY <2>1
    <3>2. QED
      BY <3>1, <2>4
  <2>7. Cardinality(In(f, i, "reserved") \cup In(f, i, "carrier_building")) \in {0, 1}
    <3>1. \/ In(f, i, "reserved") \cup In(f, i, "carrier_building") = {}
          \/ In(f, i, "reserved") \cup In(f, i, "carrier_building") = {Vacancy(q)}
          \/ In(f, i, "reserved") \cup In(f, i, "carrier_building") = {q.c}
      BY <2>1, <2>2
    <3>2. QED
      BY <3>1, <2>4
  <2>8. f.last[i].identity <= Len(f.objects)
    <3>1. NamesAreHome(f)
      BY <1>1, HomeNames
    <3>2. f.last[i].identity = 0 \/ f.last[i].identity \in 1..Len(f.objects)
      BY <1>1, <3>1 DEF NamesAreHome, Null
    <3>3. QED
      BY <3>2, <1>1
  <2>9. i \in Unsafe(f) => i + 1 \notin Unsafe(f)
    <3>1. Unsafe(f) = {j \in Level : p[j].kind = "two"}
      BY <1>1, UnsafeIs
    <3>2. QED
      BY <3>1, NextIsOpen
  <2>10. QED
    BY <2>5, <2>6, <2>7, <2>8, <2>9
<1>6. RouteInto(f, f.root, 0)
  BY <1>1, RoutesLeadHome
<1>7. f.root.main = Null => f.admissions = 0
  <2>1. 0 \in 0..Levels
    OBVIOUS
  <2>2. p[0].kind # "none" => p[0].into.main # Null
    BY <2>1, <1>1, RoutesLeadHome
  <2>3. p[0].kind = "none" => p[0].end = 0
    BY <2>1, <1>1, StackOf, BareIs DEF IsBare
  <2>4. QED
    BY <2>2, <2>3, <1>1
<1>8. QED
  BY <1>2, <1>3, <1>4, <1>5, <1>6, <1>7 DEF Restorable

\* In a whole and regular frontier the next merge can begin and there is a slot
\* for the next record.
LEMMA MergesMayBegin ==
  ASSUME NEW p, IsWhole(frontier, p), IsRegular(frontier, p)
  PROVE  MergesCanBegin
<1> USE RuntimeAssumption
<1> DEFINE f == frontier
<1>1. IsLaidOut(f, p)
  BY DEF IsWhole
<1>2. \A j \in Level : Cardinality(In(f, j, "active")) <= 2
  <2> TAKE j \in Level
  <2>1. /\ p[j] \in Places
        /\ In(f, j, "active") = IF p[j].kind = "two" THEN {p[j].a, p[j].b}
                                 ELSE IF p[j].kind \in {"one", "fresh"} THEN {p[j].a} ELSE {}
    BY <1>1, LevelAt, InLevel
  <2>2. p[j].a # p[j].b
    BY <2>1 DEF Places
  <2>3. Cardinality(In(f, j, "active")) \in {0, 1, 2}
    <3>1. \/ In(f, j, "active") = {p[j].a, p[j].b} \/ In(f, j, "active") = {p[j].a}
          \/ In(f, j, "active") = {}
      BY <2>1
    <3>2. Cardinality({p[j].a, p[j].b}) = 2 /\ Cardinality({p[j].a}) = 1 /\ Cardinality({}) = 0
      BY <2>2, PairSize
    <3>3. QED
      BY <3>1, <3>2
  <2>4. QED
    BY <2>3
<1>3. Ready(f) => In(f, 0, "empty") \cup In(f, 0, "root_carrier") # {}
  <2> SUFFICES ASSUME Ready(f) PROVE In(f, 0, "empty") \cup In(f, 0, "root_carrier") # {}
    OBVIOUS
  <2>1. p[0].kind # "two"
    BY <1>1, ReadyIsOpen
  <2>2. p[0].kind \in {"none", "one", "root"}
    BY <2>1 DEF IsWhole
  <2>3. ~Reserved(f, 0) /\ 0 \in Level
    BY DEF Reserved, Level
  <2>4. 0 \in Slots /\ Slots # {}
    BY DEF Slots
  <2>5. In(f, 0, "empty") = CASE p[0].kind = "none" -> IF Reserved(f, 0) THEN {p[0].b, p[0].c} ELSE Slots
                              [] p[0].kind = "one"  -> IF Reserved(f, 0) THEN {p[0].c} ELSE {p[0].b, p[0].c}
                              [] p[0].kind = "two"  -> IF 0 \in Working(f) THEN {} ELSE {p[0].c}
                              [] p[0].kind = "root" -> {p[0].b, p[0].c}
                              [] OTHER -> {}
    BY <1>1, <2>3, InLevel
  <2>6. In(f, 0, "empty") = Slots \/ In(f, 0, "empty") = {p[0].b, p[0].c}
    BY <2>2, <2>3, <2>5
  <2>7. QED
    BY <2>4, <2>6
<1>4. Unsafe(f) # {} /\ Selected(f) \notin Working(f) => MayBegin(f, Selected(f))
  <2> SUFFICES ASSUME Unsafe(f) # {}, Selected(f) \notin Working(f) PROVE MayBegin(f, Selected(f))
    OBVIOUS
  <2> DEFINE i == Selected(f)
  <2>1. i \in Unsafe(f) /\ i \in Level
    BY SelectedIs
  <2>2. p[i].kind = "two"
    BY <1>1, <2>1, UnsafeIs
  <2> HIDE DEF i
  <2>3. i + 1 \in Level /\ p[i + 1].kind \in {"none", "one", "done"} /\ p[i + 1].seen
    BY <2>1, <2>2, NextIsOpen
  <2>4. i \notin Working(f)
    BY DEF i
  <2>5. MayBegin(f, i)
    BY <2>1, <2>2, <2>3, <2>4, BeginsWell
  <2>6. QED
    BY <2>5 DEF i
<1>5. QED
  BY <1>2, <1>3, <1>4 DEF MergesCanBegin

-----------------------------------------------------------------------------
(* The account.  A merge at level i costs at most LocalBound * RunMass[i].    *)
(* What is granted, or still due, suffices for the merges that must be done   *)
(* before the next ones come up; every record admitted brings the budget that *)
(* its own share of them needs.                                               *)

\* What a merge may be charged for each record of one of its runs, and one more.
PerRecord == LocalBound + 1

\* What a worker was charged of the merge that waits at a level.
SpentOf(w, k) == IF k \in DOMAIN w THEN w[k] ELSE 0

\* The records that came since a level was last added to.
Since(A, p, j) == A - p[j].end

\* The ends and the waits of a stack of levels.
Descends(A, p) ==
  /\ A \in Nat /\ A = p[0].end
  /\ \A j \in 0..Levels : p[j].end \in Nat /\ p[j].end <= A
  /\ \A j \in Level : p[j].kind = "two" => p[j].end = p[j + 1].end + 2 * RunMass[j]
  /\ p[Levels].kind # "two"

\* What was charged never reaches what the merge is allowed, until it is done.
ChargesStay(w, p) ==
  \A k \in Level : /\ SpentOf(w, k) \in Nat /\ SpentOf(w, k) <= LocalBound * RunMass[k] - 1
                   /\ SpentOf(w, k) # 0 => p[k].kind = "two"

\* What is owed, by the records since, to the levels below each, less what was
\* already spent there.
IsDebt(D, A, p, w) ==
  /\ D \in [0..Levels -> Int] /\ D[0] = 0
  /\ \A k \in Level : D[k + 1] = D[k] + PerRecord * Since(A, p, k + 1) - 2 * SpentOf(w, k)

\* What a record adds to the account of a level that waits.
Rate(j) == HalfRate * LocalBound * (j + 4) - 1 - PerRecord * j

\* What is left of the merge of level j, with the debt below it, and what the
\* records since have brought, do not exceed the account B; e is a checkpoint due.
Demand(A, p, w, D, e, j, m) ==
  2 * (LocalBound * RunMass[j] - SpentOf(w, j)) + D[j] + 2 * e + Rate(j) * (Since(A, p, j) - m)

Fits(A, p, w, D, e, B, j) ==
  IF j = 0 THEN LocalBound - SpentOf(w, 0) + e <= B
  ELSE \E m \in 0..(RunMass[j - 1] - 1) :
         /\ m <= Since(A, p, j)
         /\ Demand(A, p, w, D, e, j, m) <= 5 * (PerRecord * RunMass[j]) + 2 * B

AllFit(A, p, w, D, e, B) == \A j \in Level : p[j].kind = "two" => Fits(A, p, w, D, e, B, j)

\* The levels of a whole frontier descend.
LEMMA WholeDescends ==
  ASSUME NEW f, NEW p, IsWhole(f, p)
  PROVE  Descends(f.admissions, p)
<1> USE RuntimeAssumption
<1>1. IsLaidOut(f, p) /\ f.admissions = p[0].end /\ IsBare(p[Levels])
  BY DEF IsWhole, IsLaidOut
<1>2. IsStack(f.objects, p) /\ f.admissions \in Nat
  BY <1>1, StackOf
<1>3. \A j \in 0..Levels : p[j].end \in Nat /\ p[j].end <= f.admissions
  <2> TAKE j \in 0..Levels
  <2>1. p[j].end \in Nat
    BY <1>2, PlaceType DEF IsStack
  <2>2. 0 \in 0..Levels /\ 0 <= j
    OBVIOUS
  <2>3. QED
    BY <2>1, <2>2, <1>1, <1>2, EndsGrow
<1>4. ASSUME NEW j \in Level, p[j].kind = "two" PROVE p[j].end = p[j + 1].end + 2 * RunMass[j]
  BY <1>1, <1>4, LevelAt DEF RunsAreSound, TwoRuns
<1>5. p[Levels].kind # "two"
  BY <1>1 DEF IsBare
<1>6. QED
  BY <1>1, <1>2, <1>3, <1>4, <1>5 DEF Descends

\* A debt can be counted out whatever the levels are.
LEMMA DebtExists ==
  ASSUME NEW A, NEW p, NEW w, Descends(A, p), ChargesStay(w, p)
  PROVE  \E D : IsDebt(D, A, p, w)
<1> USE RuntimeAssumption
<1> DEFINE g(k) == PerRecord * Since(A, p, k + 1) - 2 * SpentOf(w, k)
           Counts(D, n) == /\ D \in [0..n -> Int] /\ D[0] = 0
                           /\ \A k \in 0..(n - 1) : D[k + 1] = D[k] + g(k)
           Bad == {n \in 0..Levels : ~ \E D : Counts(D, n)}
<1>1. \A k \in Level : g(k) \in Int
  <2> TAKE k \in Level
  <2>1. Since(A, p, k + 1) \in Int
    <3>1. k + 1 \in 0..Levels
      BY DEF Level
    <3>2. QED
      BY <3>1 DEF Since, Descends
  <2>2. SpentOf(w, k) \in Int /\ PerRecord \in Int
    BY DEF ChargesStay, PerRecord
  <2> HIDE DEF PerRecord, Since, SpentOf
  <2>3. QED
    BY <2>1, <2>2
<1>2. 0 \notin Bad
  <2>1. Counts([n \in 0..0 |-> 0], 0)
    OBVIOUS
  <2>2. QED
    BY <2>1
<1> HIDE DEF g
<1>3. ASSUME NEW n \in 1..Levels, n \in Bad PROVE n - 1 \in Bad
  <2>0. n - 1 \in 0..Levels /\ n - 1 \in Level
    BY DEF Level
  <2> SUFFICES ASSUME NEW D, Counts(D, n - 1) PROVE \E C : Counts(C, n)
    BY <1>3, <2>0
  <2> DEFINE C == [k \in 0..n |-> IF k = n THEN D[n - 1] + g(n - 1) ELSE D[k]]
  <2>1. C \in [0..n -> Int]
    BY <1>1, <2>0
  <2>2. C[0] = 0
    OBVIOUS
  <2>3. ASSUME NEW k \in 0..(n - 1) PROVE C[k + 1] = C[k] + g(k)
    <3>1. CASE k = n - 1
      <4>1. k + 1 = n /\ C[n] = D[n - 1] + g(n - 1) /\ C[k] = D[k]
        BY <3>1
      <4>2. QED
        BY <3>1, <4>1
    <3>2. CASE k # n - 1
      <4>1. k \in 0..((n - 1) - 1) /\ C[k + 1] = D[k + 1] /\ C[k] = D[k]
        BY <3>2
      <4>2. QED
        BY <4>1
    <3>3. QED
      BY <3>1, <3>2
  <2>4. QED
    BY <2>1, <2>2, <2>3
<1>4. Bad = {}
  <2> HIDE DEF Bad
  <2>1. Bad \subseteq 0..Levels
    BY DEF Bad
  <2>2. QED
    BY <2>1, <1>2, <1>3, NoException
<1>5. PICK D : Counts(D, Levels)
  <2> HIDE DEF Counts
  <2>1. Levels \in 0..Levels
    OBVIOUS
  <2>2. QED
    BY <2>1, <1>4, Zenon
<1>6. QED
  BY <1>5 DEF IsDebt, g, Level

\* The debt is never negative: what was spent on a merge, its own records brought.
LEMMA DebtIsOwed ==
  ASSUME NEW A, NEW p, NEW w, NEW D, Descends(A, p), ChargesStay(w, p), IsDebt(D, A, p, w)
  PROVE  \A k \in 0..Levels : D[k] \in Int /\ D[k] >= 0
<1> USE RuntimeAssumption
<1>1. \A k \in 0..Levels : D[k] \in Int
  BY DEF IsDebt
<1>2. ASSUME NEW k \in Level PROVE D[k + 1] >= D[k]
  <2>1. /\ k \in 0..Levels /\ k + 1 \in 0..Levels /\ RunMass[k] \in Nat \ {0}
        /\ A \in Nat /\ p[k].end \in Nat /\ p[k].end <= A /\ p[k + 1].end \in Nat /\ p[k + 1].end <= A
        /\ p[k].kind = "two" => p[k].end = p[k + 1].end + 2 * RunMass[k]
    <3>1. k \in 0..Levels /\ k + 1 \in 0..Levels
      BY DEF Level
    <3>2. /\ A \in Nat /\ p[k].end \in Nat /\ p[k].end <= A /\ p[k + 1].end \in Nat /\ p[k + 1].end <= A
          /\ p[k].kind = "two" => p[k].end = p[k + 1].end + 2 * RunMass[k]
      BY <3>1, Zenon DEF Descends
    <3>3. QED
      BY <3>1, <3>2, RunMassIs
  <2>2. /\ SpentOf(w, k) \in Nat /\ SpentOf(w, k) <= LocalBound * RunMass[k] - 1
        /\ SpentOf(w, k) # 0 => p[k].kind = "two"
    BY DEF ChargesStay
  <2>3. D[k + 1] = D[k] + PerRecord * Since(A, p, k + 1) - 2 * SpentOf(w, k)
    BY DEF IsDebt
  <2>4. \A b, s, r, t \in Nat : s <= b * r - 1 /\ t >= 2 * r => (b + 1) * t - 2 * s >= 0
    <3> TAKE b, s, r, t \in Nat
    <3> HAVE s <= b * r - 1 /\ t >= 2 * r
    <3>1. PICK u \in Nat : t = 2 * r + u
      <4>1. t - 2 * r \in Nat /\ t = 2 * r + (t - 2 * r)
        OBVIOUS
      <4>2. QED
        BY <4>1
    <3>2. (b + 1) * t = 2 * (b * r) + 2 * r + (b + 1) * u
      BY <3>1
    <3>3. (b + 1) * u \in Nat /\ b * r \in Nat
      OBVIOUS
    <3>4. QED
      BY <3>2, <3>3
  <2>5. \A b, t \in Nat : (b + 1) * t >= 0
    OBVIOUS
  <2>6. Since(A, p, k + 1) \in Nat /\ (p[k].kind = "two" => Since(A, p, k + 1) >= 2 * RunMass[k])
    BY <2>1 DEF Since
  <2>7. PerRecord * Since(A, p, k + 1) - 2 * SpentOf(w, k) >= 0
    <3> DEFINE t == Since(A, p, k + 1)
               s == SpentOf(w, k)
    <3> HIDE DEF t, s
    <3>1. CASE p[k].kind = "two"
      <4>1. t \in Nat /\ s \in Nat /\ t >= 2 * RunMass[k] /\ s <= LocalBound * RunMass[k] - 1
        BY <2>2, <2>6, <3>1 DEF t, s
      <4>2. (LocalBound + 1) * t - 2 * s >= 0
        BY <4>1, <2>4, <2>1
      <4>3. QED
        BY <4>2 DEF PerRecord, t, s
    <3>2. CASE p[k].kind # "two"
      <4>1. t \in Nat /\ s = 0
        BY <2>2, <2>6, <3>2 DEF t, s
      <4>2. (LocalBound + 1) * t >= 0
        BY <4>1, <2>5
      <4>3. (LocalBound + 1) * t \in Int
        BY <4>1
      <4>4. (LocalBound + 1) * t - 2 * s >= 0
        BY <4>1, <4>2, <4>3
      <4>5. QED
        BY <4>4 DEF PerRecord, t, s
    <3>3. QED
      BY <3>1, <3>2
  <2>8. PerRecord * Since(A, p, k + 1) \in Int /\ SpentOf(w, k) \in Int /\ D[k] \in Int
    BY <2>6, <2>2, <2>1, <1>1 DEF PerRecord
  <2> HIDE DEF PerRecord, Since, SpentOf
  <2>9. QED
    BY <2>3, <2>7, <2>8
<1> DEFINE Bad == {n \in 0..Levels : ~(D[n] >= 0)}
<1>3. 0 \notin Bad
  BY DEF IsDebt
<1>4. ASSUME NEW n \in 1..Levels, n \in Bad PROVE n - 1 \in Bad
  <2>1. n - 1 \in Level /\ n - 1 \in 0..Levels /\ (n - 1) + 1 = n
    BY DEF Level
  <2>2. D[n] >= D[n - 1]
    BY <2>1, <1>2
  <2>3. QED
    BY <2>1, <2>2, <1>1, <1>4
<1>5. Bad = {}
  <2> HIDE DEF Bad
  <2>1. Bad \subseteq 0..Levels
    BY DEF Bad
  <2>2. QED
    BY <2>1, <1>3, <1>4, NoException
<1>6. QED
  BY <1>1, <1>5

\* What goes into the account of a level is a number.
LEMMA AccountTyped ==
  ASSUME NEW A, NEW p, NEW w, NEW D, Descends(A, p), ChargesStay(w, p), IsDebt(D, A, p, w), NEW j \in Level
  PROVE  /\ j \in 0..Levels /\ j + 1 \in 0..Levels /\ j \in Nat
         /\ LocalBound * RunMass[j] \in Nat /\ PerRecord * RunMass[j] \in Nat
         /\ SpentOf(w, j) \in Nat /\ SpentOf(w, j) <= LocalBound * RunMass[j] - 1
         /\ D[j] \in Nat /\ D[j + 1] \in Nat /\ Rate(j) \in Int
         /\ Since(A, p, j) \in Nat /\ Since(A, p, j + 1) \in Nat
         /\ RunMass[j] \in Nat \ {0} /\ RunMass[j + 1] = 2 * RunMass[j]
         /\ A \in Nat /\ p[j].end \in Nat /\ p[j].end <= A
<1> USE RuntimeAssumption
<1>1. j \in 0..Levels /\ j + 1 \in 0..Levels /\ j \in Nat
  BY DEF Level
<1>2. RunMass[j] \in Nat \ {0} /\ RunMass[j + 1] = 2 * RunMass[j]
  BY <1>1, RunMassIs
<1>3. LocalBound * RunMass[j] \in Nat /\ PerRecord * RunMass[j] \in Nat
  <2>1. \A a, b \in Nat : a * b \in Nat
    OBVIOUS
  <2>2. LocalBound \in Nat /\ PerRecord \in Nat
    BY DEF PerRecord
  <2>3. QED
    BY <2>1, <2>2, <1>2
<1>4. D[j] \in Nat /\ D[j + 1] \in Nat
  BY <1>1, DebtIsOwed
<1>5. Rate(j) \in Int
  <2>1. \A h, b, n \in Nat : h * b * (n + 4) - 1 - (b + 1) * n \in Int
    OBVIOUS
  <2>2. QED
    BY <2>1, <1>1 DEF Rate, PerRecord
<1>6. /\ A \in Nat /\ p[j].end \in Nat /\ p[j].end <= A
      /\ p[j + 1].end \in Nat /\ p[j + 1].end <= A
  BY <1>1, Zenon DEF Descends
<1>7. Since(A, p, j) \in Nat /\ Since(A, p, j + 1) \in Nat
  BY <1>6 DEF Since
<1>8. QED
  BY <1>1, <1>2, <1>3, <1>4, <1>5, <1>6, <1>7 DEF ChargesStay

\* A step of the merge at the lowest level that waits is paid from the account.
LEMMA ServedFits ==
  ASSUME NEW A, NEW p, NEW r, NEW w, NEW v, NEW D, NEW B \in Int, NEW i \in Level,
         Descends(A, p), SameOrder(p, r), ChargesStay(w, p), IsDebt(D, A, p, w),
         AllFit(A, p, w, D, 0, B), \A j \in Level : p[j].kind = "two" => i <= j,
         SpentOf(v, i) = SpentOf(w, i) + 1, \A k \in Level : k # i => SpentOf(v, k) = SpentOf(w, k)
  PROVE  \E C : IsDebt(C, A, r, v) /\ AllFit(A, r, v, C, 0, B - 1)
<1> USE RuntimeAssumption
<1> DEFINE C == [k \in 0..Levels |-> IF k <= i THEN D[k] ELSE D[k] - 2]
<1>1. \A j \in 0..Levels : Since(A, r, j) = Since(A, p, j) /\ (r[j].kind = "two" <=> p[j].kind = "two")
  BY DEF SameOrder, Since
<1>2. i \in Nat /\ i >= 0
  BY DEF Level
<1>3. IsDebt(C, A, r, v)
  <2>1. D \in [0..Levels -> Int] /\ D[0] = 0
    BY DEF IsDebt
  <2>2. C \in [0..Levels -> Int] /\ C[0] = 0
    BY <1>2, <2>1
  <2>3. ASSUME NEW k \in Level
        PROVE  C[k + 1] = C[k] + PerRecord * Since(A, r, k + 1) - 2 * SpentOf(v, k)
    <3>1. /\ k \in 0..Levels /\ k + 1 \in 0..Levels /\ k \in Nat /\ SpentOf(w, k) \in Nat
          /\ Since(A, p, k + 1) \in Nat /\ D[k] \in Int
      BY AccountTyped
    <3>2. D[k + 1] = D[k] + PerRecord * Since(A, p, k + 1) - 2 * SpentOf(w, k)
      BY DEF IsDebt
    <3>3. Since(A, r, k + 1) = Since(A, p, k + 1)
      BY <1>1, <3>1
    <3> DEFINE x == PerRecord * Since(A, p, k + 1)
    <3>4. x \in Int
      BY <3>1 DEF PerRecord
    <3> HIDE DEF x, SpentOf
    <3>5. D[k + 1] = D[k] + x - 2 * SpentOf(w, k)
      BY <3>2 DEF x
    <3>6. C[k + 1] = C[k] + x - 2 * SpentOf(v, k)
      <4>1. CASE k < i
        <5>1. C[k + 1] = D[k + 1] /\ C[k] = D[k] /\ SpentOf(v, k) = SpentOf(w, k)
          BY <4>1, <3>1, <1>2
        <5>2. QED
          BY <5>1, <3>5
      <4>2. CASE k = i
        <5>1. C[k + 1] = D[k + 1] - 2 /\ C[k] = D[k] /\ SpentOf(v, k) = SpentOf(w, k) + 1
          BY <4>2, <3>1, <1>2
        <5>2. QED
          BY <5>1, <3>5, <3>1, <3>4
      <4>3. CASE k > i
        <5>1. C[k + 1] = D[k + 1] - 2 /\ C[k] = D[k] - 2 /\ SpentOf(v, k) = SpentOf(w, k)
          BY <4>3, <3>1, <1>2
        <5>2. QED
          BY <5>1, <3>5, <3>1, <3>4
      <4>4. QED
        BY <4>1, <4>2, <4>3, <3>1, <1>2
    <3>7. QED
      BY <3>3, <3>6 DEF x
  <2> HIDE DEF C
  <2>4. QED
    BY <2>2, <2>3 DEF IsDebt
<1>4. ASSUME NEW j \in Level, r[j].kind = "two" PROVE Fits(A, r, v, C, 0, B - 1, j)
  <2>1. /\ j \in 0..Levels /\ j \in Nat /\ LocalBound * RunMass[j] \in Nat /\ PerRecord * RunMass[j] \in Nat
        /\ SpentOf(w, j) \in Nat /\ D[j] \in Int /\ Rate(j) \in Int /\ Since(A, p, j) \in Nat
    BY AccountTyped
  <2>2. p[j].kind = "two" /\ i <= j /\ Since(A, r, j) = Since(A, p, j)
    BY <1>1, <1>4, <2>1
  <2>3. Fits(A, p, w, D, 0, B, j)
    BY <2>2 DEF AllFit
  <2>4. /\ j = i => C[j] = D[j] /\ SpentOf(v, j) = SpentOf(w, j) + 1
        /\ j # i => C[j] = D[j] - 2 /\ SpentOf(v, j) = SpentOf(w, j)
    BY <2>1, <2>2, <1>2
  <2> HIDE DEF C
  <2>5. CASE j = 0
    <3>1. i = 0
      BY <2>2, <2>5, <1>2
    <3>2. LocalBound - SpentOf(w, 0) + 0 <= B
      BY <2>3, <2>5 DEF Fits
    <3>3. QED
      BY <3>1, <3>2, <2>1, <2>4, <2>5 DEF Fits
  <2>6. CASE j # 0
    <3>1. PICK m \in 0..(RunMass[j - 1] - 1) :
            /\ m <= Since(A, p, j)
            /\ Demand(A, p, w, D, 0, j, m) <= 5 * (PerRecord * RunMass[j]) + 2 * B
      BY <2>3, <2>6 DEF Fits
    <3>2. m \in Int
      OBVIOUS
    <3> DEFINE x == Rate(j) * (Since(A, p, j) - m)
               y == LocalBound * RunMass[j]
               z == PerRecord * RunMass[j]
    <3>3. x \in Int /\ y \in Int /\ z \in Int
      <4>1. \A a, b \in Int : a * b \in Int
        OBVIOUS
      <4>2. Since(A, p, j) - m \in Int
        BY <2>1, <3>2
      <4>3. QED
        BY <4>1, <4>2, <2>1
    <3>4. 2 * (y - SpentOf(w, j)) + D[j] + 2 * 0 + x <= 5 * z + 2 * B
      BY <3>1 DEF Demand
    <3> HIDE DEF x, y, z
    <3>5. 2 * (y - SpentOf(v, j)) + C[j] + 2 * 0 + x <= 5 * z + 2 * (B - 1)
      <4> HIDE DEF SpentOf
      <4>1. CASE j = i
        BY <4>1, <2>1, <2>4, <3>3, <3>4
      <4>2. CASE j # i
        BY <4>2, <2>1, <2>4, <3>3, <3>4
      <4>3. QED
        BY <4>1, <4>2
    <3>6. Demand(A, r, v, C, 0, j, m) <= 5 * (PerRecord * RunMass[j]) + 2 * (B - 1)
      BY <3>5, <2>2 DEF Demand, x, y, z
    <3>7. QED
      BY <3>1, <3>6, <2>2, <2>6 DEF Fits
  <2>7. QED
    BY <2>5, <2>6
<1>5. QED
  BY <1>3, <1>4 DEF AllFit

\* What the new pair of runs above a merge needs is there: the merge leaves what
\* its own records were given.
LEMMA MergedAccount ==
  ASSUME NEW b \in Nat, b >= 5, NEW R \in Nat \ {0}, NEW s \in Nat, s <= b * R - 1,
         NEW d \in Int, NEW t \in Nat, t <= R - 1, NEW B \in Int, NEW e \in {0, 1},
         d + 2 <= 5 * ((b + 1) * R) + 2 * B
  PROVE  2 * (b * (2 * R)) + (d + (b + 1) * t) + 2 * e <= 5 * ((b + 1) * (2 * R)) + 2 * (B - 1)
<1> DEFINE x == b * R
<1>1. x \in Nat /\ b * (2 * R) = 2 * x /\ (b + 1) * R = x + R /\ (b + 1) * (2 * R) = 2 * x + 2 * R
  OBVIOUS
<1>2. (b + 1) * t <= x + R - b - 1
  <2>1. PICK u \in Nat : R = t + 1 + u
    <3>1. R - 1 - t \in Nat /\ R = t + 1 + (R - 1 - t)
      OBVIOUS
    <3>2. QED
      BY <3>1
  <2>2. (b + 1) * R = (b + 1) * t + (b + 1) + (b + 1) * u
    BY <2>1
  <2>3. (b + 1) * u \in Nat /\ (b + 1) * t \in Nat
    OBVIOUS
  <2> HIDE DEF x
  <2>4. QED
    BY <2>2, <2>3, <1>1
<1>3. (b + 1) * t \in Nat
  OBVIOUS
<1> HIDE DEF x
<1>4. d + 2 <= 5 * (x + R) + 2 * B
  BY <1>1
<1>5. 4 * x + (d + (b + 1) * t) + 2 * e <= 5 * (2 * x + 2 * R) + 2 * (B - 1)
  BY <1>1, <1>2, <1>3, <1>4
<1>6. QED
  BY <1>1, <1>5

\* A commit leaves every level that still waits, or now does, paid for: with the
\* checkpoint that it may ask for.
LEMMA MergedFits ==
  ASSUME NEW A, NEW p, NEW r, NEW w, NEW v, NEW D, NEW B \in Nat \ {0}, NEW e \in {0, 1}, NEW i \in Level,
         Descends(A, p), IsMerged(p, r, i), ChargesStay(w, p), IsDebt(D, A, p, w), AllFit(A, p, w, D, 0, B),
         i + 1 \in Level, p[i].kind = "two", p[i + 1].kind # "two", Since(A, p, i) < RunMass[i],
         \A j \in Level : p[j].kind = "two" => i <= j,
         SpentOf(v, i) = 0, \A k \in Level : k # i => SpentOf(v, k) = SpentOf(w, k),
         Rate(i) >= 0
  PROVE  \E C : IsDebt(C, A, r, v) /\ AllFit(A, r, v, C, e, B - 1)
<1> USE RuntimeAssumption
<1> DEFINE t == 2 * SpentOf(w, i) - 2 * (PerRecord * RunMass[i])
           C == [k \in 0..Levels |-> IF k <= i THEN D[k] ELSE D[k] + t]
<1>1. /\ i \in 0..Levels /\ i + 1 \in 0..Levels /\ i \in Nat
      /\ LocalBound * RunMass[i] \in Nat /\ PerRecord * RunMass[i] \in Nat
      /\ SpentOf(w, i) \in Nat /\ SpentOf(w, i) <= LocalBound * RunMass[i] - 1
      /\ D[i] \in Nat /\ D[i + 1] \in Nat /\ Since(A, p, i) \in Nat /\ Since(A, p, i + 1) \in Nat
      /\ RunMass[i] \in Nat \ {0} /\ RunMass[i + 1] = 2 * RunMass[i] /\ Rate(i) \in Int
  BY AccountTyped
<1>2. PerRecord * RunMass[i] = LocalBound * RunMass[i] + RunMass[i]
  BY <1>1 DEF PerRecord
<1>3. t \in Int /\ t <= -4
  <2> HIDE DEF SpentOf
  <2>1. QED
    BY <1>1, <1>2
<1>4. /\ r[i].kind # "two" /\ Since(A, r, i + 1) = Since(A, p, i)
      /\ r[i + 1].kind = "two" <=> p[i + 1].kind = "one"
      /\ \A j \in 0..Levels : /\ j # i + 1 => Since(A, r, j) = Since(A, p, j)
                              /\ j # i /\ j # i + 1 => (r[j].kind = "two" <=> p[j].kind = "two")
  BY DEF IsMerged, Since
<1>5. SpentOf(w, i + 1) = 0
  BY DEF ChargesStay
<1>6. D[i + 1] + t = D[i] + PerRecord * Since(A, p, i)
  <2>1. Since(A, p, i + 1) = Since(A, p, i) + 2 * RunMass[i]
    <3>1. p[i].end = p[i + 1].end + 2 * RunMass[i]
      BY DEF Descends
    <3>2. A \in Nat /\ p[i].end \in Nat /\ p[i + 1].end \in Nat
      BY <1>1, Zenon DEF Descends
    <3>3. QED
      BY <3>1, <3>2, <1>1 DEF Since
  <2>2. \A a, b, c \in Nat : a * (b + 2 * c) = a * b + 2 * (a * c) /\ a * b \in Nat
    OBVIOUS
  <2>3. PerRecord \in Nat
    BY DEF PerRecord
  <2>4. /\ PerRecord * Since(A, p, i + 1) = PerRecord * Since(A, p, i) + 2 * (PerRecord * RunMass[i])
        /\ PerRecord * Since(A, p, i) \in Nat
    <3> HIDE DEF Since, PerRecord
    <3>1. QED
      BY <2>1, <2>2, <2>3, <1>1
  <2>5. D[i + 1] = D[i] + PerRecord * Since(A, p, i + 1) - 2 * SpentOf(w, i)
    BY DEF IsDebt
  <2> HIDE DEF SpentOf, Since, PerRecord
  <2>6. QED
    BY <2>4, <2>5, <1>1
<1> HIDE DEF t
<1>7. IsDebt(C, A, r, v)
  <2>1. D \in [0..Levels -> Int] /\ D[0] = 0
    BY DEF IsDebt
  <2>2. C \in [0..Levels -> Int] /\ C[0] = 0
    <3>1. C \in [0..Levels -> Int]
      BY <1>3, <2>1
    <3>2. 0 <= i /\ 0 \in 0..Levels
      BY <1>1
    <3> HIDE DEF t
    <3>3. C[0] = D[0]
      BY <3>2
    <3>4. QED
      BY <2>1, <3>1, <3>3
  <2>3. ASSUME NEW k \in Level
        PROVE  C[k + 1] = C[k] + PerRecord * Since(A, r, k + 1) - 2 * SpentOf(v, k)
    <3>1. /\ k \in 0..Levels /\ k + 1 \in 0..Levels /\ k \in Nat /\ SpentOf(w, k) \in Nat
          /\ Since(A, p, k + 1) \in Nat /\ D[k] \in Int
      BY AccountTyped
    <3>2. D[k + 1] = D[k] + PerRecord * Since(A, p, k + 1) - 2 * SpentOf(w, k)
      BY DEF IsDebt
    <3>3. PerRecord * Since(A, p, k + 1) \in Int /\ PerRecord * Since(A, p, i) \in Int
      <4>1. \A a, b \in Nat : a * b \in Int
        OBVIOUS
      <4>2. PerRecord \in Nat
        BY DEF PerRecord
      <4>3. QED
        BY <4>1, <4>2, <3>1, <1>1
    <3>4. CASE k < i
      <4>1. C[k + 1] = D[k + 1] /\ C[k] = D[k] /\ SpentOf(v, k) = SpentOf(w, k) /\ k + 1 # i + 1
        BY <3>4, <3>1, <1>1
      <4>2. Since(A, r, k + 1) = Since(A, p, k + 1)
        BY <4>1, <3>1, <1>4
      <4>3. QED
        BY <4>1, <4>2, <3>2
    <3>5. CASE k = i
      <4>1. C[k + 1] = D[i + 1] + t /\ C[k] = D[i] /\ SpentOf(v, k) = 0
        BY <3>5, <3>1, <1>1
      <4>2. Since(A, r, k + 1) = Since(A, p, i)
        BY <1>4, <3>5
      <4> DEFINE x == PerRecord * Since(A, p, i)
      <4>3. C[k + 1] = C[k] + x - 2 * SpentOf(v, k)
        <5> HIDE DEF SpentOf
        <5>1. D[i + 1] + t = D[i] + x /\ x \in Int /\ D[i] \in Int
          BY <1>6, <3>3, <1>1
        <5> HIDE DEF x, C
        <5>2. QED
          BY <5>1, <4>1
      <4>4. QED
        BY <4>2, <4>3
    <3>6. CASE k > i
      <4>1. C[k + 1] = D[k + 1] + t /\ C[k] = D[k] + t /\ SpentOf(v, k) = SpentOf(w, k) /\ k + 1 # i + 1
        BY <3>6, <3>1, <1>1
      <4>2. Since(A, r, k + 1) = Since(A, p, k + 1)
        BY <4>1, <3>1, <1>4
      <4> DEFINE x == PerRecord * Since(A, p, k + 1)
      <4>3. C[k + 1] = C[k] + x - 2 * SpentOf(v, k)
        <5>1. D[k + 1] = D[k] + x - 2 * SpentOf(w, k) /\ x \in Int
          BY <3>2, <3>3
        <5> HIDE DEF SpentOf, x, C
        <5>2. QED
          BY <5>1, <4>1, <3>1, <1>3
      <4>4. QED
        BY <4>2, <4>3
    <3>7. QED
      BY <3>4, <3>5, <3>6, <3>1, <1>1
  <2> HIDE DEF C
  <2>4. QED
    BY <2>2, <2>3 DEF IsDebt
<1>8. ASSUME NEW j \in Level, r[j].kind = "two", j # i + 1 PROVE Fits(A, r, v, C, e, B - 1, j)
  <2>1. /\ j \in 0..Levels /\ j \in Nat /\ LocalBound * RunMass[j] \in Nat /\ PerRecord * RunMass[j] \in Nat
        /\ SpentOf(w, j) \in Nat /\ D[j] \in Int /\ Rate(j) \in Int /\ Since(A, p, j) \in Nat
    BY AccountTyped
  <2>2. p[j].kind = "two" /\ i < j /\ j # 0 /\ Since(A, r, j) = Since(A, p, j) /\ SpentOf(v, j) = SpentOf(w, j)
    BY <1>1, <1>4, <1>8, <2>1
  <2>3. Fits(A, p, w, D, 0, B, j)
    BY <2>2 DEF AllFit
  <2>4. C[j] = D[j] + t
    BY <2>1, <2>2, <1>1
  <2> HIDE DEF C
  <2>5. PICK m \in 0..(RunMass[j - 1] - 1) :
          /\ m <= Since(A, p, j)
          /\ Demand(A, p, w, D, 0, j, m) <= 5 * (PerRecord * RunMass[j]) + 2 * B
    BY <2>2, <2>3 DEF Fits
  <2> DEFINE x == Rate(j) * (Since(A, p, j) - m)
             y == LocalBound * RunMass[j]
             z == PerRecord * RunMass[j]
  <2>6. x \in Int /\ y \in Int /\ z \in Int
    <3>1. \A a, b \in Int : a * b \in Int
      OBVIOUS
    <3>2. Since(A, p, j) - m \in Int
      BY <2>1
    <3>3. QED
      BY <3>1, <3>2, <2>1
  <2>7. 2 * (y - SpentOf(w, j)) + D[j] + 2 * 0 + x <= 5 * z + 2 * B
    BY <2>5 DEF Demand
  <2> HIDE DEF x, y, z
  <2>8. 2 * (y - SpentOf(v, j)) + C[j] + 2 * e + x <= 5 * z + 2 * (B - 1)
    <3> HIDE DEF SpentOf
    <3>1. QED
      BY <2>1, <2>2, <2>4, <2>6, <2>7, <1>3
  <2>9. Demand(A, r, v, C, e, j, m) <= 5 * (PerRecord * RunMass[j]) + 2 * (B - 1)
    BY <2>8, <2>2 DEF Demand, x, y, z
  <2>10. QED
    BY <2>5, <2>9, <2>2 DEF Fits
<1>9. ASSUME r[i + 1].kind = "two" PROVE Fits(A, r, v, C, e, B - 1, i + 1)
  <2> DEFINE m == Since(A, p, i)
             b == LocalBound
             R == RunMass[i]
  <2>1. m \in Nat /\ m <= R - 1 /\ m \in 0..(R - 1) /\ i + 1 # 0 /\ (i + 1) - 1 = i
    BY <1>1
  <2>2. C[i + 1] = D[i] + PerRecord * m /\ SpentOf(v, i + 1) = 0 /\ Since(A, r, i + 1) = m
    BY <1>1, <1>4, <1>5, <1>6
  <2>3. D[i] + 2 <= 5 * ((b + 1) * R) + 2 * B
    <3>1. Fits(A, p, w, D, 0, B, i)
      BY DEF AllFit
    <3>2. CASE i = 0
      <4>1. D[i] = 0
        BY <3>2 DEF IsDebt
      <4>2. PerRecord * R \in Nat /\ PerRecord * R >= 0
        BY <1>1
      <4>3. QED
        BY <4>1, <4>2 DEF PerRecord
    <3>3. CASE i # 0
      <4>1. PICK n \in 0..(RunMass[i - 1] - 1) :
              /\ n <= Since(A, p, i)
              /\ Demand(A, p, w, D, 0, i, n) <= 5 * (PerRecord * RunMass[i]) + 2 * B
        BY <3>1, <3>3 DEF Fits
      <4> DEFINE x == Rate(i) * (Since(A, p, i) - n)
      <4>2. x \in Nat
        <5>1. \A a, c \in Nat : a * c \in Nat
          OBVIOUS
        <5>2. Since(A, p, i) - n \in Nat /\ Rate(i) \in Nat
          BY <4>1, <1>1
        <5>3. QED
          BY <5>1, <5>2
      <4>3. 2 * (LocalBound * RunMass[i] - SpentOf(w, i)) + D[i] + 2 * 0 + x <= 5 * (PerRecord * RunMass[i]) + 2 * B
        BY <4>1 DEF Demand
      <4> DEFINE y == LocalBound * RunMass[i]
                 z == PerRecord * RunMass[i]
      <4>4. D[i] + 2 <= 5 * z + 2 * B
        <5>1. y \in Nat /\ z \in Nat /\ SpentOf(w, i) <= y - 1 /\ SpentOf(w, i) \in Nat /\ D[i] \in Nat
              /\ 2 * (y - SpentOf(w, i)) + D[i] + 2 * 0 + x <= 5 * z + 2 * B
          BY <1>1, <4>3
        <5> HIDE DEF x, y, z, SpentOf
        <5>2. QED
          BY <5>1, <4>2
      <4>5. QED
        BY <4>4 DEF PerRecord
    <3>4. QED
      BY <3>2, <3>3
  <2>4. 2 * (b * (2 * R)) + (D[i] + (b + 1) * m) + 2 * e <= 5 * ((b + 1) * (2 * R)) + 2 * (B - 1)
    <3>1. b \in Nat /\ b >= 5 /\ R \in Nat \ {0} /\ D[i] \in Int /\ B \in Int /\ SpentOf(w, i) \in Nat
          /\ SpentOf(w, i) <= b * R - 1
      BY <1>1
    <3> HIDE DEF b, R, m
    <3>2. QED
      BY <3>1, <2>1, <2>3, MergedAccount
  <2>5. Rate(i + 1) * (m - m) = 0
    <3>1. Rate(i + 1) \in Int
      BY AccountTyped
    <3>2. QED
      BY <3>1, <2>1
  <2>6. Demand(A, r, v, C, e, i + 1, m) = 2 * (b * (2 * R)) + (D[i] + (b + 1) * m) + 2 * e
    <3>1. Demand(A, r, v, C, e, i + 1, m)
            = 2 * (b * (2 * R) - 0) + (D[i] + PerRecord * m) + 2 * e + 0
      BY <2>2, <2>5, <1>1 DEF Demand
    <3>2. b * (2 * R) \in Int /\ PerRecord * m \in Int /\ D[i] \in Int
      <4>1. \A a, c \in Nat : a * c \in Int
        OBVIOUS
      <4>2. PerRecord \in Nat /\ b \in Nat /\ 2 * R \in Nat
        BY <1>1 DEF PerRecord
      <4>3. QED
        BY <4>1, <4>2, <2>1, <1>1
    <3> DEFINE x == b * (2 * R)
               y == PerRecord * m
    <3>3. 2 * (x - 0) + (D[i] + y) + 2 * e + 0 = 2 * x + (D[i] + y) + 2 * e
      <4> HIDE DEF x, y
      <4>1. x \in Int /\ y \in Int /\ D[i] \in Int
        BY <3>2 DEF x, y
      <4>2. QED
        BY <4>1
    <3>4. QED
      BY <3>1, <3>3 DEF PerRecord
  <2>7. Demand(A, r, v, C, e, i + 1, m) <= 5 * (PerRecord * RunMass[i + 1]) + 2 * (B - 1)
    BY <2>4, <2>6, <1>1 DEF PerRecord
  <2> HIDE DEF m, C
  <2>8. m \in 0..(RunMass[(i + 1) - 1] - 1) /\ m <= Since(A, r, i + 1)
    BY <2>1, <2>2
  <2>9. QED
    BY <2>1, <2>7, <2>8 DEF Fits
<1> HIDE DEF C
<1>10. AllFit(A, r, v, C, e, B - 1)
  BY <1>8, <1>9 DEF AllFit
<1>11. QED
  BY <1>7, <1>10

\* At a rate of three halves or more, a record pays ten times its share at every
\* level above the first.
LEMMA RateIs ==
  ASSUME HalfRate >= 3, NEW j \in Nat
  PROVE  Rate(j) \in Nat /\ (j # 0 => Rate(j) >= 10 * PerRecord)
<1> USE RuntimeAssumption
<1>1. PICK h \in Nat : HalfRate = 3 + h
  <2>1. HalfRate - 3 \in Nat /\ HalfRate = 3 + (HalfRate - 3)
    OBVIOUS
  <2>2. QED
    BY <2>1
<1>2. PICK b \in Nat : LocalBound = 5 + b
  <2>1. LocalBound - 5 \in Nat /\ LocalBound = 5 + (LocalBound - 5)
    OBVIOUS
  <2>2. QED
    BY <2>1
<1>3. \A x, y, z \in Nat : x * y \in Nat /\ x * y * z \in Nat
  OBVIOUS
<1>4. Rate(j) = (3 + h) * (5 + b) * (j + 4) - 1 - (6 + b) * j
  BY <1>1, <1>2 DEF Rate, PerRecord
<1>5. (3 + h) * (5 + b) * (j + 4) = 3 * (5 + b) * (j + 4) + h * (5 + b) * (j + 4)
  OBVIOUS
<1>6. h * (5 + b) * (j + 4) \in Nat
  <2>1. 5 + b \in Nat /\ j + 4 \in Nat
    OBVIOUS
  <2>2. QED
    BY <2>1, <1>3
<1>7. 3 * (5 + b) * (j + 4) - 1 - (6 + b) * j = 9 * j + 2 * (b * j) + 12 * b + 59
  OBVIOUS
<1>8. b * j \in Nat
  BY <1>3
<1> DEFINE x == h * (5 + b) * (j + 4)
           y == b * j
<1>9. Rate(j) = 9 * j + 2 * y + 12 * b + 59 + x
  <2>1. Rate(j) = 3 * (5 + b) * (j + 4) + x - 1 - (6 + b) * j
    BY <1>4, <1>5
  <2> DEFINE u == 3 * (5 + b) * (j + 4)
             v == (6 + b) * j
  <2>2. u \in Int /\ v \in Int /\ u - 1 - v = 9 * j + 2 * y + 12 * b + 59
    BY <1>7
  <2>3. Rate(j) = u + x - 1 - v /\ x \in Int /\ y \in Int
    BY <2>1, <1>6, <1>8
  <2> HIDE DEF u, v, x, y
  <2>4. QED
    BY <2>2, <2>3
<1>10. x \in Nat /\ y \in Nat
  BY <1>6, <1>8
<1> HIDE DEF x, y
<1>11. Rate(j) \in Nat /\ (j # 0 => Rate(j) >= 60 + 10 * b)
  BY <1>9, <1>10
<1>12. 10 * PerRecord = 60 + 10 * b
  BY <1>2 DEF PerRecord
<1>13. QED
  BY <1>11, <1>12

\* The budget grows with the bits of the records admitted.
LEMMA BudgetCovers ==
  ASSUME NEW n \in Nat, n <= MaxAdmissions, NEW k \in 0..Levels, RunMass[k] <= n
  PROVE  2 * service_budget(n) >= HalfRate * LocalBound * (k + 3) - 1
<1> USE RuntimeAssumption
<1> DEFINE w == BitWidth(n)
<1>1. w \in 0..Levels /\ n < RunMass[w]
  BY BitWidthIs
<1> HIDE DEF w
<1>2. w >= k + 1
  <2>1. w <= k => RunMass[w] <= RunMass[k]
    BY <1>1, RunMassGrows
  <2>2. RunMass[w] \in Nat /\ RunMass[k] \in Nat
    BY <1>1, RunMassIs
  <2>3. QED
    BY <1>1, <2>1, <2>2
<1>3. \A x \in Nat : x \div 2 \in Nat /\ 2 * (x \div 2) >= x - 1
  OBVIOUS
<1> DEFINE K == HalfRate * LocalBound
<1>4. K \in Nat
  <2>1. \A x, y \in Nat : x * y \in Nat
    OBVIOUS
  <2>2. QED
    BY <2>1
<1>5. service_budget(n) = (K * (w + 2)) \div 2
  BY DEF service_budget, w
<1> HIDE DEF K
<1>6. K * (w + 2) \in Nat /\ K * (w + 2) >= K * (k + 3) /\ K * (k + 3) \in Nat
  <2>1. PICK u \in Nat : w + 2 = (k + 3) + u
    <3>1. w - (k + 1) \in Nat /\ w + 2 = (k + 3) + (w - (k + 1))
      BY <1>1, <1>2
    <3>2. QED
      BY <3>1
  <2>2. k \in Nat
    OBVIOUS
  <2>3. K * ((k + 3) + u) = K * (k + 3) + K * u
    BY <1>4, <2>2
  <2>4. \A x, y \in Nat : x * y \in Nat
    OBVIOUS
  <2>5. K * u \in Nat /\ K * (k + 3) \in Nat
    BY <1>4, <2>2, <2>4
  <2> HIDE DEF BitWidth
  <2>6. QED
    BY <2>1, <2>3, <2>5
<1> DEFINE a == K * (w + 2)
           c == K * (k + 3)
<1>7. a \in Nat /\ a >= c /\ c \in Nat /\ service_budget(n) = a \div 2
  BY <1>5, <1>6
<1> HIDE DEF a, c
<1>8. 2 * service_budget(n) >= c - 1
  BY <1>3, <1>7
<1>9. QED
  BY <1>8 DEF c, K

\* A level that is paid for is, while fewer records came since than its runs have.
LEMMA RoomRemains ==
  ASSUME HalfRate >= 3, NEW A, NEW p, NEW w, NEW D,
         Descends(A, p), ChargesStay(w, p), IsDebt(D, A, p, w), NEW j \in Level, j # 0, Fits(A, p, w, D, 0, 0, j)
  PROVE  Since(A, p, j) + 1 < RunMass[j]
<1> USE RuntimeAssumption
<1>1. /\ j \in Nat /\ LocalBound * RunMass[j] \in Nat /\ PerRecord * RunMass[j] \in Nat
      /\ SpentOf(w, j) \in Nat /\ SpentOf(w, j) <= LocalBound * RunMass[j] - 1 /\ D[j] \in Nat
      /\ Since(A, p, j) \in Nat
  BY AccountTyped
<1>2. Rate(j) \in Nat /\ Rate(j) >= 10 * PerRecord /\ PerRecord \in Nat
  BY <1>1, RateIs DEF PerRecord
<1>3. j - 1 \in 0..Levels /\ RunMass[j - 1] \in Nat \ {0} /\ RunMass[j] = 2 * RunMass[j - 1]
  <2>1. j - 1 \in Level /\ j - 1 \in 0..Levels /\ (j - 1) + 1 = j
    BY DEF Level
  <2>2. QED
    BY <2>1, RunMassIs
<1>4. PICK m \in 0..(RunMass[j - 1] - 1) :
        /\ m <= Since(A, p, j)
        /\ Demand(A, p, w, D, 0, j, m) <= 5 * (PerRecord * RunMass[j]) + 2 * 0
  BY DEF Fits
<1> DEFINE R == RunMass[j - 1]
           u == Since(A, p, j) - m
           z == PerRecord * R
           x == Rate(j) * u
           y == LocalBound * RunMass[j]
<1>5. u \in Nat /\ m \in Nat /\ m <= R - 1 /\ R \in Nat
  BY <1>1, <1>3, <1>4
<1>6. x \in Nat /\ z \in Nat
  <2>1. \A a, b \in Nat : a * b \in Nat
    OBVIOUS
  <2> HIDE DEF R, u, PerRecord
  <2>2. QED
    BY <2>1, <1>2, <1>5
<1>7. PerRecord * RunMass[j] = 2 * z
  <2> HIDE DEF PerRecord
  <2>1. \A a, b \in Nat : a * (2 * b) = 2 * (a * b)
    OBVIOUS
  <2>2. QED
    BY <2>1, <1>2, <1>3
<1>8. 2 * (y - SpentOf(w, j)) + D[j] + 2 * 0 + x <= 5 * (2 * z) + 2 * 0
  BY <1>4, <1>7 DEF Demand
<1>9. x < 10 * z
  <2>1. y \in Nat /\ SpentOf(w, j) <= y - 1 /\ SpentOf(w, j) \in Nat /\ D[j] \in Nat
    BY <1>1
  <2> HIDE DEF x, y, z, SpentOf
  <2>2. QED
    BY <2>1, <1>6, <1>8
<1>10. u < R
  <2> SUFFICES ASSUME u >= R PROVE FALSE
    BY <1>5
  <2>1. \A a, b, c, d \in Nat : a >= 10 * b /\ c >= d => a * c >= 10 * (b * d)
    <3> TAKE a, b, c, d \in Nat
    <3> HAVE a >= 10 * b /\ c >= d
    <3>1. PICK e \in Nat : a = 10 * b + e
      <4>1. a - 10 * b \in Nat /\ a = 10 * b + (a - 10 * b)
        OBVIOUS
      <4>2. QED
        BY <4>1
    <3>2. PICK g \in Nat : c = d + g
      <4>1. c - d \in Nat /\ c = d + (c - d)
        OBVIOUS
      <4>2. QED
        BY <4>1
    <3>3. a * c = 10 * (b * d) + 10 * (b * g) + e * d + e * g
      BY <3>1, <3>2
    <3>4. b * d \in Nat /\ b * g \in Nat /\ e * d \in Nat /\ e * g \in Nat
      OBVIOUS
    <3>5. QED
      BY <3>3, <3>4
  <2> HIDE DEF PerRecord, R, u, x, z
  <2>2. Rate(j) * u >= 10 * (PerRecord * R)
    BY <2>1, <1>2, <1>5
  <2>3. x >= 10 * z
    BY <2>2 DEF x, z
  <2>4. QED
    BY <2>3, <1>6, <1>9
<1>11. Since(A, p, j) = m + u
  BY <1>1, <1>5
<1>12. QED
  BY <1>3, <1>5, <1>10, <1>11

\* A record is admitted when the account is even: the levels that wait then have
\* room for it, and its budget pays for what they now owe and for its own merge.
LEMMA AdmittedFits ==
  ASSUME HalfRate >= 3, NEW A, NEW p, NEW w, NEW D, NEW r, NEW G \in Int,
         Descends(A, p), ChargesStay(w, p), IsDebt(D, A, p, w), AllFit(A, p, w, D, 0, 0),
         Descends(A + 1, r), \A i \in 1..Levels : r[i] = p[i], p[0].kind # "two",
         A + 1 <= MaxAdmissions, G >= service_budget(A + 1)
  PROVE  /\ \E C : IsDebt(C, A + 1, r, w) /\ AllFit(A + 1, r, w, C, 0, G)
         /\ \A j \in Level : r[j].kind = "two" => Since(A + 1, r, j) < RunMass[j]
<1> USE RuntimeAssumption
<1> DEFINE C == [k \in 0..Levels |-> D[k] + PerRecord * k]
           K == HalfRate * LocalBound
<1>1. A \in Nat /\ PerRecord \in Nat /\ K \in Nat /\ K >= 3 * LocalBound
  <2>1. PICK h \in Nat : HalfRate = 3 + h
    <3>1. HalfRate - 3 \in Nat /\ HalfRate = 3 + (HalfRate - 3)
      OBVIOUS
    <3>2. QED
      BY <3>1
  <2>2. (3 + h) * LocalBound = 3 * LocalBound + h * LocalBound
    OBVIOUS
  <2>3. \A x, y \in Nat : x * y \in Nat
    OBVIOUS
  <2>4. h * LocalBound \in Nat
    BY <2>3
  <2>5. A \in Nat
    BY DEF Descends
  <2>6. QED
    BY <2>1, <2>2, <2>4, <2>5 DEF PerRecord
<1>2. service_budget(A + 1) \in Nat
  BY <1>1, BudgetType
<1>3. ASSUME NEW j \in 1..Levels PROVE Since(A + 1, r, j) = Since(A, p, j) + 1 /\ r[j] = p[j]
  <2>1. r[j].end = p[j].end /\ p[j].end \in Nat
    <3>1. j \in 0..Levels /\ r[j] = p[j]
      OBVIOUS
    <3>2. QED
      BY <3>1, Zenon DEF Descends
  <2>2. QED
    BY <1>1, <2>1 DEF Since
<1>4. IsDebt(C, A + 1, r, w)
  <2>1. D \in [0..Levels -> Int] /\ D[0] = 0
    BY DEF IsDebt
  <2>2. \A k \in Nat : PerRecord * k \in Nat
    <3>1. \A x, y \in Nat : x * y \in Nat
      OBVIOUS
    <3>2. QED
      BY <1>1, <3>1
  <2>3. C \in [0..Levels -> Int] /\ C[0] = 0
    <3>1. \A k \in 0..Levels : D[k] + PerRecord * k \in Int
      <4> TAKE k \in 0..Levels
      <4>1. PerRecord * k \in Nat /\ D[k] \in Int
        <5>1. k \in Nat
          OBVIOUS
        <5>2. QED
          BY <5>1, <2>1, <2>2
      <4>2. QED
        BY <4>1
    <3>2. PerRecord * 0 = 0
      BY <1>1
    <3>3. QED
      BY <2>1, <3>1, <3>2
  <2>4. ASSUME NEW k \in Level
        PROVE  C[k + 1] = C[k] + PerRecord * Since(A + 1, r, k + 1) - 2 * SpentOf(w, k)
    <3>1. /\ k \in 0..Levels /\ k + 1 \in 1..Levels /\ k + 1 \in 0..Levels /\ k \in Nat /\ SpentOf(w, k) \in Nat
          /\ Since(A, p, k + 1) \in Nat /\ D[k] \in Int
      BY AccountTyped DEF Level
    <3>2. D[k + 1] = D[k] + PerRecord * Since(A, p, k + 1) - 2 * SpentOf(w, k)
      BY DEF IsDebt
    <3>3. Since(A + 1, r, k + 1) = Since(A, p, k + 1) + 1
      BY <1>3, <3>1
    <3>4. \A a, b, c \in Nat : a * (b + 1) = a * b + a /\ a * b \in Nat
      OBVIOUS
    <3>5. C[k + 1] = D[k + 1] + PerRecord * (k + 1) /\ C[k] = D[k] + PerRecord * k
      BY <3>1
    <3> DEFINE s == Since(A, p, k + 1)
               x == PerRecord * s
               y == PerRecord * k
    <3>6. PerRecord * (k + 1) = y + PerRecord /\ PerRecord * (s + 1) = x + PerRecord /\ x \in Nat /\ y \in Nat
      <4> HIDE DEF PerRecord, s
      <4>1. s \in Nat
        BY <3>1 DEF s
      <4>2. QED
        BY <4>1, <3>1, <3>4, <1>1
    <3>7. D[k + 1] = D[k] + x - 2 * SpentOf(w, k)
      BY <3>2
    <3>8. C[k + 1] = C[k] + PerRecord * (s + 1) - 2 * SpentOf(w, k)
      <4>1. C[k + 1] = D[k + 1] + (y + PerRecord) /\ C[k] = D[k] + y
        BY <3>5, <3>6
      <4> HIDE DEF x, y, s, PerRecord, SpentOf, C
      <4>2. QED
        BY <4>1, <3>1, <3>6, <3>7, <1>1
    <3>9. QED
      BY <3>3, <3>8
  <2> HIDE DEF C
  <2>5. QED
    BY <2>3, <2>4 DEF IsDebt
<1>5. ASSUME NEW j \in Level, r[j].kind = "two", j # 0
      PROVE  Fits(A + 1, r, w, C, 0, G, j) /\ Since(A + 1, r, j) < RunMass[j]
  <2>1. /\ j \in 0..Levels /\ j + 1 \in 0..Levels /\ j \in Nat /\ LocalBound * RunMass[j] \in Nat /\ PerRecord * RunMass[j] \in Nat
        /\ SpentOf(w, j) \in Nat /\ D[j] \in Int /\ Rate(j) \in Int /\ Since(A, p, j) \in Nat
        /\ RunMass[j] \in Nat \ {0} /\ RunMass[j + 1] = 2 * RunMass[j] /\ p[j].end \in Nat /\ p[j].end <= A
    BY AccountTyped
  <2>2. Since(A + 1, r, j) = Since(A, p, j) + 1 /\ p[j].kind = "two" /\ C[j] = D[j] + PerRecord * j
    <3>1. j \in 1..Levels
      BY <2>1, <1>5
    <3>2. QED
      BY <1>3, <1>5, <3>1, <2>1
  <2> HIDE DEF C
  <2>3. Fits(A, p, w, D, 0, 0, j)
    BY <2>2 DEF AllFit
  <2>4. Since(A, p, j) + 1 < RunMass[j]
    BY <1>5, <2>3, RoomRemains
  <2>5. PICK m \in 0..(RunMass[j - 1] - 1) :
          /\ m <= Since(A, p, j)
          /\ Demand(A, p, w, D, 0, j, m) <= 5 * (PerRecord * RunMass[j]) + 2 * 0
    BY <2>3, <1>5 DEF Fits
  <2>6. 2 * G >= K * (j + 4) - 1
    <3>1. RunMass[j + 1] <= A + 1
      <4>1. p[j].end = p[j + 1].end + 2 * RunMass[j] /\ p[j + 1].end \in Nat
        BY <2>1, <2>2, Zenon DEF Descends
      <4>2. QED
        BY <4>1, <2>1, <1>1
    <3>2. 2 * service_budget(A + 1) >= HalfRate * LocalBound * ((j + 1) + 3) - 1
      BY <3>1, <2>1, <1>1, BudgetCovers
    <3>3. (j + 1) + 3 = j + 4
      BY <2>1
    <3> DEFINE x == K * (j + 4)
    <3>4. x \in Nat
      <4>1. \A a, b \in Nat : a * b \in Nat
        OBVIOUS
      <4>2. QED
        BY <4>1, <2>1, <1>1
    <3>5. 2 * service_budget(A + 1) >= x - 1
      BY <3>2, <3>3
    <3> HIDE DEF x, service_budget
    <3>6. 2 * G >= x - 1
      BY <3>4, <3>5, <1>2
    <3>7. QED
      BY <3>6 DEF x
  <2> DEFINE u == Since(A, p, j) - m
             x == Rate(j) * u
             y == LocalBound * RunMass[j]
             z == PerRecord * RunMass[j]
             g == PerRecord * j
             k == K * (j + 4)
  <2>7. u \in Int /\ x \in Int /\ y \in Int /\ z \in Int /\ g \in Int /\ k \in Int
    <3>1. \A a, b \in Int : a * b \in Int
      OBVIOUS
    <3>2. u \in Int
      BY <2>1
    <3> HIDE DEF u
    <3>3. QED
      BY <3>1, <3>2, <2>1, <1>1
  <2>8. 2 * (y - SpentOf(w, j)) + D[j] + 2 * 0 + x <= 5 * z + 2 * 0
    BY <2>5 DEF Demand
  <2>9. Rate(j) = k - 1 - g /\ 2 * G >= k - 1
    BY <2>6 DEF Rate
  <2>10. Rate(j) * ((Since(A, p, j) + 1) - m) = x + Rate(j)
    <3>1. (Since(A, p, j) + 1) - m = u + 1
      BY <2>1
    <3>2. \A a, b \in Int : a * (b + 1) = a * b + a
      OBVIOUS
    <3> HIDE DEF u
    <3>3. QED
      BY <3>1, <3>2, <2>1, <2>7
  <2>11. 2 * (y - SpentOf(w, j)) + (D[j] + g) + 2 * 0 + (x + Rate(j)) <= 5 * z + 2 * G
    <3> HIDE DEF u, x, y, z, g, k, SpentOf, Rate
    <3>1. QED
      BY <2>1, <2>7, <2>8, <2>9
  <2>12. Demand(A + 1, r, w, C, 0, j, m) <= 5 * (PerRecord * RunMass[j]) + 2 * G
    BY <2>2, <2>10, <2>11 DEF Demand
  <2>13. m <= Since(A + 1, r, j)
    BY <2>1, <2>2, <2>5
  <2> HIDE DEF u, x, y, z, g, k
  <2>14. QED
    BY <2>2, <2>4, <2>5, <2>12, <2>13, <1>5 DEF Fits
<1>6. ASSUME r[0].kind = "two" PROVE Fits(A + 1, r, w, C, 0, G, 0) /\ Since(A + 1, r, 0) < RunMass[0]
  <2>1. SpentOf(w, 0) = 0 /\ 0 \in Level
    BY DEF ChargesStay, Level
  <2>2. RunMass[0] = 1 /\ RunMass[1] = 2 /\ 0 \in 0..Levels /\ 1 \in 0..Levels
    BY <2>1, RunMassIs
  <2>3. A + 1 = r[0].end /\ r[0].end = r[0 + 1].end + 2 * RunMass[0] /\ r[1].end \in Nat
    BY <2>1, <2>2, <1>6, Zenon DEF Descends
  <2>4. RunMass[1] <= A + 1
    BY <2>2, <2>3
  <2>5. 2 * service_budget(A + 1) >= HalfRate * LocalBound * (1 + 3) - 1
    BY <2>2, <2>4, <1>1, BudgetCovers
  <2>6. LocalBound <= G
    <3>1. HalfRate * LocalBound * (1 + 3) = 4 * K
      BY <1>1
    <3> HIDE DEF K
    <3>2. 2 * service_budget(A + 1) >= 4 * K - 1
      BY <3>1, <2>5
    <3> HIDE DEF service_budget
    <3>3. QED
      BY <3>2, <1>1, <1>2
  <2>7. Since(A + 1, r, 0) = 0
    BY <2>3, <1>1 DEF Since
  <2>8. QED
    BY <2>1, <2>2, <2>6, <2>7 DEF Fits
<1> HIDE DEF C
<1>7. QED
  BY <1>4, <1>5, <1>6 DEF AllFit

-----------------------------------------------------------------------------
(* The schedule: what every reachable state of the executor keeps             *)

\* What a worker was charged leaves enough for the stages that remain.
ChargesFit(w, f) ==
  /\ DOMAIN w = Working(f)
  /\ \A i \in Working(f) : w[i] \in Nat /\ w[i] + Remaining(f.jobs[i]) <= LocalBound * RunMass[i]

\* What restore asks of a checkpoint.
InOrder(f) ==
  /\ \E p : IsWhole(f, p) /\ IsRegular(f, p)
  /\ f.service_due <= service_budget(f.admissions)
  /\ Unsafe(f) = {} => f.service_due = 0

CheckpointDue == IF checkpoint_pending THEN 1 ELSE 0

(* The levels have room, and outside recovery the account covers them.        *)
OnSchedule ==
  \E p, D : /\ IsWhole(frontier, p) /\ IsRegular(frontier, p)
            /\ IsDebt(D, frontier.admissions, p, charged)
            /\ ~recovery => AllFit(frontier.admissions, p, charged, D, CheckpointDue, frontier.service_due + credit)

(* What is granted to an initial batch covers what is left of its carry chain: *)
(* one merge at a time, and a checkpoint after the first and the last.         *)
Prepaid ==
  initializing =>
    /\ recovery
    /\ Unsafe(frontier) = {} => checkpoint_pending /\ credit >= 1
    /\ \A i \in Unsafe(frontier) :
         /\ Unsafe(frontier) = {i}
         /\ credit + SpentOf(charged, i)
              >= LocalBound * (frontier.admissions - RunMass[i]) + 1 + (IF i = 0 THEN 1 ELSE 0) + CheckpointDue

IsScheduled ==
  /\ OnSchedule
  /\ Prepaid
  /\ InOrder(published)
  /\ ChargesFit(charged, frontier)
  /\ frontier.service_due <= service_budget(frontier.admissions)
  /\ checkpoint_pending => frontier.admissions # 0
  /\ credit \in Nat

\* A stage asks for one to four more steps.
LEMMA RemainingIs ==
  ASSUME NEW job \in Job
  PROVE  Remaining(job) \in 1..4
<1>1. job.stage \in Stages /\ job.new_main \in BOOLEAN
  BY DEF Job
<1>2. QED
  BY <1>1 DEF Stages, Remaining

\* What fits the jobs stays below what the levels allow.
LEMMA ChargesAreStay ==
  ASSUME NEW f, NEW p, IsLaidOut(f, p), NEW w, ChargesFit(w, f)
  PROVE  ChargesStay(w, p)
<1> USE RuntimeAssumption
<1> SUFFICES ASSUME NEW k \in Level
             PROVE  /\ SpentOf(w, k) \in Nat /\ SpentOf(w, k) <= LocalBound * RunMass[k] - 1
                    /\ SpentOf(w, k) # 0 => p[k].kind = "two"
  BY DEF ChargesStay
<1>1. LocalBound * RunMass[k] \in Nat /\ LocalBound * RunMass[k] >= LocalBound
  <2>1. RunMass[k] \in Nat \ {0}
    BY RunMassIs DEF Level
  <2>2. PICK r \in Nat : RunMass[k] = 1 + r
    <3>1. RunMass[k] - 1 \in Nat /\ RunMass[k] = 1 + (RunMass[k] - 1)
      BY <2>1
    <3>2. QED
      BY <3>1
  <2>3. LocalBound * (1 + r) = LocalBound + LocalBound * r
    OBVIOUS
  <2>4. \A a, b \in Nat : a * b \in Nat
    OBVIOUS
  <2>5. LocalBound * r \in Nat
    BY <2>4
  <2>6. QED
    BY <2>2, <2>3, <2>5
<1>2. CASE k \in Working(f)
  <2>1. p[k].kind = "two" /\ f.jobs[k] \in Job
    BY <1>2, JobAt
  <2>2. Remaining(f.jobs[k]) \in 1..4
    BY <2>1, RemainingIs
  <2>3. k \in DOMAIN w /\ w[k] \in Nat /\ w[k] + Remaining(f.jobs[k]) <= LocalBound * RunMass[k]
    BY <1>2 DEF ChargesFit
  <2> DEFINE x == LocalBound * RunMass[k]
             n == Remaining(f.jobs[k])
  <2> HIDE DEF x, n
  <2>4. w[k] <= x - 1
    <3>1. x \in Nat /\ n \in 1..4 /\ w[k] + n <= x
      BY <1>1, <2>2, <2>3 DEF x, n
    <3>2. QED
      BY <3>1, <2>3
  <2>5. QED
    BY <2>1, <2>3, <2>4 DEF SpentOf, x
<1>3. CASE k \notin Working(f)
  <2>1. SpentOf(w, k) = 0
    BY <1>3 DEF SpentOf, ChargesFit
  <2>2. QED
    BY <2>1, <1>1
<1>4. QED
  BY <1>2, <1>3

\* Where no level waits, nothing is owed and there is room.
LEMMA NothingWaits ==
  ASSUME NEW f, NEW p, IsLaidOut(f, p), Unsafe(f) = {}
  PROVE  /\ \A j \in Level : p[j].kind # "two"
         /\ IsRegular(f, p)
         /\ \A A, w, D, e, B : AllFit(A, p, w, D, e, B)
<1>1. \A j \in Level : p[j].kind # "two"
  BY UnsafeIs
<1>2. QED
  BY <1>1 DEF IsRegular, AllFit

\* The account may grow, and by what a checkpoint costs once it is made.
LEMMA EasedFits ==
  ASSUME NEW A, NEW p, NEW w, NEW D, Descends(A, p), ChargesStay(w, p), IsDebt(D, A, p, w),
         NEW e \in {0, 1}, NEW c \in {0, 1}, NEW B \in Int, NEW G \in Int,
         AllFit(A, p, w, D, e, B), G - c >= B - e
  PROVE  AllFit(A, p, w, D, c, G)
<1> SUFFICES ASSUME NEW j \in Level, p[j].kind = "two" PROVE Fits(A, p, w, D, c, G, j)
  BY DEF AllFit
<1>1. Fits(A, p, w, D, e, B, j)
  BY DEF AllFit
<1>2. /\ LocalBound * RunMass[j] \in Nat /\ PerRecord * RunMass[j] \in Nat
      /\ SpentOf(w, j) \in Nat /\ D[j] \in Nat /\ Rate(j) \in Int
      /\ Since(A, p, j) \in Nat /\ j \in Nat
  BY AccountTyped
<1>3. CASE j = 0
  <2>1. LocalBound - SpentOf(w, 0) + e <= B /\ SpentOf(w, 0) \in Nat /\ LocalBound \in Nat
    BY <1>1, <1>2, <1>3, RuntimeAssumption DEF Fits
  <2>2. LocalBound - SpentOf(w, 0) + c <= G
    <3> HIDE DEF SpentOf
    <3>1. QED
      BY <2>1
  <2>3. QED
    BY <2>2, <1>3 DEF Fits
<1>4. CASE j # 0
  <2>1. PICK m \in 0..(RunMass[j - 1] - 1) :
          /\ m <= Since(A, p, j)
          /\ Demand(A, p, w, D, e, j, m) <= 5 * (PerRecord * RunMass[j]) + 2 * B
    BY <1>1, <1>4 DEF Fits
  <2> DEFINE u == Since(A, p, j) - m
             x == Rate(j) * u
             y == LocalBound * RunMass[j]
             z == PerRecord * RunMass[j]
  <2>2. u \in Int /\ x \in Int /\ y \in Int /\ z \in Int
    <3>1. \A a, b \in Int : a * b \in Int
      OBVIOUS
    <3>2. u \in Int
      BY <1>2
    <3> HIDE DEF u
    <3>3. QED
      BY <3>1, <3>2, <1>2
  <2>3. 2 * (y - SpentOf(w, j)) + D[j] + 2 * e + x <= 5 * z + 2 * B
    BY <2>1 DEF Demand
  <2>4. 2 * (y - SpentOf(w, j)) + D[j] + 2 * c + x <= 5 * z + 2 * G
    <3> HIDE DEF u, x, y, z, SpentOf
    <3>1. QED
      BY <2>2, <2>3, <1>2
  <2>5. Demand(A, p, w, D, c, j, m) <= 5 * (PerRecord * RunMass[j]) + 2 * G
    BY <2>4 DEF Demand
  <2>6. QED
    BY <2>1, <2>5, <1>4 DEF Fits
<1>5. QED
  BY <1>3, <1>4

\* What is known of a state on schedule.
LEMMA ScheduleIs ==
  ASSUME IsScheduled
  PROVE  /\ credit \in Nat /\ CheckpointDue \in {0, 1} /\ frontier.service_due \in Nat
         /\ frontier.admissions \in Nat /\ frontier.admissions <= MaxAdmissions
         /\ \E p, D : /\ IsWhole(frontier, p) /\ IsRegular(frontier, p) /\ IsLaidOut(frontier, p)
                      /\ Descends(frontier.admissions, p) /\ ChargesStay(charged, p)
                      /\ IsDebt(D, frontier.admissions, p, charged)
                      /\ ~recovery => AllFit(frontier.admissions, p, charged, D, CheckpointDue,
                                             frontier.service_due + credit)
<1>1. PICK p, D : /\ IsWhole(frontier, p) /\ IsRegular(frontier, p)
                  /\ IsDebt(D, frontier.admissions, p, charged)
                  /\ ~recovery => AllFit(frontier.admissions, p, charged, D, CheckpointDue,
                                         frontier.service_due + credit)
  BY DEF IsScheduled, OnSchedule
<1>2. IsLaidOut(frontier, p) /\ frontier.admissions <= MaxAdmissions
  BY <1>1 DEF IsWhole
<1>3. ChargesStay(charged, p)
  BY <1>2, ChargesAreStay DEF IsScheduled
<1>4. frontier.service_due \in Nat /\ frontier.admissions \in Nat
  BY <1>2, StackOf
<1>5. QED
  BY <1>1, <1>2, <1>3, <1>4, WholeDescends DEF IsScheduled, CheckpointDue

\* Frontiers whose levels end and wait alike are as regular.
LEMMA OrderIsKept ==
  ASSUME NEW f, NEW g, NEW p, NEW r, IsLaidOut(f, p), IsLaidOut(g, r), SameOrder(p, r), f.admissions = g.admissions
  PROVE  Unsafe(g) = Unsafe(f) /\ (IsRegular(f, p) => IsRegular(g, r))
<1>1. \A j \in Level : r[j].end = p[j].end /\ (r[j].kind = "two" <=> p[j].kind = "two")
  <2>1. \A j \in Level : j \in 0..Levels
    BY RuntimeAssumption DEF Level
  <2>2. QED
    BY <2>1 DEF SameOrder
<1>2. Unsafe(f) = {j \in Level : p[j].kind = "two"} /\ Unsafe(g) = {j \in Level : r[j].kind = "two"}
  BY UnsafeIs
<1>3. IsRegular(f, p) => IsRegular(g, r)
  BY <1>1 DEF IsRegular
<1>4. QED
  BY <1>1, <1>2, <1>3

\* try_contribute keeps the schedule.
LEMMA AdmissionKeeps ==
  ASSUME HalfRate >= 3, IsScheduled, NEW allowance \in Nat, try_contribute(allowance)
  PROVE  IsScheduled'
<1> DEFINE A == frontier.admissions
<1>1. /\ credit \in Nat /\ frontier.service_due \in Nat /\ A \in Nat
      /\ ChargesFit(charged, frontier)
  BY ScheduleIs DEF IsScheduled
<1>2. PICK p, D : /\ IsWhole(frontier, p) /\ IsRegular(frontier, p) /\ IsLaidOut(frontier, p)
                  /\ Descends(A, p) /\ ChargesStay(charged, p)
                  /\ IsDebt(D, A, p, charged)
                  /\ ~recovery => AllFit(A, p, charged, D, CheckpointDue, frontier.service_due + credit)
  BY ScheduleIs
<1>3. /\ ~Serving /\ ~initializing /\ Ready(frontier) /\ A < MaxAdmissions
      /\ UNCHANGED <<charged, recovery, checkpoint_pending, initializing>>
  BY DEF try_contribute
<1>4. frontier.service_due = 0 /\ ~recovery /\ ~checkpoint_pending
  BY <1>2, <1>3, ReadyIsOpen
<1>5. PICK r : /\ IsWhole(frontier', r) /\ IsWhole(published', r)
               /\ \A i \in 1..Levels : r[i] = p[i]
               /\ p[0].kind # "two"
               /\ published'.admissions = A + 1 /\ frontier'.admissions = A + 1
               /\ Unsafe(frontier') = Unsafe(published')
               /\ Working(frontier') = Working(frontier) /\ frontier'.jobs = frontier.jobs
               /\ published'.service_due = IF Unsafe(published') = {} THEN 0 ELSE service_budget(A + 1)
               /\ frontier'.service_due = Less(published'.service_due, allowance)
               /\ credit' = IF Unsafe(frontier') = {} THEN 0 ELSE credit + allowance
  BY <1>2, AdmissionStep
<1>6. AllFit(A, p, charged, D, 0, 0)
  <2>1. CASE Unsafe(frontier) = {}
    BY <2>1, <1>2, NothingWaits
  <2>2. CASE Unsafe(frontier) # {}
    <3>1. credit = 0
      BY <2>2, <1>1, <1>3 DEF Serving, Pending
    <3>2. CheckpointDue = 0 /\ frontier.service_due + credit = 0
      BY <3>1, <1>4 DEF CheckpointDue
    <3>3. AllFit(A, p, charged, D, CheckpointDue, frontier.service_due + credit)
      BY <1>2, <1>4
    <3>4. QED
      BY <3>2, <3>3
  <2>3. QED
    BY <2>1, <2>2
<1> DEFINE budget == service_budget(A + 1)
           due == frontier'.service_due
           G == IF Unsafe(frontier') = {} THEN budget ELSE due + credit'
<1>7. A + 1 \in Nat /\ A + 1 <= MaxAdmissions /\ budget \in Nat
  <2>1. MaxAdmissions \in Nat
    BY RuntimeAssumption, RunMassIs DEF Level
  <2>2. A + 1 \in Nat /\ A + 1 <= MaxAdmissions
    BY <1>1, <1>3, <2>1
  <2>3. QED
    BY <2>2, BudgetType
<1> HIDE DEF budget
<1>8. /\ published'.service_due \in Nat /\ published'.service_due <= budget
      /\ due \in Nat /\ due <= published'.service_due
      /\ published'.service_due <= due + allowance
  <2> DEFINE paid == published'.service_due
  <2>1. paid = 0 \/ paid = budget
    BY <1>5 DEF budget
  <2>2. paid \in Nat /\ paid <= budget
    BY <2>1, <1>7
  <2>3. due = Less(paid, allowance)
    BY <1>5
  <2> HIDE DEF paid, due
  <2>4. due \in Nat /\ due <= paid /\ due + allowance >= paid
    BY <2>2, <2>3, LessIs
  <2>5. QED
    BY <2>2, <2>4 DEF paid
<1>9. G \in Int /\ G >= budget
  <2>1. CASE Unsafe(frontier') = {}
    BY <2>1, <1>7
  <2>2. CASE Unsafe(frontier') # {}
    <3>1. credit' = credit + allowance /\ published'.service_due = budget /\ G = due + credit'
      BY <2>2, <1>5 DEF budget
    <3> HIDE DEF due, G
    <3>2. QED
      BY <3>1, <1>1, <1>7, <1>8
  <2>3. QED
    BY <2>1, <2>2
<1>10. Descends(A + 1, r)
  BY <1>5, WholeDescends
<1> HIDE DEF due
<1>11. /\ \E C : IsDebt(C, A + 1, r, charged) /\ AllFit(A + 1, r, charged, C, 0, G)
       /\ \A j \in Level : r[j].kind = "two" => Since(A + 1, r, j) < RunMass[j]
  <2> HIDE DEF G, A
  <2>1. QED
    BY <1>2, <1>5, <1>6, <1>7, <1>9, <1>10, AdmittedFits DEF budget
<1>12. PICK C : IsDebt(C, A + 1, r, charged) /\ AllFit(A + 1, r, charged, C, 0, G)
  BY <1>11
<1>13. IsRegular(frontier', r) /\ IsRegular(published', r)
  BY <1>5, <1>11 DEF IsRegular, Since
<1>14. AllFit(A + 1, r, charged, C, 0, due + credit')
  <2>1. CASE Unsafe(frontier') = {}
    BY <2>1, <1>5, NothingWaits DEF IsWhole
  <2>2. CASE Unsafe(frontier') # {}
    BY <2>2, <1>12
  <2>3. QED
    BY <2>1, <2>2
<1>15. OnSchedule'
  <2>1. CheckpointDue' = 0
    BY <1>3, <1>4 DEF CheckpointDue
  <2>2. /\ IsWhole(frontier', r) /\ IsRegular(frontier', r)
        /\ IsDebt(C, frontier'.admissions, r, charged')
        /\ AllFit(frontier'.admissions, r, charged', C, CheckpointDue', frontier'.service_due + credit')
    BY <2>1, <1>3, <1>5, <1>12, <1>13, <1>14 DEF due
  <2>3. QED
    BY <2>2 DEF OnSchedule
<1>16. InOrder(published')
  <2>1. published'.service_due <= service_budget(published'.admissions)
    BY <1>5, <1>8 DEF budget
  <2>2. QED
    BY <2>1, <1>5, <1>13 DEF InOrder
<1>17. frontier'.service_due <= service_budget(frontier'.admissions)
  <2>1. due <= budget
    <3> DEFINE x == published'.service_due
    <3> HIDE DEF x
    <3>1. x \in Nat /\ x <= budget /\ due \in Nat /\ due <= x
      BY <1>8 DEF x
    <3>2. QED
      BY <3>1, <1>7
  <2>2. QED
    BY <2>1, <1>5 DEF due, budget
<1>18. credit' \in Nat
  BY <1>1, <1>5
<1>19. ChargesFit(charged', frontier')
  BY <1>1, <1>3, <1>5 DEF ChargesFit
<1>20. Prepaid' /\ ~checkpoint_pending'
  BY <1>3, <1>4 DEF Prepaid
<1>21. QED
  BY <1>15, <1>16, <1>17, <1>18, <1>19, <1>20 DEF IsScheduled

\* What is granted or closed leaves the schedule: advance, and every checkpoint.
LEMMA AccountKeeps ==
  ASSUME IsScheduled, NEW p, NEW D, IsWhole(frontier, p), IsRegular(frontier, p),
         IsDebt(D, frontier.admissions, p, charged),
         ~recovery => AllFit(frontier.admissions, p, charged, D, CheckpointDue, frontier.service_due + credit),
         IsWhole(frontier', p), frontier'.admissions = frontier.admissions, frontier'.jobs = frontier.jobs,
         frontier'.service_due <= frontier.service_due, credit' \in Nat,
         charged' = charged, ~recovery' => ~recovery \/ Unsafe(frontier) = {},
         Unsafe(frontier) = {} \/ frontier'.service_due + credit' - CheckpointDue'
                                    >= frontier.service_due + credit - CheckpointDue
  PROVE  /\ OnSchedule' /\ ChargesFit(charged', frontier')
         /\ frontier'.service_due <= service_budget(frontier'.admissions)
         /\ Unsafe(frontier') = Unsafe(frontier)
<1> DEFINE A == frontier.admissions
<1>1. /\ IsLaidOut(frontier, p) /\ IsLaidOut(frontier', p) /\ A <= MaxAdmissions
  BY DEF IsWhole
<1>2. /\ credit \in Nat /\ frontier.service_due \in Nat /\ frontier'.service_due \in Nat /\ A \in Nat
      /\ CheckpointDue \in {0, 1} /\ CheckpointDue' \in {0, 1} /\ ChargesFit(charged, frontier)
      /\ frontier.service_due <= service_budget(A)
  BY <1>1, StackOf DEF IsScheduled, CheckpointDue
<1>3. Unsafe(frontier') = Unsafe(frontier) /\ IsRegular(frontier', p)
  BY <1>1, OrderIsKept DEF SameOrder
<1>4. ChargesFit(charged', frontier')
  BY <1>2 DEF ChargesFit, Working
<1>5. frontier'.service_due <= service_budget(frontier'.admissions)
  <2> DEFINE x == service_budget(A)
  <2>1. x \in Nat /\ frontier.service_due <= x
    BY <1>1, <1>2, BudgetType
  <2> HIDE DEF x
  <2>2. frontier'.service_due <= x
    BY <2>1, <1>2
  <2>3. QED
    BY <2>2 DEF x
<1>6. ASSUME ~recovery'
      PROVE  AllFit(A, p, charged, D, CheckpointDue', frontier'.service_due + credit')
  <2>1. CASE Unsafe(frontier) = {}
    BY <2>1, <1>1, NothingWaits
  <2>2. CASE Unsafe(frontier) # {}
    <3>1. AllFit(A, p, charged, D, CheckpointDue, frontier.service_due + credit)
      BY <2>2, <1>6
    <3>2. Descends(A, p) /\ ChargesStay(charged, p)
      BY <1>1, <1>2, WholeDescends, ChargesAreStay
    <3> DEFINE B == frontier.service_due + credit
               G == frontier'.service_due + credit'
               e == CheckpointDue
               c == CheckpointDue'
    <3>3. B \in Int /\ G \in Int /\ G - c >= B - e /\ e \in {0, 1} /\ c \in {0, 1}
      BY <1>2, <2>2
    <3> HIDE DEF B, G, e, c
    <3>4. AllFit(A, p, charged, D, e, B)
      BY <3>1 DEF e, B
    <3>5. AllFit(A, p, charged, D, c, G)
      BY <3>2, <3>3, <3>4, EasedFits
    <3>6. QED
      BY <3>5 DEF c, G
  <2>3. QED
    BY <2>1, <2>2
<1>7. OnSchedule'
  BY <1>3, <1>6 DEF OnSchedule
<1>8. QED
  BY <1>3, <1>4, <1>5, <1>7

\* advance keeps the schedule.
LEMMA AdvanceKeeps ==
  ASSUME IsScheduled, NEW allowance \in Nat, advance(allowance)
  PROVE  IsScheduled'
<1>1. credit \in Nat /\ frontier.service_due \in Nat
  BY ScheduleIs
<1>2. PICK p, D : /\ IsWhole(frontier, p) /\ IsRegular(frontier, p)
                  /\ IsDebt(D, frontier.admissions, p, charged)
                  /\ ~recovery => AllFit(frontier.admissions, p, charged, D, CheckpointDue,
                                         frontier.service_due + credit)
  BY ScheduleIs
<1>3. UNCHANGED <<published, charged, recovery, checkpoint_pending, initializing>> /\ ~initializing
  BY DEF advance
<1>4. /\ IsWhole(frontier', p) /\ frontier'.admissions = frontier.admissions
      /\ frontier'.service_due = Less(frontier.service_due, allowance)
      /\ frontier'.jobs = frontier.jobs /\ credit' = credit + allowance
  BY <1>2, AdvanceStep
<1> DEFINE x == frontier.service_due
           y == frontier'.service_due
<1>5. y \in Nat /\ y <= x /\ y + allowance >= x
  <2>1. y = Less(x, allowance) /\ x \in Nat
    BY <1>1, <1>4
  <2> HIDE DEF x, y
  <2>2. QED
    BY <2>1, LessIs
<1>6. credit' \in Nat /\ CheckpointDue' = CheckpointDue /\ CheckpointDue \in {0, 1}
  BY <1>1, <1>3, <1>4 DEF CheckpointDue
<1>7. y + credit' - CheckpointDue' >= x + credit - CheckpointDue
  <2>1. x \in Nat
    BY <1>1
  <2> HIDE DEF x, y, CheckpointDue
  <2>2. QED
    BY <2>1, <1>1, <1>4, <1>5, <1>6
<1>8. /\ OnSchedule' /\ ChargesFit(charged', frontier')
      /\ frontier'.service_due <= service_budget(frontier'.admissions)
  BY <1>2, <1>3, <1>4, <1>5, <1>6, <1>7, AccountKeeps
<1>9. InOrder(published') /\ Prepaid' /\ (checkpoint_pending' => frontier'.admissions # 0)
  BY <1>3, <1>4 DEF IsScheduled, Prepaid
<1>10. QED
  BY <1>6, <1>8, <1>9 DEF IsScheduled

\* What is published is what restore asks for.
LEMMA PublishedInOrder ==
  ASSUME NEW p, IsWhole(frontier', p), IsRegular(frontier', p),
         frontier'.service_due <= service_budget(frontier'.admissions),
         Unsafe(frontier') = {} => frontier'.service_due = 0,
         InOrder(published), published' = frontier' \/ published' = published
  PROVE  InOrder(published')
<1>1. InOrder(frontier')
  BY DEF InOrder
<1>2. QED
  BY <1>1

\* A checkpoint keeps the schedule, whoever asks for it.
LEMMA CheckpointKeeps ==
  ASSUME IsScheduled, Checkpointed(frontier), charged' = charged,
         \/ ~initializing /\ ~initializing' /\ credit' = IF Unsafe(frontier) = {} THEN 0 ELSE credit
         \/ /\ Serving /\ checkpoint_pending
            /\ credit' = IF Unsafe(frontier) = {} THEN 0 ELSE credit - 1
            /\ initializing' = (initializing /\ Unsafe(frontier) # {})
  PROVE  IsScheduled'
<1>1. credit \in Nat /\ frontier.service_due \in Nat /\ CheckpointDue \in {0, 1}
  BY ScheduleIs
<1>2. PICK p, D : /\ IsWhole(frontier, p) /\ IsRegular(frontier, p) /\ IsLaidOut(frontier, p)
                  /\ IsDebt(D, frontier.admissions, p, charged)
                  /\ ~recovery => AllFit(frontier.admissions, p, charged, D, CheckpointDue,
                                         frontier.service_due + credit)
  BY ScheduleIs
<1>3. /\ IsWhole(frontier', p) /\ frontier'.admissions = frontier.admissions
      /\ frontier'.service_due = IF Unsafe(frontier) = {} THEN 0 ELSE frontier.service_due
      /\ frontier'.jobs = frontier.jobs /\ Unsafe(frontier') = Unsafe(frontier)
      /\ published' = frontier' \/ published' = published
  BY <1>2, CheckpointStep
<1>4. /\ ~checkpoint_pending' /\ CheckpointDue' = 0
      /\ recovery' <=> recovery /\ Unsafe(frontier) # {}
  BY DEF Checkpointed, CheckpointDue
<1>5. credit' \in Nat
        /\ (Unsafe(frontier) # {} => \/ credit' = credit
                                     \/ credit' = credit - 1 /\ CheckpointDue = 1)
  BY <1>1 DEF Serving, CheckpointDue
<1>6. frontier'.service_due <= frontier.service_due
  BY <1>1, <1>3
<1>7. \/ Unsafe(frontier) = {}
      \/ frontier'.service_due + credit' - CheckpointDue' >= frontier.service_due + credit - CheckpointDue
  <2> SUFFICES ASSUME Unsafe(frontier) # {}
               PROVE  frontier'.service_due + credit' - CheckpointDue' >= frontier.service_due + credit - CheckpointDue
    OBVIOUS
  <2> DEFINE x == frontier.service_due
  <2>1. frontier'.service_due = x /\ x \in Nat
    BY <1>1, <1>3
  <2> DEFINE e == CheckpointDue
  <2>2. e \in Int /\ e >= 0 /\ credit \in Int /\ (credit' = credit \/ (credit' = credit - 1 /\ e = 1))
    BY <1>1, <1>5
  <2> HIDE DEF x, e
  <2>3. x + credit' - 0 >= x + credit - e
    <3>1. CASE credit' = credit
      BY <3>1, <2>1, <2>2
    <3>2. CASE credit' = credit - 1 /\ e = 1
      BY <3>2, <2>1, <2>2
    <3>3. QED
      BY <3>1, <3>2, <2>2
  <2>4. QED
    BY <2>1, <2>3, <1>4 DEF x, e
<1>8. /\ OnSchedule' /\ ChargesFit(charged', frontier')
      /\ frontier'.service_due <= service_budget(frontier'.admissions)
  BY <1>2, <1>3, <1>4, <1>5, <1>6, <1>7, AccountKeeps
<1>9. IsRegular(frontier', p)
  BY <1>2, <1>3, OrderIsKept DEF SameOrder, IsWhole
<1>10. InOrder(published')
  BY <1>3, <1>8, <1>9, PublishedInOrder DEF IsScheduled
<1>11. Prepaid'
  <2> SUFFICES ASSUME initializing' PROVE Prepaid'
    BY DEF Prepaid
  <2>1. /\ initializing /\ Unsafe(frontier) # {} /\ credit' = credit - 1 /\ CheckpointDue = 1
        /\ recovery
    BY DEF CheckpointDue, IsScheduled, Prepaid
  <2>2. ASSUME NEW i \in Unsafe(frontier')
        PROVE  /\ Unsafe(frontier') = {i}
               /\ credit' + SpentOf(charged', i)
                    >= LocalBound * (frontier'.admissions - RunMass[i]) + 1 + (IF i = 0 THEN 1 ELSE 0) + CheckpointDue'
    <3> DEFINE x == LocalBound * (frontier.admissions - RunMass[i])
               s == SpentOf(charged, i)
               n == IF i = 0 THEN 1 ELSE 0
    <3>1. Unsafe(frontier) = {i} /\ credit + s >= x + 1 + n + 1
      BY <2>1, <1>3 DEF IsScheduled, Prepaid
    <3>2. s \in Int /\ x \in Int /\ n \in Int
      <4>1. i \in Level
        BY <3>1 DEF Unsafe
      <4>2. ChargesStay(charged, p)
        BY <1>2, ChargesAreStay DEF IsScheduled
      <4>3. frontier.admissions \in Nat /\ RunMass[i] \in Nat
        BY <1>2, <4>1, StackOf, LevelAt
      <4>4. \A a, b \in Int : a * b \in Int
        OBVIOUS
      <4>5. frontier.admissions - RunMass[i] \in Int /\ LocalBound \in Int
        BY <4>3, RuntimeAssumption
      <4>6. x \in Int
        BY <4>4, <4>5
      <4>7. s \in Int
        BY <4>1, <4>2 DEF ChargesStay
      <4>8. QED
        BY <4>6, <4>7
    <3> HIDE DEF x, s, n
    <3>3. credit' + s >= x + 1 + n + 0
      BY <3>1, <3>2, <2>1, <1>1
    <3>4. QED
      BY <3>1, <3>3, <1>3, <1>4 DEF x, s, n
  <2>3. recovery'
    BY <2>1, <1>4
  <2>4. QED
    BY <2>1, <2>2, <2>3, <1>3 DEF Prepaid
<1>12. QED
  BY <1>4, <1>5, <1>8, <1>10, <1>11 DEF IsScheduled

\* An executor made from the last checkpoint is on schedule: what was charged is forgotten.
LEMMA RestartKeeps ==
  ASSUME IsScheduled, restart
  PROVE  IsScheduled'
<1> USE RuntimeAssumption
<1>1. /\ frontier' = published /\ credit' = 0 /\ charged' = [i \in Working(published) |-> 0]
      /\ recovery' = (Unsafe(published) # {})
      /\ ~checkpoint_pending' /\ ~initializing' /\ published' = published
  BY DEF restart
<1>2. InOrder(published)
  BY DEF IsScheduled
<1>3. PICK p : IsWhole(published, p) /\ IsRegular(published, p)
  BY <1>2 DEF InOrder
<1>4. IsLaidOut(published, p)
  BY <1>3 DEF IsWhole
<1>5. ChargesFit(charged', published)
  <2>1. ASSUME NEW i \in Working(published) PROVE 0 + Remaining(published.jobs[i]) <= LocalBound * RunMass[i]
    <3>1. i \in Level /\ published.jobs[i] \in Job
      BY <1>4, JobAt
    <3>2. Remaining(published.jobs[i]) \in 1..4
      BY <3>1, RemainingIs
    <3>3. RunMass[i] \in Nat \ {0}
      BY <3>1, RunMassIs DEF Level
    <3>4. \A a \in Nat, b \in Nat \ {0} : a >= 5 => a * b >= 5
      <4> TAKE a \in Nat, b \in Nat \ {0}
      <4> HAVE a >= 5
      <4>1. PICK c \in Nat : b = 1 + c
        <5>1. b - 1 \in Nat /\ b = 1 + (b - 1)
          OBVIOUS
        <5>2. QED
          BY <5>1
      <4>2. a * b = a + a * c
        BY <4>1
      <4>3. a * c \in Nat
        OBVIOUS
      <4>4. QED
        BY <4>2, <4>3
    <3>5. LocalBound * RunMass[i] >= 5 /\ LocalBound * RunMass[i] \in Int
      BY <3>3, <3>4
    <3> DEFINE x == LocalBound * RunMass[i]
               n == Remaining(published.jobs[i])
    <3>6. x >= 5 /\ x \in Int /\ n \in 1..4
      BY <3>2, <3>5
    <3> HIDE DEF x, n
    <3>7. 0 + n <= x
      BY <3>6
    <3>8. QED
      BY <3>7 DEF x, n
  <2>2. QED
    BY <2>1, <1>1 DEF ChargesFit
<1>6. ChargesStay(charged', p) /\ Descends(published.admissions, p)
  BY <1>3, <1>4, <1>5, ChargesAreStay, WholeDescends
<1>7. PICK D : IsDebt(D, published.admissions, p, charged')
  BY <1>6, DebtExists
<1>8. ~recovery' => AllFit(published.admissions, p, charged', D, CheckpointDue', published.service_due + credit')
  BY <1>1, <1>4, NothingWaits
<1>9. OnSchedule'
  BY <1>1, <1>3, <1>7, <1>8 DEF OnSchedule
<1>10. QED
  BY <1>1, <1>2, <1>5, <1>9 DEF IsScheduled, Prepaid, InOrder

\* An initial batch is on schedule, and its carry chain is paid.
LEMMA BatchKeeps ==
  ASSUME IsScheduled, NEW height, try_initialize_sorted(height)
  PROVE  IsScheduled'
<1> USE RuntimeAssumption
<1> DEFINE r == BatchPlaces(height)
<1>1. PICK p, D : /\ IsWhole(frontier, p) /\ IsLaidOut(frontier, p)
                  /\ Descends(frontier.admissions, p)
  BY ScheduleIs
<1>2. /\ height \in 1..(Levels - 1) /\ IsWhole(frontier', r)
      /\ \A i \in 0..Levels : r[i].kind = "two" <=> i = 0
      /\ r[0].end = RunMass[height]
      /\ frontier'.admissions = RunMass[height] /\ frontier'.jobs = <<>>
      /\ frontier'.service_due <= service_budget(RunMass[height])
      /\ credit' = initialization_price(height)
      /\ UNCHANGED <<published, charged, checkpoint_pending>> /\ recovery' /\ initializing'
  BY <1>1, BatchStep
<1>3. frontier.admissions = 0
  BY DEF try_initialize_sorted
<1>4. ~checkpoint_pending
  BY <1>3 DEF IsScheduled
<1>5. Working(frontier) = {}
  <2> SUFFICES ASSUME NEW i \in Working(frontier) PROVE FALSE
    OBVIOUS
  <2>1. i \in Level /\ p[i].kind = "two" /\ i \in 0..Levels /\ i + 1 \in 0..Levels
    BY <1>1, JobAt DEF Level
  <2>2. p[i].end = p[i + 1].end + 2 * RunMass[i] /\ p[i].end <= 0 /\ p[i].end \in Nat /\ p[i + 1].end \in Nat
    BY <2>1, <1>1, <1>3, Zenon DEF Descends
  <2>3. RunMass[i] \in Nat \ {0}
    BY <2>1, RunMassIs
  <2>4. QED
    BY <2>2, <2>3
<1>6. DOMAIN charged = {} /\ Working(frontier') = {}
  BY <1>2, <1>5 DEF IsScheduled, ChargesFit, Working
<1>7. ChargesFit(charged', frontier')
  BY <1>2, <1>6 DEF ChargesFit
<1>8. height \in 0..Levels /\ RunMass[height] \in Nat \ {0} /\ 0 \in Level /\ 0 \in 0..Levels /\ RunMass[0] = 1
  <2>1. height \in 0..Levels /\ 0 \in Level /\ 0 \in 0..Levels
    BY <1>2 DEF Level
  <2>2. QED
    BY <2>1, RunMassIs
<1>9. Unsafe(frontier') = {0}
  <2>1. Unsafe(frontier') = {i \in Level : r[i].kind = "two"}
    BY <1>2, UnsafeIs DEF IsWhole
  <2>2. \A i \in Level : i \in 0..Levels
    BY DEF Level
  <2> HIDE DEF r
  <2>3. QED
    BY <2>1, <2>2, <1>2, <1>8
<1>10. IsRegular(frontier', r)
  <2>1. \A i \in Level : i \in 0..Levels
    BY DEF Level
  <2> HIDE DEF r
  <2>2. QED
    BY <2>1, <1>2, <1>8 DEF IsRegular
<1>11. initialization_price(height) \in Nat
       /\ initialization_price(height) = LocalBound * (RunMass[height] - RunMass[0]) + 2
  <2>1. \A a, b \in Nat : a * b \in Nat
    OBVIOUS
  <2>2. RunMass[height] - 1 \in Nat
    BY <1>8
  <2>3. LocalBound * (RunMass[height] - 1) \in Nat
    BY <2>1, <2>2
  <2>4. QED
    BY <2>3, <1>8 DEF initialization_price
<1>12. OnSchedule'
  <2>1. Descends(frontier'.admissions, r) /\ ChargesStay(charged', r)
    BY <1>2, <1>7, WholeDescends, ChargesAreStay DEF IsWhole
  <2>2. \E C : IsDebt(C, frontier'.admissions, r, charged')
    BY <2>1, DebtExists
  <2> HIDE DEF r
  <2>3. QED
    BY <2>2, <1>2, <1>10 DEF OnSchedule
<1>13. Prepaid'
  <2>1. SpentOf(charged', 0) = 0
    BY <1>2, <1>6 DEF SpentOf
  <2>2. CheckpointDue' = 0
    BY <1>2, <1>4 DEF CheckpointDue
  <2> DEFINE x == LocalBound * (RunMass[height] - RunMass[0])
  <2>3. x \in Int
    <3>1. \A a, b \in Int : a * b \in Int
      OBVIOUS
    <3>2. RunMass[height] - RunMass[0] \in Int /\ LocalBound \in Int
      BY <1>8
    <3>3. QED
      BY <3>1, <3>2
  <2>4. credit' + 0 >= x + 1 + 1 + 0
    <3>1. credit' = x + 2
      BY <1>2, <1>11
    <3> HIDE DEF x
    <3>2. QED
      BY <2>3, <3>1
  <2>5. credit' + SpentOf(charged', 0)
          >= LocalBound * (frontier'.admissions - RunMass[0]) + 1 + (IF 0 = 0 THEN 1 ELSE 0) + CheckpointDue'
    BY <2>1, <2>2, <2>4, <1>2
  <2>6. QED
    BY <2>5, <1>2, <1>9 DEF Prepaid
<1>14. QED
  BY <1>2, <1>4, <1>7, <1>11, <1>12, <1>13 DEF IsScheduled

\* A step of a merge that does not commit keeps the schedule.
LEMMA WorkKeeps ==
  ASSUME IsScheduled, NEW p, NEW D, IsWhole(frontier, p), IsRegular(frontier, p),
         IsDebt(D, frontier.admissions, p, charged),
         ~recovery => AllFit(frontier.admissions, p, charged, D, CheckpointDue, frontier.service_due + credit),
         NEW i \in Level, i \in Unsafe(frontier), \A j \in Level : p[j].kind = "two" => i <= j,
         NEW r, IsWhole(frontier', r), SameOrder(p, r),
         frontier'.admissions = frontier.admissions, frontier'.service_due = frontier.service_due,
         Charge(i), ChargesFit(charged', frontier'),
         credit > 0, credit' = credit - 1, ~checkpoint_pending,
         UNCHANGED <<published, recovery, initializing, checkpoint_pending>>
  PROVE  IsScheduled'
<1> DEFINE A == frontier.admissions
           v == charged'
<1>1. /\ IsLaidOut(frontier, p) /\ IsLaidOut(frontier', r)
  BY DEF IsWhole
<1>2. /\ credit \in Nat /\ frontier.service_due \in Nat /\ A \in Nat
      /\ ChargesStay(charged, p) /\ Descends(A, p) /\ ChargesStay(v, r) /\ Descends(A, r)
  <2>1. ChargesStay(charged, p) /\ ChargesStay(v, r)
    BY <1>1, ChargesAreStay DEF IsScheduled
  <2>2. QED
    BY <2>1, <1>1, StackOf, WholeDescends DEF IsScheduled
<1>3. Unsafe(frontier') = Unsafe(frontier) /\ IsRegular(frontier', r)
  BY <1>1, OrderIsKept
<1>4. /\ SpentOf(v, i) = SpentOf(charged, i) + 1
      /\ \A k \in Level : k # i => SpentOf(v, k) = SpentOf(charged, k)
  BY DEF Charge, Put, SpentOf
<1>5. CheckpointDue = 0 /\ CheckpointDue' = 0 /\ credit' \in Nat
  BY <1>2 DEF CheckpointDue
<1> HIDE DEF v
<1>6. OnSchedule'
  <2>1. CASE recovery
    <3>1. \E C : IsDebt(C, A, r, v)
      BY <1>2, DebtExists
    <3>2. recovery' = recovery
      OBVIOUS
    <3>3. QED
      BY <2>1, <3>1, <3>2, <1>3 DEF OnSchedule, v
  <2>2. CASE ~recovery
    <3> DEFINE B == frontier.service_due + credit
    <3>1. AllFit(A, p, charged, D, 0, B) /\ B \in Int
      BY <2>2, <1>2, <1>5
    <3>2. B - 1 = frontier'.service_due + credit'
      BY <1>2
    <3> HIDE DEF B, A
    <3>3. \E C : IsDebt(C, A, r, v) /\ AllFit(A, r, v, C, 0, B - 1)
      BY <3>1, <1>2, <1>4, ServedFits DEF A
    <3>4. QED
      BY <3>2, <3>3, <1>3, <1>5 DEF OnSchedule, v, A
  <2>3. QED
    BY <2>1, <2>2
<1>7. Prepaid'
  <2> SUFFICES ASSUME initializing PROVE Prepaid'
    BY DEF Prepaid
  <2> DEFINE x == LocalBound * (A - RunMass[i])
             s == SpentOf(charged, i)
             n == IF i = 0 THEN 1 ELSE 0
  <2>1. recovery /\ Unsafe(frontier) = {i} /\ credit + s >= x + 1 + n + 0
    BY <1>5 DEF IsScheduled, Prepaid
  <2>2. s \in Int /\ x \in Int /\ n \in Int
    <3>1. RunMass[i] \in Nat
      BY <1>1, LevelAt
    <3>2. \A a, b \in Int : a * b \in Int
      OBVIOUS
    <3>3. A - RunMass[i] \in Int /\ LocalBound \in Int
      BY <3>1, <1>2, RuntimeAssumption
    <3>4. x \in Int
      BY <3>2, <3>3
    <3>5. s \in Int
      BY <1>2 DEF ChargesStay
    <3>6. QED
      BY <3>4, <3>5
  <2> HIDE DEF x, s, n
  <2>3. credit' + (s + 1) >= x + 1 + n + 0
    BY <2>1, <2>2, <1>2
  <2>4. credit' + SpentOf(charged', i)
          >= LocalBound * (frontier'.admissions - RunMass[i]) + 1 + (IF i = 0 THEN 1 ELSE 0) + CheckpointDue'
    BY <2>3, <1>4, <1>5 DEF x, s, n, v
  <2>5. QED
    BY <2>1, <2>4, <1>3 DEF Prepaid
<1>8. QED
  BY <1>5, <1>6, <1>7 DEF IsScheduled

\* The level above the one that commits is the only one that may begin to wait.
LEMMA CommitWaits ==
  ASSUME NEW f, NEW g, NEW p, NEW r, IsWhole(f, p), IsWhole(g, r), IsRegular(f, p),
         NEW i \in Level, p[i].kind = "two", i + 1 \in Level,
         IsMerged(p, r, i), g.admissions = f.admissions
  PROVE  /\ IsRegular(g, r)
         /\ Unsafe(f) = {i} => Unsafe(g) = IF r[i + 1].kind = "two" THEN {i + 1} ELSE {}
<1> USE RuntimeAssumption
<1>1. /\ IsLaidOut(f, p) /\ IsLaidOut(g, r)
  BY DEF IsWhole
<1>2. Unsafe(f) = {j \in Level : p[j].kind = "two"} /\ Unsafe(g) = {j \in Level : r[j].kind = "two"}
  BY <1>1, UnsafeIs
<1>3. \A j \in Level : j \in 0..Levels
  BY DEF Level
<1>4. /\ r[i].kind # "two" /\ r[i + 1].end = p[i].end
      /\ \A j \in Level : /\ j # i + 1 => r[j].end = p[j].end
                          /\ j # i /\ j # i + 1 => (r[j].kind = "two" <=> p[j].kind = "two")
  BY <1>3 DEF IsMerged
<1>5. ASSUME NEW j \in Level, r[j].kind = "two" PROVE g.admissions - r[j].end < RunMass[j]
  <2>1. CASE j = i + 1
    <3>1. f.admissions - p[i].end < RunMass[i]
      BY DEF IsRegular
    <3>2. f.admissions \in Nat /\ p[i].end \in Nat /\ RunMass[i] \in Nat \ {0} /\ RunMass[i + 1] = 2 * RunMass[i]
      BY <1>1, StackOf, LevelAt, PlaceType
    <3>3. QED
      BY <2>1, <3>1, <3>2, <1>4
  <2>2. CASE j # i + 1
    <3>1. p[j].kind = "two" /\ r[j].end = p[j].end
      BY <2>2, <1>4, <1>5
    <3>2. QED
      BY <3>1 DEF IsRegular
  <2>3. QED
    BY <2>1, <2>2
<1>6. IsRegular(g, r)
  BY <1>5 DEF IsRegular
<1>7. Unsafe(f) = {i} => Unsafe(g) = IF r[i + 1].kind = "two" THEN {i + 1} ELSE {}
  BY <1>2, <1>4
<1>8. QED
  BY <1>6, <1>7

\* A carry chain is paid by what is left after each of its merges.
LEMMA PrepaidCommit ==
  ASSUME NEW b \in Nat, NEW R \in Nat \ {0}, NEW A \in Nat, A >= 2 * R, NEW s \in Nat, s <= b * R - 1,
         NEW c \in Nat, NEW n \in {0, 1}, c + s >= b * (A - R) + 1 + n
  PROVE  c - 1 >= b * (A - 2 * R) + 1 + n /\ c - 1 >= 1
<1>1. PICK u \in Nat : A = 2 * R + u
  <2>1. A - 2 * R \in Nat /\ A = 2 * R + (A - 2 * R)
    OBVIOUS
  <2>2. QED
    BY <2>1
<1>2. A - R = R + u /\ A - 2 * R = u
  BY <1>1
<1>3. b * (R + u) = b * R + b * u
  OBVIOUS
<1>4. \A x, y \in Nat : x * y \in Nat
  OBVIOUS
<1>5. b * R \in Nat /\ b * u \in Nat
  BY <1>4
<1> DEFINE x == b * R
           y == b * u
<1>6. x \in Nat /\ y \in Nat /\ c + s >= (x + y) + 1 + n /\ s <= x - 1
  BY <1>2, <1>3, <1>5
<1> HIDE DEF x, y
<1>7. c - 1 >= y + 1 + n /\ c - 1 >= 1
  BY <1>6
<1>8. QED
  BY <1>2, <1>7 DEF y

\* The commit of a merge keeps the schedule.
LEMMA CommitKeeps ==
  ASSUME HalfRate >= 3, IsScheduled, NEW p, NEW D, IsWhole(frontier, p), IsRegular(frontier, p),
         IsDebt(D, frontier.admissions, p, charged),
         ~recovery => AllFit(frontier.admissions, p, charged, D, CheckpointDue, frontier.service_due + credit),
         NEW i \in Level, i \in Unsafe(frontier), p[i].kind = "two",
         \A j \in Level : p[j].kind = "two" => i <= j,
         commit(i), credit > 0, credit' = credit - 1, ~checkpoint_pending,
         UNCHANGED <<published, recovery, initializing>>
  PROVE  IsScheduled'
<1> USE RuntimeAssumption
<1> DEFINE A == frontier.admissions
           v == charged'
           e == CheckpointDue'
<1>1. /\ i \in Working(frontier) /\ frontier.jobs[i].stage = "commit" /\ frontier' = Committed(frontier, i)
  BY CommitIs
<1>2. PICK r : /\ IsWhole(Committed(frontier, i), r) /\ IsMerged(p, r, i)
               /\ Committed(frontier, i).admissions = frontier.admissions
               /\ Committed(frontier, i).service_due = frontier.service_due
               /\ Committed(frontier, i).jobs = [j \in Working(frontier) \ {i} |-> frontier.jobs[j]]
  BY <1>1, CommitLaysOut
<1>3. /\ IsWhole(frontier', r) /\ frontier'.admissions = A /\ frontier'.service_due = frontier.service_due
      /\ frontier'.jobs = [j \in Working(frontier) \ {i} |-> frontier.jobs[j]]
  BY <1>1, <1>2
<1>4. i + 1 \in Level /\ p[i + 1].kind # "two"
  BY NextIsOpen
<1>5. /\ IsLaidOut(frontier, p) /\ IsLaidOut(frontier', r)
  BY <1>3 DEF IsWhole
<1>6. /\ charged' = [j \in DOMAIN charged \ {i} |-> charged[j]]
      /\ checkpoint_pending' <=> i = 0 \/ Unsafe(frontier') = {}
  <2>1. charged' = [j \in DOMAIN charged \ {i} |-> charged[j]]
    BY DEF commit
  <2>2. CASE i = 0
    BY <2>2 DEF commit
  <2>3. CASE i # 0
    BY <2>3 DEF commit
  <2>4. QED
    BY <2>1, <2>2, <2>3
<1>7. ChargesFit(charged', frontier')
  BY <1>3, <1>6 DEF IsScheduled, ChargesFit, Working
<1>8. /\ credit \in Nat /\ frontier.service_due \in Nat /\ A \in Nat
      /\ ChargesStay(charged, p) /\ Descends(A, p) /\ ChargesStay(v, r) /\ Descends(A, r)
  <2>1. ChargesStay(charged, p) /\ ChargesStay(v, r)
    BY <1>5, <1>7, ChargesAreStay DEF IsScheduled
  <2>2. QED
    BY <2>1, <1>3, <1>5, StackOf, WholeDescends DEF IsScheduled
<1>9. /\ IsRegular(frontier', r)
      /\ Unsafe(frontier) = {i} => Unsafe(frontier') = IF r[i + 1].kind = "two" THEN {i + 1} ELSE {}
  BY <1>3, <1>2, <1>4, CommitWaits
<1>10. /\ SpentOf(v, i) = 0
       /\ \A k \in Level : k # i => SpentOf(v, k) = SpentOf(charged, k)
  BY <1>6 DEF SpentOf
<1>11. /\ RunMass[i] \in Nat \ {0} /\ RunMass[i + 1] = 2 * RunMass[i]
       /\ p[i].end = p[i + 1].end + 2 * RunMass[i] /\ p[i].end <= A /\ p[i].end \in Nat /\ p[i + 1].end \in Nat
  <2>1. i \in 0..Levels /\ i + 1 \in 0..Levels
    BY DEF Level
  <2>2. p[i].end \in Nat /\ p[i].end <= A /\ p[i + 1].end \in Nat /\ p[i].end = p[i + 1].end + 2 * RunMass[i]
    BY <2>1, <1>8, Zenon DEF Descends
  <2>3. QED
    BY <2>1, <2>2, RunMassIs
<1>12. CheckpointDue = 0 /\ e \in {0, 1} /\ credit' \in Nat
  BY <1>8 DEF CheckpointDue
<1> HIDE DEF v, e
<1>13. OnSchedule'
  <2>1. CASE recovery
    <3>1. \E C : IsDebt(C, A, r, v)
      BY <1>8, DebtExists
    <3>2. recovery' = recovery
      OBVIOUS
    <3>3. QED
      BY <2>1, <3>1, <3>2, <1>3, <1>9 DEF OnSchedule, v
  <2>2. CASE ~recovery
    <3> DEFINE B == frontier.service_due + credit
    <3>1. AllFit(A, p, charged, D, 0, B) /\ B \in Nat \ {0}
      BY <2>2, <1>8, <1>12
    <3>2. B - 1 = frontier'.service_due + credit'
      BY <1>3, <1>8
    <3>3. Rate(i) >= 0
      <4>1. i \in Nat
        BY DEF Level
      <4>2. QED
        BY <4>1, RateIs
    <3>4. Since(A, p, i) < RunMass[i]
      BY DEF IsRegular, Since
    <3> HIDE DEF B, A
    <3>5. \E C : IsDebt(C, A, r, v) /\ AllFit(A, r, v, C, e, B - 1)
      BY <3>1, <3>3, <3>4, <1>2, <1>4, <1>8, <1>10, <1>12, MergedFits DEF A
    <3>6. QED
      BY <3>2, <3>5, <1>3, <1>9 DEF OnSchedule, v, A, e
  <2>3. QED
    BY <2>1, <2>2
<1>14. Prepaid'
  <2> SUFFICES ASSUME initializing PROVE Prepaid'
    BY DEF Prepaid
  <2> DEFINE s == SpentOf(charged, i)
             n == IF i = 0 THEN 1 ELSE 0
  <2>1. recovery /\ Unsafe(frontier) = {i} /\ credit + s >= LocalBound * (A - RunMass[i]) + 1 + n
    <3>1. credit + s >= LocalBound * (A - RunMass[i]) + 1 + n + 0 /\ recovery /\ Unsafe(frontier) = {i}
      BY <1>12 DEF IsScheduled, Prepaid
    <3> DEFINE x == LocalBound * (A - RunMass[i])
    <3>2. x \in Int /\ n \in Int
      <4>1. \A a, b \in Int : a * b \in Int
        OBVIOUS
      <4>2. A - RunMass[i] \in Int /\ LocalBound \in Int
        BY <1>8, <1>11
      <4>3. QED
        BY <4>1, <4>2
    <3>3. credit + s >= x + 1 + n
      <4>1. credit + s >= x + 1 + n + 0
        BY <3>1
      <4> HIDE DEF x, n, s
      <4>2. QED
        BY <3>2, <4>1
    <3>4. QED
      BY <3>1, <3>3
  <2>2. n \in {0, 1} /\ s \in Nat /\ s <= LocalBound * RunMass[i] - 1 /\ A >= 2 * RunMass[i]
    BY <1>8, <1>11 DEF ChargesStay
  <2> HIDE DEF s, n
  <2>3. credit - 1 >= LocalBound * (A - 2 * RunMass[i]) + 1 + n /\ credit - 1 >= 1
    <3> HIDE DEF A
    <3>1. QED
      BY <2>1, <2>2, <1>8, <1>11, PrepaidCommit
  <2>4. CASE r[i + 1].kind = "two"
    <3>1. Unsafe(frontier') = {i + 1}
      BY <2>1, <2>4, <1>9
    <3>2. e = n
      BY <3>1, <1>6 DEF e, CheckpointDue, n
    <3>3. SpentOf(v, i + 1) = 0
      BY <1>4, <1>10, <1>8 DEF ChargesStay
    <3>4. i + 1 # 0
      BY DEF Level
    <3> DEFINE y == LocalBound * (A - 2 * RunMass[i])
    <3>5. y \in Int
      <4>1. \A a, b \in Int : a * b \in Int
        OBVIOUS
      <4>2. A - 2 * RunMass[i] \in Int /\ LocalBound \in Int
        BY <1>8, <1>11
      <4>3. QED
        BY <4>1, <4>2
    <3>6. credit' + 0 >= y + 1 + 0 + n
      <4>1. credit - 1 >= y + 1 + n
        BY <2>3
      <4> HIDE DEF y
      <4>2. QED
        BY <4>1, <3>5, <2>2, <1>8
    <3>7. credit' + SpentOf(charged', i + 1)
            >= LocalBound * (frontier'.admissions - RunMass[i + 1]) + 1 + (IF i + 1 = 0 THEN 1 ELSE 0) + CheckpointDue'
      BY <3>2, <3>3, <3>4, <3>6, <1>3, <1>11 DEF v, e
    <3>8. QED
      BY <2>1, <3>1, <3>7 DEF Prepaid
  <2>5. CASE r[i + 1].kind # "two"
    <3>1. Unsafe(frontier') = {}
      BY <2>1, <2>5, <1>9
    <3>2. checkpoint_pending' /\ credit' >= 1
      BY <3>1, <1>6, <2>3
    <3>3. QED
      BY <2>1, <3>1, <3>2 DEF Prepaid
  <2>6. QED
    BY <2>4, <2>5
<1>15. frontier'.service_due <= service_budget(frontier'.admissions)
  BY <1>3 DEF IsScheduled
<1>16. frontier'.admissions # 0
  BY <1>3, <1>8, <1>11
<1>17. InOrder(published')
  BY DEF IsScheduled
<1>18. QED
  BY <1>7, <1>12, <1>13, <1>14, <1>15, <1>16, <1>17 DEF IsScheduled

\* The first step of a merge is within its bound.
LEMMA BoundIs ==
  ASSUME NEW i \in Level
  PROVE  LocalBound * RunMass[i] \in Nat /\ LocalBound * RunMass[i] >= 5
<1>1. RunMass[i] \in Nat \ {0} /\ LocalBound \in Nat /\ LocalBound >= 5
  BY RunMassIs, RuntimeAssumption DEF Level
<1>2. \A a \in Nat, b \in Nat \ {0} : a >= 5 => a * b \in Nat /\ a * b >= 5
  <2> TAKE a \in Nat, b \in Nat \ {0}
  <2> HAVE a >= 5
  <2>1. PICK c \in Nat : b = 1 + c
    <3>1. b - 1 \in Nat /\ b = 1 + (b - 1)
      OBVIOUS
    <3>2. QED
      BY <3>1
  <2>2. a * b = a + a * c
    BY <2>1
  <2>3. a * c \in Nat
    OBVIOUS
  <2>4. QED
    BY <2>2, <2>3
<1>3. QED
  BY <1>1, <1>2

\* What a step charges is within what is left to its merge.
LEMMA ChargeFits ==
  ASSUME NEW f, NEW g, NEW w, NEW v, NEW i \in Level, ChargesFit(w, f), i \in Working(g),
         Working(g) = Working(f) \cup {i}, \A j \in Working(f) : j # i => g.jobs[j] = f.jobs[j],
         v = Put(w, i, IF i \in DOMAIN w THEN w[i] + 1 ELSE 1),
         (IF i \in DOMAIN w THEN w[i] + 1 ELSE 1) + Remaining(g.jobs[i]) <= LocalBound * RunMass[i]
  PROVE  ChargesFit(v, g)
<1>1. DOMAIN w = Working(f) /\ DOMAIN v = Working(g)
  BY DEF ChargesFit, Put
<1>2. ASSUME NEW j \in Working(g) PROVE v[j] \in Nat /\ v[j] + Remaining(g.jobs[j]) <= LocalBound * RunMass[j]
  <2>1. CASE j = i
    <3>1. v[j] = IF i \in DOMAIN w THEN w[i] + 1 ELSE 1
      BY <2>1, <1>1 DEF Put
    <3>2. i \in DOMAIN w => w[i] \in Nat
      BY <1>1 DEF ChargesFit
    <3>3. QED
      BY <2>1, <3>1, <3>2
  <2>2. CASE j # i
    <3>1. v[j] = w[j] /\ j \in Working(f) /\ g.jobs[j] = f.jobs[j]
      BY <2>2, <1>1 DEF Put
    <3>2. QED
      BY <3>1 DEF ChargesFit
  <2>3. QED
    BY <2>1, <2>2
<1>3. QED
  BY <1>1, <1>2 DEF ChargesFit

\* perform keeps the schedule.
LEMMA PerformKeeps ==
  ASSUME HalfRate >= 3, IsScheduled, perform
  PROVE  IsScheduled'
<1> USE RuntimeAssumption
<1>1. PICK p, D : /\ IsWhole(frontier, p) /\ IsRegular(frontier, p) /\ IsLaidOut(frontier, p)
                  /\ IsDebt(D, frontier.admissions, p, charged)
                  /\ ~recovery => AllFit(frontier.admissions, p, charged, D, CheckpointDue,
                                         frontier.service_due + credit)
  BY ScheduleIs
<1> DEFINE i == Selected(frontier)
<1>2. /\ i \in Level /\ p[i].kind = "two" /\ i \in Unsafe(frontier)
      /\ \A j \in Level : p[j].kind = "two" => i <= j
      /\ begin(i) \/ step(i) \/ finish(i) \/ commit(i)
      /\ credit > 0 /\ credit' = credit - 1 /\ ~checkpoint_pending
      /\ UNCHANGED <<published, recovery, initializing>>
  BY <1>1, PerformAt
<1> HIDE DEF i
<1>3. ChargesFit(charged, frontier)
  BY DEF IsScheduled
<1> DEFINE x == LocalBound * RunMass[i]
<1>4. x \in Nat /\ x >= 5
  BY <1>2, BoundIs
<1>5. CASE begin(i)
  <2>1. PICK r : /\ IsWhole(frontier', r) /\ SameOrder(p, r)
                 /\ i \notin Working(frontier)
                 /\ frontier'.admissions = frontier.admissions
                 /\ frontier'.service_due = frontier.service_due
                 /\ Working(frontier') = Working(frontier) \cup {i}
                 /\ \A j \in Working(frontier) : frontier'.jobs[j] = frontier.jobs[j]
    BY <1>1, <1>2, <1>5, BeginStep
  <2>2. Charge(i) /\ checkpoint_pending' = checkpoint_pending
    BY <1>5 DEF begin
  <2>3. i \in Working(frontier')
    BY <2>1
  <2>4. frontier'.jobs[i] \in Job
    <3>1. IsLaidOut(frontier', r)
      BY <2>1 DEF IsWhole
    <3>2. QED
      BY <2>3, <3>1, JobAt
  <2>5. Remaining(frontier'.jobs[i]) \in 1..4
    BY <2>4, RemainingIs
  <2>6. i \notin DOMAIN charged
    BY <2>1, <1>3 DEF ChargesFit
  <2>7. (IF i \in DOMAIN charged THEN charged[i] + 1 ELSE 1) + Remaining(frontier'.jobs[i]) <= x
    <3> DEFINE n == Remaining(frontier'.jobs[i])
    <3> HIDE DEF n, x
    <3>1. 1 + n <= x
      BY <2>5, <1>4 DEF n
    <3>2. QED
      BY <2>6, <3>1 DEF n
  <2>8. ChargesFit(charged', frontier')
    BY <2>1, <2>2, <2>3, <2>7, <1>2, <1>3, ChargeFits DEF Charge
  <2>9. QED
    BY <2>1, <2>2, <2>8, <1>1, <1>2, WorkKeeps
<1>6. CASE step(i)
  <2>1. /\ i \in Working(frontier) /\ Charge(i) /\ frontier' = frontier /\ checkpoint_pending' = checkpoint_pending
        /\ charged[i] + Remaining(frontier.jobs[i]) < LocalBound * RunMass[i]
    BY <1>6 DEF step
  <2>2. SameOrder(p, p) /\ Working(frontier') = Working(frontier) \cup {i}
    BY <2>1 DEF SameOrder
  <2>3. i \in DOMAIN charged /\ charged[i] \in Nat
    BY <2>1, <1>3 DEF ChargesFit
  <2>4. (IF i \in DOMAIN charged THEN charged[i] + 1 ELSE 1) + Remaining(frontier.jobs[i]) <= x
    <3> DEFINE n == Remaining(frontier.jobs[i])
    <3>1. frontier.jobs[i] \in Job
      BY <1>1, <2>1, JobAt
    <3>2. n \in 1..4 /\ charged[i] + n < x
      BY <3>1, <2>1, RemainingIs
    <3> HIDE DEF n, x
    <3>3. (charged[i] + 1) + n <= x
      BY <3>2, <2>3, <1>4
    <3>4. QED
      BY <2>3, <3>3 DEF n
  <2>5. ChargesFit(charged', frontier')
    BY <2>1, <2>2, <2>4, <1>2, <1>3, ChargeFits DEF Charge
  <2>6. QED
    BY <2>1, <2>2, <2>5, <1>1, <1>2, WorkKeeps
<1>7. CASE finish(i)
  <2>1. /\ i \in Working(frontier) /\ frontier.jobs[i].stage # "commit" /\ frontier' = Completed(frontier, i)
        /\ Charge(i) /\ checkpoint_pending' = checkpoint_pending
    BY <1>7 DEF finish
  <2>2. /\ IsWhole(frontier', p)
        /\ frontier'.admissions = frontier.admissions /\ frontier'.service_due = frontier.service_due
        /\ Working(frontier') = Working(frontier)
        /\ \A j \in Working(frontier) : j # i => frontier'.jobs[j] = frontier.jobs[j]
        /\ Remaining(frontier'.jobs[i]) = Remaining(frontier.jobs[i]) - 1
    BY <2>1, <1>1, CompletionLaysOut
  <2>3. SameOrder(p, p) /\ Working(frontier') = Working(frontier) \cup {i}
    BY <2>1, <2>2 DEF SameOrder
  <2>4. i \in DOMAIN charged /\ charged[i] \in Nat /\ charged[i] + Remaining(frontier.jobs[i]) <= x
    BY <2>1, <1>3 DEF ChargesFit
  <2>5. (IF i \in DOMAIN charged THEN charged[i] + 1 ELSE 1) + Remaining(frontier'.jobs[i]) <= x
    <3> DEFINE n == Remaining(frontier.jobs[i])
    <3>1. frontier.jobs[i] \in Job
      BY <1>1, <2>1, JobAt
    <3>2. n \in 1..4 /\ charged[i] + n <= x
      BY <3>1, <2>4, RemainingIs
    <3> HIDE DEF n, x
    <3>3. (charged[i] + 1) + (n - 1) <= x
      BY <3>2, <2>4, <1>4
    <3>4. QED
      BY <2>2, <2>4, <3>3 DEF n
  <2>6. ChargesFit(charged', frontier')
    BY <2>1, <2>2, <2>3, <2>5, <1>2, <1>3, ChargeFits DEF Charge
  <2>7. QED
    BY <2>1, <2>2, <2>3, <2>6, <1>1, <1>2, WorkKeeps
<1>8. CASE commit(i)
  BY <1>1, <1>2, <1>8, CommitKeeps
<1>9. QED
  BY <1>2, <1>5, <1>6, <1>7, <1>8

\* The empty executor is on schedule.
LEMMA ScheduledInit ==
  ASSUME Init
  PROVE  IsScheduled
<1> USE RuntimeAssumption
<1> DEFINE p == [i \in 0..Levels |-> Bare]
<1>1. IsWhole(frontier, p) /\ frontier.admissions = 0 /\ frontier.service_due = 0 /\ Working(frontier) = {}
  BY InitLaysOut
<1>2. /\ published = frontier /\ credit = 0 /\ charged = <<>>
      /\ ~recovery /\ ~checkpoint_pending /\ ~initializing
  BY DEF Init
<1>3. \A j \in Level : p[j].kind # "two"
  <2>1. Bare.kind = "none"
    BY DEF Bare
  <2>2. \A j \in Level : j \in 0..Levels
    BY DEF Level
  <2>3. QED
    BY <2>1, <2>2
<1> HIDE DEF p
<1>4. IsLaidOut(frontier, p) /\ IsRegular(frontier, p)
  BY <1>1, <1>3 DEF IsWhole, IsRegular
<1>5. ChargesFit(charged, frontier)
  BY <1>1, <1>2 DEF ChargesFit
<1>6. PICK D : IsDebt(D, frontier.admissions, p, charged)
  BY <1>1, <1>4, <1>5, ChargesAreStay, WholeDescends, DebtExists
<1>7. OnSchedule
  BY <1>1, <1>3, <1>4, <1>6 DEF OnSchedule, AllFit
<1>8. service_budget(frontier.admissions) \in Nat
  <2>1. MaxAdmissions \in Nat
    BY RunMassIs DEF Level
  <2>2. QED
    BY <2>1, <1>1, BudgetType
<1>9. frontier.service_due <= service_budget(frontier.admissions)
  BY <1>1, <1>8
<1>10. InOrder(published)
  BY <1>1, <1>2, <1>4, <1>9 DEF InOrder
<1>11. QED
  BY <1>2, <1>5, <1>7, <1>9, <1>10 DEF IsScheduled, Prepaid

\* Every step keeps the schedule.
LEMMA ScheduledNext ==
  ASSUME HalfRate >= 3, IsScheduled, [Next]_vars
  PROVE  IsScheduled'
<1> USE RuntimeAssumption
<1>1. ASSUME NEW allowance \in Allowances \cup {0}, try_contribute(allowance) PROVE IsScheduled'
  <2>1. allowance \in Nat
    OBVIOUS
  <2>2. QED
    BY <1>1, <2>1, AdmissionKeeps
<1>2. ASSUME NEW allowance \in Allowances, advance(allowance) PROVE IsScheduled'
  <2>1. allowance \in Nat
    OBVIOUS
  <2>2. QED
    BY <1>2, <2>1, AdvanceKeeps
<1>3. CASE capture
  <2>1. /\ Checkpointed(frontier) /\ charged' = charged /\ ~initializing /\ ~initializing'
        /\ credit' = IF Unsafe(frontier) = {} THEN 0 ELSE credit
    BY <1>3 DEF capture
  <2>2. QED
    BY <2>1, CheckpointKeeps
<1>4. ASSUME NEW height \in Level, try_initialize_sorted(height) PROVE IsScheduled'
  BY <1>4, BatchKeeps
<1>5. CASE perform
  BY <1>5, PerformKeeps
<1>6. CASE checkpoint
  <2>1. /\ Checkpointed(frontier) /\ charged' = charged /\ Serving /\ checkpoint_pending
        /\ credit' = IF Unsafe(frontier) = {} THEN 0 ELSE credit - 1
        /\ initializing' = (initializing /\ Unsafe(frontier) # {})
    BY <1>6 DEF checkpoint
  <2>2. QED
    BY <2>1, CheckpointKeeps
<1>7. CASE restart
  BY <1>7, RestartKeeps
<1>8. CASE UNCHANGED vars
  BY <1>8 DEF vars, IsScheduled, OnSchedule, Prepaid, CheckpointDue
<1>9. QED
  BY <1>1, <1>2, <1>3, <1>4, <1>5, <1>6, <1>7, <1>8 DEF Next

(* At a rate of three halves or more every reachable state of the executor is
   on schedule: the levels have room for what comes up, and the account covers
   what must be done before it.                                             *)
THEOREM ExecutorStaysOnSchedule ==
  ASSUME HalfRate >= 3
  PROVE  Spec => []IsScheduled
<1>1. Init => IsScheduled
  BY ScheduledInit
<1>2. IsScheduled /\ [Next]_vars => IsScheduled'
  BY ScheduledNext
<1>3. QED
  BY <1>1, <1>2, PTL DEF Spec

\* On schedule, service that was offered suffices.
LEMMA OffersSuffice ==
  ASSUME IsScheduled
  PROVE  OfferedServiceSuffices
<1> USE RuntimeAssumption
<1> SUFFICES ASSUME ~Serving, ~recovery, ~checkpoint_pending, frontier.service_due = 0 PROVE Ready(frontier)
  BY DEF OfferedServiceSuffices
<1>1. PICK p, D : /\ IsWhole(frontier, p) /\ IsLaidOut(frontier, p) /\ ChargesStay(charged, p)
                  /\ AllFit(frontier.admissions, p, charged, D, CheckpointDue, frontier.service_due + credit)
  BY ScheduleIs
<1>2. 0 \in Level /\ RunMass[0] = 1 /\ credit \in Nat
  BY RunMassIs, ScheduleIs DEF Level
<1>3. ASSUME p[0].kind = "two" PROVE FALSE
  <2>1. 0 \in Unsafe(frontier)
    BY <1>1, <1>2, <1>3, UnsafeIs
  <2>2. credit = 0
    BY <2>1, <1>2 DEF Serving, Pending
  <2>3. Fits(frontier.admissions, p, charged, D, CheckpointDue, frontier.service_due + credit, 0)
    BY <1>1, <1>2, <1>3 DEF AllFit
  <2>4. LocalBound - SpentOf(charged, 0) + 0 <= 0
    <3>1. CheckpointDue = 0 /\ frontier.service_due + credit = 0
      BY <2>2 DEF CheckpointDue
    <3>2. QED
      BY <2>3, <3>1 DEF Fits
  <2>5. SpentOf(charged, 0) \in Nat /\ SpentOf(charged, 0) <= LocalBound * RunMass[0] - 1
    BY <1>1, <1>2 DEF ChargesStay
  <2>6. LocalBound * RunMass[0] = LocalBound
    BY <1>2
  <2> HIDE DEF SpentOf
  <2>7. QED
    BY <2>4, <2>5, <2>6
<1>4. 0 \notin Working(frontier)
  BY <1>1, <1>3, JobAt
<1>5. Cardinality(In(frontier, 0, "active")) < 2
  <2>1. /\ In(frontier, 0, "active") = IF p[0].kind = "two" THEN {p[0].a, p[0].b}
                                       ELSE IF p[0].kind \in {"one", "fresh"} THEN {p[0].a} ELSE {}
    BY <1>1, <1>2, InLevel
  <2>2. In(frontier, 0, "active") = {p[0].a} \/ In(frontier, 0, "active") = {}
    BY <2>1, <1>3
  <2>3. Cardinality({p[0].a}) = 1 /\ Cardinality({}) = 0
    BY PairSize
  <2> DEFINE n == Cardinality(In(frontier, 0, "active"))
  <2>4. n = 0 \/ n = 1
    BY <2>2, <2>3
  <2> HIDE DEF n
  <2>5. n < 2
    BY <2>4
  <2>6. QED
    BY <2>5 DEF n
<1>6. QED
  BY <1>4, <1>5 DEF Ready

\* On schedule, an initial batch has what its next step costs.
LEMMA BatchIsPaid ==
  ASSUME IsScheduled
  PROVE  InitializationIsPaid
<1> USE RuntimeAssumption
<1> SUFFICES ASSUME initializing PROVE Serving
  BY DEF InitializationIsPaid
<1>1. PICK p : /\ IsWhole(frontier, p) /\ IsLaidOut(frontier, p) /\ ChargesStay(charged, p)
               /\ Descends(frontier.admissions, p)
  BY ScheduleIs
<1>2. credit \in Nat /\ CheckpointDue \in {0, 1}
  BY ScheduleIs
<1>3. CASE Unsafe(frontier) = {}
  <2>1. checkpoint_pending /\ credit >= 1
    BY <1>3 DEF IsScheduled, Prepaid
  <2>2. QED
    BY <2>1, <1>2 DEF Serving, Pending
<1>4. CASE Unsafe(frontier) # {}
  <2>1. PICK i \in Unsafe(frontier) : TRUE
    BY <1>4
  <2> DEFINE A == frontier.admissions
             s == SpentOf(charged, i)
             n == IF i = 0 THEN 1 ELSE 0
  <2>2. credit + s >= LocalBound * (A - RunMass[i]) + 1 + n + CheckpointDue
    BY <2>1 DEF IsScheduled, Prepaid
  <2>3. i \in Level /\ p[i].kind = "two" /\ i \in 0..Levels /\ i + 1 \in 0..Levels
    BY <2>1, <1>1, UnsafeIs DEF Level
  <2>4. p[i].end = p[i + 1].end + 2 * RunMass[i] /\ p[i].end <= A /\ p[i].end \in Nat /\ p[i + 1].end \in Nat /\ A \in Nat
    BY <2>3, <1>1, Zenon DEF Descends
  <2>5. RunMass[i] \in Nat \ {0}
    BY <2>3, RunMassIs
  <2>6. s \in Nat /\ s <= LocalBound * RunMass[i] - 1 /\ A >= 2 * RunMass[i]
    BY <2>3, <2>4, <2>5, <1>1 DEF ChargesStay
  <2>7. n \in {0, 1} /\ credit + s >= LocalBound * (A - RunMass[i]) + 1 + 0
    <3> DEFINE x == LocalBound * (A - RunMass[i])
    <3>1. x \in Int
      <4>1. \A a, b \in Int : a * b \in Int
        OBVIOUS
      <4>2. A - RunMass[i] \in Int /\ LocalBound \in Int
        BY <2>4, <2>5
      <4>3. QED
        BY <4>1, <4>2
    <3>2. n \in {0, 1} /\ credit + s >= x + 1 + n + CheckpointDue
      BY <2>2
    <3> HIDE DEF x, n, s, CheckpointDue
    <3>3. credit + s >= x + 1 + 0
      BY <3>1, <3>2, <2>6, <1>2
    <3>4. QED
      BY <3>2, <3>3 DEF x
  <2> HIDE DEF A, s, n
  <2>8. credit - 1 >= 1
    BY <2>4, <2>5, <2>6, <2>7, <1>2, PrepaidCommit
  <2>9. QED
    BY <2>8, <1>2, <1>4 DEF Serving, Pending
<1>5. QED
  BY <1>3, <1>4

(* There is always room for the next merge and the next record, and what the
   closed forms of the price offer is enough: begin, active, vacant and perform
   never throw, contribute does not fail for want of service it was given, and
   an initial batch never runs out of its allowance.                        *)
THEOREM ScheduleHolds ==
  ASSUME HalfRate >= 3
  PROVE  Spec => []ScheduleSuffices
<1>1. IsScheduled => ScheduleSuffices
  <2> SUFFICES ASSUME IsScheduled PROVE ScheduleSuffices
    OBVIOUS
  <2>1. MergesCanBegin
    BY ScheduleIs, MergesMayBegin
  <2>2. OfferedServiceSuffices /\ InitializationIsPaid
    BY OffersSuffice, BatchIsPaid
  <2>3. QED
    BY <2>1, <2>2 DEF ScheduleSuffices, PricesSuffice
<1>2. QED
  BY <1>1, ExecutorStaysOnSchedule, PTL

(* Whatever merges are under way, restore accepts the last checkpoint.       *)
THEOREM CheckpointsStayRestorable ==
  ASSUME HalfRate >= 3
  PROVE  Spec => []CheckpointsRestore
<1>1. IsScheduled => CheckpointsRestore
  <2> SUFFICES ASSUME IsScheduled PROVE CheckpointsRestore
    OBVIOUS
  <2>1. InOrder(published)
    BY DEF IsScheduled
  <2>2. PICK p : IsWhole(published, p) /\ IsRegular(published, p)
    BY <2>1 DEF InOrder
  <2>3. Restorable(published)
    BY <2>1, <2>2, RestoresWell DEF InOrder
  <2>4. QED
    BY <2>3 DEF CheckpointsRestore
<1>2. QED
  BY <1>1, ExecutorStaysOnSchedule, PTL
=============================================================================
