-------------------------- MODULE RedundantRuntime --------------------------
(***************************************************************************)
(* The redundant executor (redundant_runtime.h): admitted records become   *)
(* runs, two runs of a level are merged into one of the next, and a run    *)
(* becomes reachable from the query root only when a merge below it, or at *)
(* level 0, publishes a root.  Each level has three slots.                 *)
(*                                                                         *)
(* A run is its admission interval; its native data, its index and the     *)
(* bytes of either are left out, but which runs an index points to is not: *)
(* that is `next`.  Objects are immutable and are never removed from the   *)
(* sequence that holds them (its length is next_identity - 1); 0 is the    *)
(* null pointer.                                                           *)
(***************************************************************************)
EXTENDS Naturals, Sequences, FiniteSets, FiniteSetsExt

CONSTANTS
  Levels,         \* maximum_levels
  MaxAdmissions,  \* the records ever admitted (a bound of the model)
  LocalBound,     \* local_charge_bound, in units of the price of one step
  HalfRate,       \* twice the factor of service_budget: 16 in the code
  Allowances      \* what the callers of advance and try_contribute offer

\* The records in a run of each level, 1 << i.
RunMass[i \in 0..Levels] == IF i = 0 THEN 1 ELSE 2 * RunMass[i - 1]

ASSUME RuntimeAssumption ==
  /\ Levels \in Nat \ {0} /\ MaxAdmissions \in 1..RunMass[Levels - 1]
  /\ LocalBound \in Nat /\ LocalBound >= 5 /\ HalfRate \in Nat \ {0}
  /\ Allowances \subseteq Nat \ {0}

Level == 0..(Levels - 1)
Slots == 0..2
Null == 0

VARIABLES
  frontier,           \* the executor's levels, objects and root
  published,          \* the frontier of the last checkpoint
  credit,             \* service granted and not yet spent
  charged,            \* what the worker of each level with a job was charged
  recovery,           \* restored with unfinished merges
  checkpoint_pending,
  initializing        \* try_initialize_sorted has not returned

vars == <<frontier, published, credit, charged, recovery, checkpoint_pending, initializing>>

-----------------------------------------------------------------------------
\* Objects, routes, slots and jobs.

States == {"empty", "active", "consumed", "reserved",
           "carrier_building", "carrier_ready", "root_carrier"}
Stages == {"native_merge", "destination_index", "carrier_index", "commit"}

Route == [main : Nat, secondary : Nat]
Object == [first : Nat, last : Nat, level : Level, secondary : BOOLEAN, next : Route]
Slot == [state : States, object : Nat, route : Route, ever_visible : BOOLEAN]
Job == [inputs : Slots \X Slots, destination : Slots, carrier_slot : Slots, new_main : BOOLEAN,
        route : Route, existing_main : Nat, output : Nat, stage : Stages]

Nowhere == [main |-> Null, secondary |-> Null]
Empty == [state |-> "empty", object |-> Null, route |-> Nowhere, ever_visible |-> FALSE]
Carrier(state, id, route) == [state |-> state, object |-> id, route |-> route, ever_visible |-> FALSE]
Holding(state, id) == Carrier(state, id, Nowhere)

IsFrontier(f) ==
  /\ f.admissions \in Nat /\ f.service_due \in Nat /\ f.height \in 1..Levels
  /\ f.objects \in Seq(Object) /\ f.root \in Route
  /\ f.slots \in [Level -> [Slots -> Slot]]
  /\ DOMAIN f.jobs \subseteq Level /\ f.jobs \in [DOMAIN f.jobs -> Job]
  /\ f.last \in [Level -> [identity : Nat, visible : BOOLEAN]]

Init ==
  /\ frontier = [admissions |-> 0, service_due |-> 0, height |-> 1, objects |-> <<>>,
                 root |-> Nowhere, slots |-> [i \in Level |-> [s \in Slots |-> Empty]],
                 jobs |-> <<>>, last |-> [i \in Level |-> [identity |-> Null, visible |-> FALSE]]]
  /\ published = frontier
  /\ credit = 0 /\ charged = <<>>
  /\ recovery = FALSE /\ checkpoint_pending = FALSE /\ initializing = FALSE

-----------------------------------------------------------------------------
\* What the executor reads off a frontier.

In(f, i, state) == {s \in Slots : f.slots[i][s].state = state}

\* vacant, find: the first slot in that state.
First(f, i, state) == Min(In(f, i, state))

Working(f) == DOMAIN f.jobs
Unsafe(f) == {i \in Level : i \in Working(f) \/ Cardinality(In(f, i, "active")) = 2}

Selected(f) == Min(Unsafe(f))

RunAt(f, i, s) == f.objects[f.slots[i][s].object]

\* active: the active slots of a level, the older run first.
ActiveInOrder(f, i) ==
  CHOOSE p \in In(f, i, "active") \X In(f, i, "active") :
    p[1] # p[2] /\ RunAt(f, i, p[1]).first <= RunAt(f, i, p[2]).first

Put(m, i, value) == [j \in DOMAIN m \cup {i} |-> IF j = i THEN value ELSE m[j]]

Ends(route) == {route.main, route.secondary} \ {Null}

\* The objects that a walk from a route visits.
Reached(f, route) ==
  LET upTo[n \in 0..Levels] ==
        IF n = 0 THEN Ends(route)
        ELSE LET above == upTo[n - 1]
             IN  above \cup UNION {Ends(f.objects[id].next) : id \in above}
  IN  upTo[Levels]

BitWidth(n) == CHOOSE w \in 0..Levels : n < RunMass[w] /\ (w = 0 \/ RunMass[w - 1] <= n)

\* Mutant of service_budget: a step per level instead of a merge.
service_budget_steps(n) == (HalfRate * (BitWidth(n) + 2)) \div 2

service_budget(n) == (HalfRate * LocalBound * (BitWidth(n) + 2)) \div 2

\* Mutant of Ready: outstanding service does not hold up the next record.
Ready_unpaid(f) ==
  /\ ~recovery /\ ~checkpoint_pending
  /\ 0 \notin Working(f)
  /\ Cardinality(In(f, 0, "active")) < 2

\* ready
Ready(f) ==
  /\ ~recovery /\ ~checkpoint_pending
  /\ f.service_due = 0
  /\ 0 \notin Working(f)
  /\ Cardinality(In(f, 0, "active")) < 2

\* Mutant of Pending: a checkpoint that waits for service is forgotten.
Pending_unsafe == Unsafe(frontier) # {}

Pending == Unsafe(frontier) # {} \/ checkpoint_pending

\* serve has credit for the next step, whose price is one unit.
Serving == Pending /\ credit > 0

-----------------------------------------------------------------------------
\* visibility and checkpoint.

\* Mutant of Shown: a run gives up its slot although no root has reached it yet.
Shown_unseen(f) ==
  LET visible == Reached(f, f.root)
      Mark(x) == [x EXCEPT !.ever_visible = @ \/ x.object \in visible]
      Retired(x) == x.state = "consumed" /\ x.object \notin visible
  IN  [f EXCEPT
        !.slots = [i \in Level |-> [s \in Slots |->
                    IF Retired(f.slots[i][s]) THEN Empty ELSE Mark(f.slots[i][s])]],
        !.last = [i \in Level |->
                    [f.last[i] EXCEPT !.visible = @ \/ f.last[i].identity \in visible]]]

\* Marks what the root reaches and frees the consumed runs it no longer does.
Shown(f) ==
  LET visible == Reached(f, f.root)
      Mark(x) == [x EXCEPT !.ever_visible = @ \/ x.object \in visible]
      Retired(x) == x.state = "consumed" /\ x.ever_visible /\ x.object \notin visible
  IN  [f EXCEPT
        !.slots = [i \in Level |-> [s \in Slots |->
                    IF Retired(f.slots[i][s]) THEN Empty ELSE Mark(f.slots[i][s])]],
        !.last = [i \in Level |->
                    [f.last[i] EXCEPT !.visible = @ \/ f.last[i].identity \in visible]]]

\* checkpoint: the frontier becomes the published one; with nothing left to do
\* the account is closed.  An initial construction publishes only its end: until
\* then a failure puts the empty frontier back.
Checkpointed(f) ==
  LET settled == Unsafe(f) = {}
      g == IF settled THEN [f EXCEPT !.service_due = 0] ELSE f
  IN  /\ frontier' = g
      /\ published' = IF initializing /\ ~settled THEN published ELSE g
      /\ checkpoint_pending' = FALSE
      /\ recovery' = (recovery /\ ~settled)

-----------------------------------------------------------------------------
\* Calls.

\* admit
Admitted(f) ==
  LET entries == In(f, 0, "active")
      carriers == In(f, 0, "root_carrier")
      id == Len(f.objects) + 1
      filled == entries = {} /\ carriers # {}
      slot == IF filled THEN Min(carriers) ELSE First(f, 0, "empty")
      run == [first |-> f.admissions, last |-> f.admissions + 1, level |-> 0,
              secondary |-> entries # {},
              next |-> IF filled THEN f.slots[0][slot].route ELSE Nowhere]
      g == [f EXCEPT
             !.admissions = @ + 1,
             !.objects = Append(@, run),
             !.slots[0][slot] = Holding("active", id),
             !.root = IF entries = {} THEN [main |-> id, secondary |-> Null]
                      ELSE [@ EXCEPT !.secondary = id]]
  IN  [g EXCEPT !.service_due = IF Unsafe(g) = {} THEN 0 ELSE service_budget(g.admissions)]

Less(due, paid) == IF due < paid THEN 0 ELSE due - paid

\* try_contribute: the record is visible, and in a checkpoint, before any merge
\* it caused is begun; then the caller's allowance, if any, is granted.
try_contribute(allowance) ==
  /\ ~Serving /\ ~initializing
  /\ frontier.admissions < MaxAdmissions
  /\ Ready(frontier)
  /\ LET f == Shown(Admitted(frontier)) IN
       /\ published' = f
       /\ frontier' = [f EXCEPT !.service_due = Less(@, allowance)]
       /\ credit' = IF Unsafe(f) = {} THEN 0 ELSE credit + allowance
  /\ UNCHANGED <<charged, recovery, checkpoint_pending, initializing>>

\* advance
advance(allowance) ==
  /\ ~Serving /\ ~initializing
  /\ Pending
  /\ credit' = credit + allowance
  /\ frontier' = [frontier EXCEPT !.service_due = Less(@, allowance)]
  /\ UNCHANGED <<published, charged, recovery, checkpoint_pending, initializing>>

\* checkpoint, called by the owner of the executor.
capture ==
  /\ ~Serving /\ ~initializing
  /\ Checkpointed(frontier)
  /\ credit' = IF Unsafe(frontier) = {} THEN 0 ELSE credit
  /\ UNCHANGED <<charged, initializing>>

\* What initialization_price has left for the carry chain once the runs are
\* built: a merge at each level below the height, two checkpoints.
initialization_price(height) == LocalBound * (RunMass[height] - 1) + 2

\* The runs that try_initialize_sorted builds of sorted records: one per level
\* and a second one at level 0, for RunMass[height] records.
Built(f, height) ==
  LET count == RunMass[height]
      run(i) == [first |-> count - RunMass[i + 1], last |-> count - RunMass[i], level |-> i,
                 secondary |-> FALSE,
                 next |-> [main |-> height - i - 1, secondary |-> Null]]
      entry == [first |-> count - 1, last |-> count, level |-> 0, secondary |-> TRUE, next |-> Nowhere]
  IN  [f EXCEPT
        !.admissions = count, !.height = height,
        !.objects = Append([n \in 1..height |-> run(height - n)], entry),
        !.slots = [i \in Level |-> [s \in Slots |->
                     CASE s = 0 /\ i < height -> Holding("active", height - i)
                       [] s = 1 /\ i = 0      -> Holding("active", height + 1)
                       [] OTHER               -> Empty]],
        !.root = [main |-> height, secondary |-> height + 1],
        !.service_due = service_budget(count)]

\* try_initialize_sorted, with the allowance that the carry chain needs.
try_initialize_sorted(height) ==
  /\ frontier.admissions = 0 /\ frontier.objects = <<>>
  /\ height \in 1..(Levels - 1) /\ RunMass[height] <= MaxAdmissions
  /\ LET paid == initialization_price(height) IN
       /\ frontier' = [Shown(Built(frontier, height)) EXCEPT !.service_due = Less(@, paid)]
       /\ credit' = paid
  /\ recovery' = TRUE /\ initializing' = TRUE
  /\ UNCHANGED <<published, charged, checkpoint_pending>>

-----------------------------------------------------------------------------
\* serve: one step of the worker of the smallest unsafe level.

Mass(run) == run.last - run.first

\* What begin requires of its level and the next.
MayBegin(f, i) ==
  LET inputs == ActiveInOrder(f, i)
      carriers == In(f, i + 1, "carrier_ready")
      present == In(f, i + 1, "active")
  IN
  /\ i + 1 \in Level /\ i + 1 \notin Unsafe(f)
  /\ f.last[i + 1].identity # Null => f.last[i + 1].visible
  /\ In(f, i, "empty") # {}
  /\ carriers \cup In(f, i + 1, "empty") # {}
  /\ Cardinality(present) <= 1 /\ (carriers = {} \/ present = {})
  /\ \A s \in present : ~RunAt(f, i + 1, s).secondary
  /\ RunAt(f, i, inputs[1]).last = RunAt(f, i, inputs[2]).first
  /\ \A n \in {1, 2} : Mass(RunAt(f, i, inputs[n])) = RunMass[i]

\* begin
Begun(f, i) ==
  LET inputs == ActiveInOrder(f, i)
      carriers == In(f, i + 1, "carrier_ready")
      present == In(f, i + 1, "active")
      destination == IF carriers = {} THEN First(f, i + 1, "empty") ELSE Min(carriers)
      job == [inputs |-> inputs, destination |-> destination, carrier_slot |-> First(f, i, "empty"),
              new_main |-> carriers # {} \/ present = {},
              route |-> IF carriers = {} THEN Nowhere ELSE f.slots[i + 1][destination].route,
              existing_main |-> IF present = {} THEN Null ELSE f.slots[i + 1][Min(present)].object,
              output |-> Null, stage |-> "native_merge"]
  IN  [f EXCEPT !.height = IF i + 1 = @ THEN @ + 1 ELSE @,
                !.slots[i][job.carrier_slot] = Holding("carrier_building", Null),
                !.slots[i + 1][destination].state = "reserved",
                !.jobs = Put(@, i, job)]

\* The merged run takes its place in the reserved slot.
Produced(f, i, next, secondary) ==
  LET job == f.jobs[i]
      run == [first |-> RunAt(f, i, job.inputs[1]).first, last |-> RunAt(f, i, job.inputs[2]).last,
              level |-> i + 1, secondary |-> secondary, next |-> next]
      id == Len(f.objects) + 1
  IN  [f EXCEPT !.objects = Append(@, run),
                !.slots[i + 1][job.destination].object = id,
                !.jobs[i].output = id,
                !.jobs[i].stage = "carrier_index"]

\* complete_native, index_finish
Completed(f, i) ==
  LET job == f.jobs[i] IN
  CASE job.stage = "native_merge" /\ job.new_main ->
         [f EXCEPT !.jobs[i].stage = "destination_index"]
    [] job.stage = "native_merge" /\ ~job.new_main -> Produced(f, i, Nowhere, TRUE)
    [] job.stage = "destination_index"             -> Produced(f, i, job.route, FALSE)
    [] job.stage = "carrier_index"                 -> [f EXCEPT !.jobs[i].stage = "commit"]

\* Mutant of Target: the carrier leaves out the run that was already there.
Target_alone(job) == [main |-> job.output, secondary |-> Null]

\* Where the carrier that a merge leaves behind points to.
Target(job) == IF job.new_main THEN [main |-> job.output, secondary |-> Null]
               ELSE [main |-> job.existing_main, secondary |-> job.output]

\* action::commit: the inputs are consumed, the carrier is ready and the output
\* active.
Handed(f, i) ==
  LET job == f.jobs[i] IN
  [f EXCEPT !.slots[i] = [s \in Slots |->
              CASE s \in {job.inputs[1], job.inputs[2]} -> [f.slots[i][s] EXCEPT !.state = "consumed"]
                [] s = job.carrier_slot -> Carrier("carrier_ready", Null, Target(job))
                [] OTHER -> f.slots[i][s]],
            !.slots[i + 1][job.destination] = Holding("active", job.output),
            !.last[i + 1] = [identity |-> job.output, visible |-> FALSE],
            !.jobs = [j \in Working(f) \ {i} |-> f.jobs[j]]]

\* action::commit at level 0: the carrier becomes the root.
Rooted(f, job) ==
  LET id == Len(f.objects) + 1
      entry == [first |-> 0, last |-> 0, level |-> 0, secondary |-> FALSE, next |-> Target(job)]
  IN  Shown([f EXCEPT !.objects = Append(@, entry),
                      !.slots[0][job.carrier_slot] = Carrier("root_carrier", id, Target(job)),
                      !.root = [main |-> id, secondary |-> Null]])

Charge(i) == charged' = Put(charged, i, IF i \in DOMAIN charged THEN charged[i] + 1 ELSE 1)

Spend == credit' = credit - 1

begin(i) ==
  /\ i \notin Working(frontier) /\ MayBegin(frontier, i)
  /\ frontier' = Begun(frontier, i)
  /\ Charge(i)
  /\ UNCHANGED checkpoint_pending

\* The charges of a merge at level i never exceed its mass by more than the
\* local bound; what is left must suffice for a step of each later stage.
Remaining(job) == CASE job.stage = "native_merge"      -> IF job.new_main THEN 4 ELSE 3
                    [] job.stage = "destination_index" -> 3
                    [] job.stage = "carrier_index"     -> 2
                    [] job.stage = "commit"            -> 1

step(i) ==
  /\ i \in Working(frontier)
  /\ frontier.jobs[i].stage # "commit"
  /\ charged[i] + Remaining(frontier.jobs[i]) < LocalBound * RunMass[i]
  /\ Charge(i)
  /\ UNCHANGED <<frontier, checkpoint_pending>>

finish(i) ==
  /\ i \in Working(frontier)
  /\ frontier.jobs[i].stage # "commit"
  /\ frontier' = Completed(frontier, i)
  /\ Charge(i)
  /\ UNCHANGED checkpoint_pending

commit(i) ==
  /\ i \in Working(frontier)
  /\ frontier.jobs[i].stage = "commit"
  /\ LET f == Handed(frontier, i) IN
       IF i = 0 THEN /\ frontier' = Rooted(f, frontier.jobs[i])
                     /\ checkpoint_pending' = TRUE
       ELSE /\ frontier' = f
            /\ checkpoint_pending' = (Unsafe(f) = {})
  /\ charged' = [j \in DOMAIN charged \ {i} |-> charged[j]]

perform ==
  /\ Serving /\ ~checkpoint_pending
  /\ LET i == Selected(frontier) IN begin(i) \/ step(i) \/ finish(i) \/ commit(i)
  /\ Spend
  /\ UNCHANGED <<published, recovery, initializing>>

checkpoint ==
  /\ Serving /\ checkpoint_pending
  /\ Checkpointed(frontier)
  /\ credit' = IF Unsafe(frontier) = {} THEN 0 ELSE credit - 1
  /\ initializing' = (initializing /\ Unsafe(frontier) # {})
  /\ UNCHANGED charged

\* The process dies, or a step fails and poisons the executor: an executor is
\* made from the last checkpoint.  Half-built merges and indexes are lost.
restart ==
  /\ frontier' = published
  /\ credit' = 0
  /\ charged' = [i \in Working(published) |-> 0]
  /\ recovery' = (Unsafe(published) # {})
  /\ checkpoint_pending' = FALSE /\ initializing' = FALSE
  /\ UNCHANGED published

Serve == perform \/ checkpoint

Next ==
  \/ \E allowance \in Allowances \cup {0} : try_contribute(allowance)
  \/ \E allowance \in Allowances : advance(allowance)
  \/ capture
  \/ \E height \in Level : try_initialize_sorted(height)
  \/ perform
  \/ checkpoint
  \/ restart

Spec == Init /\ [][Next]_vars

-----------------------------------------------------------------------------
\* Properties.

(* Whatever has been merged, restored or left undone, the next merge can begin
   and the next record has a slot: none of the errors by which begin, active
   and vacant poison the executor is ever thrown.  In particular the level
   above is safe, and its previous output was reached by a root before its
   place is taken.  (redundant-runtime.md, "Service and admission", leaves a
   universal proof of this schedule open.)                                 *)
MergesCanBegin ==
  LET f == frontier IN
  /\ \A j \in Level : Cardinality(In(f, j, "active")) <= 2
  /\ Ready(f) => In(f, 0, "empty") \cup In(f, 0, "root_carrier") # {}
  /\ Unsafe(f) # {} /\ Selected(f) \notin Working(f) => MayBegin(f, Selected(f))

\* The runs of a walk from a route, oldest first: those an object points to
\* before the object itself.
Runs(f, route) ==
  LET reached == {id \in Reached(f, route) : Mass(f.objects[id]) > 0}
      Older(a, b) == \/ f.objects[a].level > f.objects[b].level
                     \/ f.objects[a].level = f.objects[b].level /\ f.objects[b].secondary
  IN  [reached |-> reached, older |-> {p \in reached \X reached : p[1] # p[2] /\ Older(p[1], p[2])}]

(* Readers see every admitted record in exactly one run, and the runs nearer
   the root are the newer ones: no merge, hidden output, restart or initial
   batch loses, repeats or reorders what was admitted.                     *)
ChronologyIsExact ==
  \A f \in {frontier, published} :
    LET runs == Runs(f, f.root) IN
    /\ \A r \in 0..(f.admissions - 1) :
         \E id \in runs.reached : f.objects[id].first <= r /\ r < f.objects[id].last
    /\ \A a, b \in runs.reached : a # b =>
         /\ <<a, b>> \in runs.older \/ <<b, a>> \in runs.older
         /\ <<a, b>> \in runs.older => f.objects[a].last <= f.objects[b].first

HolderOf(f, id) == {p \in Level \X Slots : f.slots[p[1]][p[2]].object = id}

\* The object sits in exactly one slot, of its own level.
Held(f, id) == \E s \in Slots : HolderOf(f, id) = {<<f.objects[id].level, s>>}

Parents(f, id) == {b \in Reached(f, f.root) : id \in Ends(f.objects[b].next)}

(* What the root reaches holds a slot and is reached once: a run is never given
   up, nor its slot reused, while a query can walk into it (visibility).   *)
VisibleRunsAreHeld ==
  LET f == frontier IN
  \A id \in Reached(f, f.root) :
    /\ Held(f, id)
    /\ f.slots[f.objects[id].level][CHOOSE s \in Slots : f.slots[f.objects[id].level][s].object = id].ever_visible
    /\ id \in Ends(f.root) => Parents(f, id) = {}
    /\ Cardinality(Parents(f, id)) <= 1

(* A reader sees every admitted record once and in order, in runs whose slots
   are not given to another while the root reaches them.                    *)
ReadersAreExact == ChronologyIsExact /\ VisibleRunsAreHeld

\* A route into a level: at most a main run and a terminal secondary of it.
RouteInto(f, route, i) ==
  /\ route.secondary # Null => route.main # Null
  /\ route.main # Null => /\ Held(f, route.main)
                          /\ f.objects[route.main].level = i /\ ~f.objects[route.main].secondary
  /\ route.secondary # Null => /\ Held(f, route.secondary)
                               /\ f.objects[route.secondary].level = i
                               /\ f.objects[route.secondary].secondary

SlotRestores(f, i, s) ==
  LET x == f.slots[i][s] IN
  /\ RouteInto(f, x.route, i + 1)
  /\ x.object # Null =>
       LET run == f.objects[x.object] IN
       /\ Held(f, x.object)
       /\ run.level = i /\ run.last <= f.admissions
       /\ IF x.state = "root_carrier" THEN i = 0 /\ run.last = 0 /\ ~run.secondary
          ELSE Mass(run) = RunMass[i]
       /\ IF run.secondary THEN run.next = Nowhere ELSE RouteInto(f, run.next, i + 1)
       /\ x.object \in Reached(f, f.root) => x.ever_visible
  /\ CASE x.state = "empty"               -> x = Empty
       [] x.state \in {"active", "consumed"} -> x.object # Null /\ x.route = Nowhere
       [] x.state = "carrier_building"    -> /\ x.object = Null /\ x.route = Nowhere
                                             /\ i \in Working(f) /\ f.jobs[i].carrier_slot = s
       [] x.state = "carrier_ready"       -> x.object = Null /\ x.route.main # Null
       [] x.state = "root_carrier"        -> x.object # Null /\ f.objects[x.object].next = x.route
       [] x.state = "reserved"            -> i - 1 \in Working(f) /\ f.jobs[i - 1].destination = s

JobRestores(f, i) ==
  LET job == f.jobs[i]
      a == f.slots[i][job.inputs[1]]
      b == f.slots[i][job.inputs[2]]
      destination == f.slots[i + 1][job.destination]
      started == job.stage \in {"carrier_index", "commit"}
  IN
  /\ i + 1 < f.height
  /\ job.inputs[1] # job.inputs[2] /\ a.state = "active" /\ b.state = "active"
  /\ f.objects[a.object].last = f.objects[b.object].first
  /\ f.slots[i][job.carrier_slot].state = "carrier_building"
  /\ destination.state = "reserved" /\ destination.route = job.route
  /\ RouteInto(f, job.route, i + 2)
  /\ IF job.new_main THEN job.existing_main = Null
     ELSE RouteInto(f, [main |-> job.existing_main, secondary |-> Null], i + 1)
  /\ destination.object = job.output
  /\ (job.output # Null) = started
  /\ job.stage = "destination_index" => job.new_main
  /\ started => /\ f.objects[job.output].first = f.objects[a.object].first
                /\ f.objects[job.output].last = f.objects[b.object].last
                /\ f.objects[job.output].secondary = ~job.new_main

Restorable(f) ==
  /\ IsFrontier(f)
  /\ \A i \in Level, s \in Slots : SlotRestores(f, i, s)
  /\ \A i \in Level :
       /\ f.last[i].identity <= Len(f.objects)
       /\ Cardinality(In(f, i, "active")) <= 2
       /\ Cardinality(In(f, i, "carrier_ready") \cup In(f, i, "root_carrier")) <= 1
       /\ Cardinality(In(f, i, "reserved") \cup In(f, i, "carrier_building")) <= 1
       /\ i \in Unsafe(f) => i + 1 \notin Unsafe(f)
  /\ \A i \in Working(f) : JobRestores(f, i)
  /\ f.service_due <= service_budget(f.admissions)
  /\ Unsafe(f) = {} => f.service_due = 0
  /\ RouteInto(f, f.root, 0)
  /\ f.root.main = Null => f.admissions = 0

(* Every checkpoint can be opened again: what restore rejects is never written,
   whichever merges were under way and however far they had come.  In
   particular what a route or a job refers to is still held by a slot.     *)
CheckpointsRestore == Restorable(published)

(* Outside recovery, an executor that was offered the service it is due takes
   the next record: contribute does not fail for want of service.          *)
OfferedServiceSuffices ==
  ~Serving /\ ~recovery /\ ~checkpoint_pending /\ frontier.service_due = 0 => Ready(frontier)

(* The allowance initialization_price computes pays for the whole carry chain
   of an initial batch: try_initialize_sorted never runs out of it.        *)
InitializationIsPaid == initializing => Serving

(* The closed forms callers are charged by suffice: the service a record owes
   completes what must precede the next, and the price of an initial batch
   covers every carry (service_budget, initialization_price).               *)
PricesSuffice == OfferedServiceSuffices /\ InitializationIsPaid

(* The schedule holds, in places and in work: there is always room for the next
   merge and the next record, and what is paid for them is enough (begin, active,
   vacant, perform, service_due).                                          *)
ScheduleSuffices == MergesCanBegin /\ PricesSuffice

(* The executor settles: served until it is ready, it becomes ready, from
   whatever checkpoint it was restored.                                    *)
AdmissionReturns == <>[][~restart]_vars => []<>Ready(frontier)

Advance == \E allowance \in Allowances : advance(allowance)
MayAdvance == ~Serving /\ ~initializing /\ Pending

\* WF_vars(Serve) and WF_vars(Advance), with what enables them written out:
\* serve runs to the end of its credit, and the session's worker advances an
\* engine that is pending (session.h: run).
Fairness ==
  /\ []<>~Serving \/ []<><<Serve>>_vars
  /\ []<>~MayAdvance \/ []<><<Advance>>_vars

FairSpec == Spec /\ Fairness
=============================================================================
