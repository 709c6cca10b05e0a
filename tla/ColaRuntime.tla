---------------------------- MODULE ColaRuntime -----------------------------
(***************************************************************************)
(* cola_runtime: the binary COLA executor.  Every admission becomes a run  *)
(* of mass one at the head of the query graph; when the two newest runs    *)
(* have one mass, a private job merges them, and goes on while the result  *)
(* meets an equal mass, before one new index chain replaces what it used.  *)
(*                                                                         *)
(* A native is a function from its keys to the admission whose value it    *)
(* holds; an index node is its native, its size and its main target.       *)
(***************************************************************************)
EXTENDS Naturals, Sequences, SequencesExt, FiniteSets

CONSTANTS
  RecordKeys,      \* numbers, in key order
  Batches,         \* sequences of keys a caller contributes at once
  Budgets,         \* credit granted per record or by advance
  GroupSize,       \* P::group_size
  BlockSize,       \* P::codec_block_size
  MaxAdmissions    \* admissions explored (a bound of the model)

VARIABLES
  published,   \* the snapshot: admissions, runs oldest first, and the head of its query graph
  job,         \* the continuation, or NoJob
  credit,
  failed,
  batch,       \* the contribute call in progress, or NoBatch
  admitted     \* the keys of all records callers may rely on (history)
runtimeVars == <<published, job, credit, failed, batch, admitted>>

Nil == [size |-> 0]
NoJob == [stage |-> "none"]
NoBatch == [rest |-> <<>>, before |-> <<>>, budget |-> 0, done |-> <<>>]

Groups(n) == (n + GroupSize - 1) \div GroupSize
blocks(n) == (n + BlockSize - 1) \div BlockSize

\* cola_index: the native's keys and a sample of every group of the target.
Node(native, main) ==
  [native |-> native, main |-> main, depth |-> (IF main = Nil THEN 0 ELSE main.depth) + 1,
   size |-> Cardinality(DOMAIN native) + Groups(main.size)]
EmptyNative == [k \in {} |-> 0]
Mass(run) == run.last - run.first

Snapshot(head, runs, admissions) == [head |-> head, runs |-> runs, admissions |-> admissions]
settled(s) == LET n == Len(s.runs) IN n < 2 \/ Mass(s.runs[n - 1]) # Mass(s.runs[n])

\* continuation: the two newest runs leave the prefix.
Continuation(s) ==
  LET n == Len(s.runs) IN
  [stage |-> "merge_start", prefix |-> SubSeq(s.runs, 1, n - 2), older |-> s.runs[n - 1],
   carry |-> s.runs[n].node.native, first |-> s.runs[n].first, last |-> s.runs[n].last,
   target |-> s.runs[n - 1].node.main, head |-> Nil, result |-> Nil, carrier |-> FALSE, left |-> 0]
JobOf(s) == IF settled(s) THEN NoJob ELSE Continuation(s)

-----------------------------------------------------------------------------
\* Service.  An execution is what it has published, its job and its credit.

Merged(older, newer) ==
  [k \in DOMAIN older \cup DOMAIN newer |-> IF k \in DOMAIN newer THEN newer[k] ELSE older[k]]

\* near: empty routing nodes are dropped while what follows is small enough.
RECURSIVE near(_, _)
near(target, mass) ==
  IF /\ target # Nil /\ target.native = EmptyNative /\ target.main # Nil
     /\ target.main.size <= mass * GroupSize
  THEN near(target.main, mass) ELSE target

price(j) ==
  CASE j.stage \in {"merge_start", "merge_step"} -> 3
    [] j.stage = "merge_finish" -> blocks(Cardinality(DOMAIN j.older.node.native \cup DOMAIN j.carry)) + 2
    [] j.stage = "index_start" -> 5
    [] j.stage = "index_step" -> GroupSize + 6
    [] j.stage = "index_finish" -> blocks(Groups(j.target.size)) + 5
    [] j.stage = "publish" -> Len(j.prefix) + j.head.depth + 2

Steps(j, count, step, finish) == [j EXCEPT !.left = count, !.stage = IF count = 0 THEN finish ELSE step]
Step(j, finish) == [j EXCEPT !.left = @ - 1, !.stage = IF j.left = 1 THEN finish ELSE @]
Indexed(j) == IF j.carrier THEN EmptyNative ELSE j.carry

Cascades(j) == j.prefix # <<>> /\ Mass(Last(j.prefix)) = j.last - j.older.first

perform(e) ==
  LET j == e.job
      merged == Merged(j.older.node.native, j.carry)
      node == Node(Indexed(j), j.target)
      result == IF j.carrier THEN j.result ELSE node
      On(next) == [e EXCEPT !.job = next]
  IN CASE j.stage = "merge_start" -> On(Steps(j, Cardinality(DOMAIN merged), "merge_step", "merge_finish"))
       [] j.stage = "merge_step" -> On(Step(j, "merge_finish"))
       [] j.stage = "merge_finish" /\ Cascades(j) ->
            On([j EXCEPT !.carry = merged, !.first = j.older.first, !.older = Last(j.prefix),
                         !.prefix = Front(@), !.target = Last(j.prefix).node.main, !.stage = "merge_start"])
       [] j.stage = "merge_finish" /\ ~Cascades(j) ->
            On([j EXCEPT !.carry = merged, !.first = j.older.first,
                         !.target = near(@, j.last - j.older.first), !.stage = "index_start"])
       [] j.stage = "index_start" ->
            On(Steps(j, Cardinality(DOMAIN Indexed(j)) + Groups(j.target.size), "index_step", "index_finish"))
       [] j.stage = "index_step" -> On(Step(j, "index_finish"))
       [] j.stage = "index_finish" ->
            IF node.size > GroupSize
            THEN On([j EXCEPT !.head = node, !.result = result, !.target = node, !.carrier = TRUE,
                              !.stage = "index_start"])
            ELSE On([j EXCEPT !.head = node, !.result = result, !.stage = "publish"])
       [] j.stage = "publish" ->
            [published |-> Snapshot(j.head, Append(j.prefix, [first |-> j.first, last |-> j.last, node |-> j.result]),
                                    j.last),
             job |-> NoJob, credit |-> 0]

RECURSIVE serve(_)
serve(e) ==
  IF e.job = NoJob \/ price(e.job) > e.credit THEN e
  ELSE serve(perform([e EXCEPT !.credit = @ - price(e.job)]))

granted(e, amount) == [e EXCEPT !.credit = @ + amount]

RECURSIVE drain(_)
drain(e) ==
  IF e.job = NoJob THEN e
  ELSE drain(serve(IF e.credit < price(e.job) THEN granted(e, price(e.job) - e.credit) ELSE e))

\* admit: the record's native is indexed over the whole graph, at once.
admit(e, key) ==
  LET at == e.published.admissions
      head == Node([k \in {key} |-> at], e.published.head)
      s == Snapshot(head, Append(e.published.runs, [first |-> at, last |-> at + 1, node |-> head]), at + 1)
  IN  [e EXCEPT !.published = s, !.job = JobOf(s)]

Execution == [published |-> published, job |-> job, credit |-> credit]
Becomes(e) == published' = e.published /\ job' = e.job /\ credit' = e.credit

-----------------------------------------------------------------------------
Initial == Snapshot(Node(EmptyNative, Nil), <<>>, 0)
RuntimeInit ==
  /\ published = Initial /\ job = NoJob /\ credit = 0 /\ failed = FALSE
  /\ batch = NoBatch /\ admitted = <<>>

contribute(keys, budget) ==
  /\ ~failed /\ batch = NoBatch /\ keys # <<>>
  /\ published.admissions + Len(keys) <= MaxAdmissions
  /\ batch' = [rest |-> keys, before |-> published, budget |-> budget, done |-> <<>>]
  /\ UNCHANGED <<published, job, credit, failed, admitted>>

\* One record: old debt first, then its admission, then the service it pays for.
contribute_next ==
  /\ batch # NoBatch /\ batch.rest # <<>>
  /\ LET e == admit(drain(Execution), Head(batch.rest))
     IN  Becomes(IF batch.budget > 0 /\ e.job # NoJob THEN serve(granted(e, batch.budget)) ELSE e)
  /\ batch' = [batch EXCEPT !.rest = Tail(@), !.done = Append(@, Head(batch.rest))]
  /\ UNCHANGED <<failed, admitted>>

contribute_returns ==
  /\ batch # NoBatch /\ batch.rest = <<>>
  /\ admitted' = admitted \o batch.done /\ batch' = NoBatch
  /\ UNCHANGED <<published, job, credit, failed>>

\* Mutant of Restored: what the batch has published stays.
Restored_partly == published

Restored == batch.before

\* The composition or an allocation throws, at any place of the batch.
contribute_throws ==
  /\ batch # NoBatch /\ batch.rest # <<>>
  /\ published' = Restored
  /\ failed' = TRUE /\ batch' = NoBatch
  /\ UNCHANGED <<job, credit, admitted>>

advance(budget) ==
  /\ ~failed /\ batch = NoBatch /\ budget > 0 /\ job # NoJob
  /\ Becomes(serve(granted(Execution, budget)))
  /\ UNCHANGED <<failed, batch, admitted>>

advance_throws ==
  /\ ~failed /\ batch = NoBatch /\ job # NoJob
  /\ failed' = TRUE
  /\ UNCHANGED <<published, job, credit, batch, admitted>>

\* cola_runtime_snapshot::restore over the graph of the snapshot, and from_snapshot.
RECURSIVE Chain(_)
Chain(node) == IF node = Nil THEN <<>> ELSE <<node>> \o Chain(node.main)
Sources(head) == Reverse(SelectSeq(Chain(head), LAMBDA n : n.native # EmptyNative))
PowersOfTwo == {2^n : n \in 0..MaxAdmissions}

RestoreAccepts(head, intervals) ==
  /\ head.size <= GroupSize
  /\ Len(Sources(head)) = Len(intervals)
  /\ \A i \in DOMAIN intervals :
       LET mass(n) == intervals[n].last - intervals[n].first IN
       /\ intervals[i].first = IF i = 1 THEN 0 ELSE intervals[i - 1].last
       /\ mass(i) \in PowersOfTwo
       /\ i > 1 => mass(i) < mass(i - 1) \/ (i = Len(intervals) /\ mass(i) = 1 /\ mass(i - 1) = 1)
       /\ Cardinality(DOMAIN Sources(head)[i].native) <= mass(i)
Intervals(s) == [i \in DOMAIN s.runs |-> [first |-> s.runs[i].first, last |-> s.runs[i].last]]
RestoredSnapshot(head, intervals) ==
  Snapshot(head, [i \in DOMAIN intervals |-> [first |-> intervals[i].first, last |-> intervals[i].last,
                                              node |-> Sources(head)[i]]],
           IF intervals = <<>> THEN 0 ELSE Last(intervals).last)

reopen ==
  /\ batch = NoBatch
  /\ RestoreAccepts(published.head, Intervals(published))
  /\ LET s == RestoredSnapshot(published.head, Intervals(published))
     IN  published' = s /\ job' = JobOf(s)
  /\ credit' = 0 /\ failed' = FALSE
  /\ UNCHANGED <<batch, admitted>>

RuntimeNext ==
  \/ \E keys \in Batches, budget \in Budgets : contribute(keys, budget)
  \/ \E budget \in Budgets : advance(budget)
  \/ contribute_next \/ contribute_returns \/ contribute_throws \/ advance_throws \/ reopen

-----------------------------------------------------------------------------
\* What snapshot() must denote now.
History == IF batch = NoBatch THEN admitted ELSE admitted \o batch.done
Newest(first, last) ==
  LET at(k) == {i \in (first + 1)..last : History[i] = k}
  IN  [k \in {History[i] : i \in (first + 1)..last} |-> (CHOOSE i \in at(k) : \A j \in at(k) : j <= i) - 1]

(* Whatever was merged, cascaded, thrown away or reopened, the published runs
   cut exactly the admissions callers rely on into intervals, each run holding
   the newest value of every key admitted in its interval, and the query graph
   meets just these runs, newest first, from one bounded head: restoring it is
   always accepted and finds the same runs (perform, contribute's rollback,
   restore).  *)
RunsDenoteTheAdmissions ==
  /\ published.admissions = Len(History)
  /\ \A i \in DOMAIN published.runs :
       published.runs[i].node.native = Newest(published.runs[i].first, published.runs[i].last)
  /\ RestoreAccepts(published.head, Intervals(published))
  /\ RestoredSnapshot(published.head, Intervals(published)) = published

\* The direct charges of admit, immediate_index and start_job, in their order.
admission_charge ==
  LET borrowed == Groups(published.head.size)
      occurrences == 1 + borrowed
      runs == Len(published.runs) + 1
  IN  1 + 1 + 2 + 5 + occurrences * (1 + GroupSize + 5) + (blocks(borrowed) + 2) + 3
      + (runs + (published.head.depth + 1) + 1)
      + (IF published.runs # <<>> /\ Mass(Last(published.runs)) = 1 THEN runs + 1 ELSE 0)

admission_cost ==
  LET borrowed == Groups(published.head.size)
      r == Len(published.runs)
  IN  9 + (borrowed + 1) * (GroupSize + 6) + (blocks(borrowed) + 5) + (r + published.head.depth + 3)
      + (IF r > 0 /\ Mass(published.runs[r]) = 1 THEN r + 2 ELSE 0)

(* A job is pending exactly if the two newest runs have one mass, and at most one
   pair has, so admission after a drain never meets two debts; then the price
   quoted for a record is what its admission charges (start_job, publish,
   admission_cost).  *)
OneDebt ==
  /\ ~failed => (job # NoJob <=> ~settled(published))
  /\ job = NoJob => admission_cost = admission_charge
=============================================================================
