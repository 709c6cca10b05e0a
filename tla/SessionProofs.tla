--------------------------- MODULE SessionProofs ---------------------------
(***************************************************************************)
(* Proofs about module Session for any number of requests and closers, any *)
(* charges and limits, and any engine, and in the last two parts about     *)
(* modules Catalog, where the sessions of a store have their names, and    *)
(* CatalogObjects, the rows of the objects they are made of.               *)
(*                                                                         *)
(* The inductive invariant says where every unsettled request is: in the   *)
(* queue, in the worker's hands, in the list failed() rejects, or in a     *)
(* canceller's hands, and in one of them only.  From this ownership follow *)
(* the exact count of outstanding reservations, and from the count that a  *)
(* worker which has ended left nothing behind.                             *)
(***************************************************************************)
EXTENDS Session, Catalog, CatalogObjects, DataLemmas

----------------------------------------------------------------------------
(* The inductive invariant *)

\* Every unsettled request is in exactly one pair of hands, so its promise is
\* set by one thread only and never twice.
OneOwner ==
  /\ Unsettled = ToSet(queue) \cup ToSet(abandoned) \cup cancelling \cup ({item} \ {None})
  /\ IsInjective(queue) /\ IsInjective(abandoned)
  /\ ToSet(queue) \cap ToSet(abandoned) = {}
  /\ cancelling \cap (ToSet(queue) \cup ToSet(abandoned)) = {}
  /\ item \notin ToSet(queue) \cup ToSet(abandoned) \cup cancelling

\* What the worker's position says about its request, its list and the flags.
WorkerPlace ==
  /\ worker \in {"contribute", "resolve", "reject"} => item # None
  /\ worker \in {"wait", "advance", "abandon", "drain", "exited"} => item = None
  /\ worker \in {"abandon", "drain"} => failure
  /\ failure => /\ worker \in {"abandon", "drain", "exited"}
                /\ closing
                /\ queue = <<>>
  /\ worker = "exited" => closing /\ count = 0
  /\ abandoned # <<>> => worker = "abandon"

\* Only an accepted request has a promise that can be set.
OnlyAcceptedSettle ==
  \A r \in Requests : outcome[r] # "open" => call[r] = "accepted"

\* count_ counts the outstanding requests and respects its limit.
CountExact ==
  /\ count = Cardinality(Outstanding)
  /\ count <= Limits.contributions

\* The published world, its generation and its identity belong together.
PublishedConsistent ==
  /\ current.generation = Len(current.world)
  /\ current.logical \in {None} \cup ToSet(current.world)
  /\ worker = "resolve" => /\ current.generation > 0
                           /\ current.world[current.generation] = item

Ownership == OneOwner /\ WorkerPlace /\ OnlyAcceptedSettle /\ CountExact

IInv == TypeOK /\ Ownership /\ PublishedConsistent /\ TicketsTellTheTruth

----------------------------------------------------------------------------
(* Counting *)

\* Finitely many requests can be outstanding, before and after any step.
LEMMA OutstandingFinite ==
  /\ IsFiniteSet(Outstanding)
  /\ Cardinality(Outstanding) \in Nat
  /\ IsFiniteSet(Outstanding')
  BY SessionAssumption, FS_Subset, FS_CardinalityType DEF Outstanding, Unsettled

\* A reservation adds one outstanding request.
LEMMA CountUp ==
  ASSUME NEW r \in Requests, count = Cardinality(Outstanding),
         r \notin Outstanding, Outstanding' = Outstanding \cup {r},
         count' = count + 1
  PROVE  count' = Cardinality(Outstanding')
  BY OutstandingFinite, FS_AddElement

\* A refund removes one, and there was one to remove.
LEMMA CountDown ==
  ASSUME NEW r \in Requests, count = Cardinality(Outstanding),
         r \in Outstanding, Outstanding' = Outstanding \ {r},
         count' = count - 1
  PROVE  /\ count' = Cardinality(Outstanding')
         /\ count > 0 /\ count' \in Nat
  <1>1. Cardinality(Outstanding') = Cardinality(Outstanding) - 1
    BY OutstandingFinite, FS_RemoveElement
  <1>2. Cardinality(Outstanding) # 0
    BY OutstandingFinite, FS_EmptySet
  <1>3. QED
    BY <1>1, <1>2, OutstandingFinite

----------------------------------------------------------------------------
(* What the shared helpers of the actions do *)

Outcomes == {"open", "value", "rejected", "cancelled", "failed"}

\* An engine charges natural amounts.
LEMMA ChargeType ==
  ASSUME NEW r \in Requests
  PROVE  Charge[r].work \in Nat /\ Charge[r].bytes \in Nat
  BY SessionAssumption DEF Reservation

\* unreserve takes one from count_ and a charge from reserved_.
LEMMA UnreserveType ==
  ASSUME TypeOK, NEW r \in Requests, Unreserve(r)
  PROVE  reserved' \in [work : Int, bytes : Int] /\ count' = count - 1
  <1>1. reserved.work \in Int /\ reserved.bytes \in Int
    BY DEF TypeOK
  <1>2. reserved.work - Charge[r].work \in Int /\ reserved.bytes - Charge[r].bytes \in Int
    BY <1>1, ChargeType
  <1>3. QED
    BY <1>2 DEF Unreserve

\* Settling a ticket refunds exactly its request.
LEMMA SettleEffect ==
  ASSUME TypeOK, CountExact, NEW r \in Unsettled, NEW how \in Outcomes \ {"open"},
         Settle(r, how), UNCHANGED call
  PROVE  /\ r \in Requests /\ r \in Outstanding
         /\ outcome' = [outcome EXCEPT ![r] = how]
         /\ outcome' \in [Requests -> Outcomes]
         /\ reserved' \in [work : Int, bytes : Int]
         /\ Unsettled' = Unsettled \ {r}
         /\ Outstanding' = Outstanding \ {r}
         /\ count' \in Nat
         /\ CountExact'
  <1>1. r \in Requests /\ r \in Outstanding /\ outcome[r] = "open" /\ call[r] = "accepted"
    BY DEF Unsettled, Outstanding
  <1>2. outcome' = [outcome EXCEPT ![r] = how]
    BY DEF Settle
  <1>3. outcome' \in [Requests -> Outcomes]
    BY <1>2 DEF TypeOK, Outcomes
  <1>4. reserved' \in [work : Int, bytes : Int] /\ count' = count - 1
    BY <1>1, UnreserveType DEF Settle
  <1>5. Unsettled' = Unsettled \ {r}
    BY <1>1, <1>2 DEF Unsettled, TypeOK
  <1>6. Outstanding' = Outstanding \ {r}
    BY <1>1, <1>5 DEF Outstanding
  <1>7. count' = Cardinality(Outstanding') /\ count' \in Nat /\ count > 0
    BY <1>1, <1>4, <1>6, CountDown DEF CountExact
  <1>8. count' <= Limits.contributions
    <2>1. count <= Limits.contributions /\ count \in Nat
      BY DEF CountExact, TypeOK
    <2>2. Limits.contributions \in Nat
      BY SessionAssumption
    <2>3. QED
      BY <1>4, <2>1, <2>2
  <1>9. QED
    BY <1>1, <1>2, <1>3, <1>4, <1>5, <1>6, <1>7, <1>8 DEF CountExact

\* A request that could not be built gives its reservation back.
LEMMA UndoEffect ==
  ASSUME TypeOK, CountExact, NEW r \in Requests, Undo(r), UNCHANGED ticketVars
  PROVE  /\ r \in Outstanding
         /\ reserved' \in [work : Int, bytes : Int]
         /\ Unsettled' = Unsettled
         /\ count' \in Nat
         /\ CountExact'
  <1>1. call[r] = "undoing" /\ call' = [call EXCEPT ![r] = "refused"]
    BY DEF Undo, Becomes
  <1>2. r \in Outstanding
    BY <1>1 DEF Outstanding
  <1>3. reserved' \in [work : Int, bytes : Int] /\ count' = count - 1
    BY UnreserveType DEF Undo
  <1>4. Unsettled' = Unsettled
    BY <1>1 DEF Unsettled, TypeOK, ticketVars
  <1>5. Outstanding' = Outstanding \ {r}
    BY <1>1, <1>4 DEF Outstanding, Unsettled, TypeOK
  <1>6. count' = Cardinality(Outstanding') /\ count' \in Nat /\ count > 0
    BY <1>2, <1>3, <1>5, CountDown DEF CountExact
  <1>7. count' <= Limits.contributions
    <2>1. count <= Limits.contributions /\ count \in Nat
      BY DEF CountExact, TypeOK
    <2>2. Limits.contributions \in Nat
      BY SessionAssumption
    <2>3. QED
      BY <1>3, <2>1, <2>2
  <1>8. QED
    BY <1>2, <1>3, <1>4, <1>6, <1>7 DEF CountExact

\* Reading the engine's answer into pending.
LEMMA ObserveType ==
  ASSUME NEW e \in EngineStates, Observe(e)
  PROVE  engine' \in EngineStates /\ pending' \in BOOLEAN
  <1>1. (e.debt > 0) \in BOOLEAN
    OBVIOUS
  <1>2. QED
    BY <1>1 DEF Observe

\* A publication is well formed.
LEMMA PublishType ==
  ASSUME TypeOK, NEW world \in Seq(Requests), NEW logical \in Requests \cup {None},
         NEW n \in {0, 1}, Publish(world, logical, n)
  PROVE  current' \in [generation : Nat, revision : Nat,
                       logical : Requests \cup {None}, world : Seq(Requests)]
  <1>1. current.generation + n \in Nat /\ current.revision + 1 \in Nat
    BY DEF TypeOK
  <1>2. QED
    BY <1>1 DEF Publish

----------------------------------------------------------------------------
(* The type invariant, action by action *)

\* Type correctness needs the owners: a refund finds a positive count.
LEMMA TypeStep ==
  ASSUME TypeOK, Ownership, [Next]_vars
  PROVE  TypeOK'
  <1>1. ASSUME NEW r \in Requests, Submit(r)
        PROVE  TypeOK'
    <2>1. CASE Refuse(r) \/ Block(r) \/ PushThrows(r)
      <3>1. UNCHANGED <<outcome, yielded, closing, failure, worker, item, abandoned, pending,
                        engine, reserved, count, queue, current, cancelling, closer, arrivals>>
        BY <1>1, <2>1 DEF Submit, Refuse, Block, PushThrows, ticketVars, flagVars, workVars,
           budgetVars
      <3>2. \E stage \in {"refused", "waiting", "undoing"} : call' = [call EXCEPT ![r] = stage]
        BY <2>1 DEF Refuse, Block, PushThrows, Becomes
      <3>3. wakers' = wakers /\ (asleep' = asleep \/ asleep' = asleep \cup {r})
        BY <2>1 DEF Refuse, Block, PushThrows
      <3> QED
        BY <3>1, <3>2, <3>3 DEF TypeOK, Threads
    <2>2. CASE Reserve(r)
      <3>1. reserved.work \in Int /\ reserved.bytes \in Int /\ count \in Nat
        BY DEF TypeOK
      <3>2. reserved' \in [work : Int, bytes : Int] /\ count' \in Nat
        BY <2>2, <3>1, ChargeType DEF Reserve
      <3>3. call' = [call EXCEPT ![r] = "constructing"]
        BY <2>2 DEF Reserve, Becomes
      <3>4. UNCHANGED <<ticketVars, flagVars, current, workVars, cancelling, closer,
                        queue, asleep, wakers, arrivals>>
        BY <1>1, <2>2 DEF Submit, Reserve
      <3>5. QED
        BY <3>2, <3>3, <3>4 DEF TypeOK, ticketVars, flagVars, workVars, Threads
    <2>3. CASE Push(r)
      <3>1. queue' \in Seq(Requests) /\ arrivals' \in Seq(Requests)
        BY <2>3, AppendElements DEF Push, TypeOK
      <3>2. call' = [call EXCEPT ![r] = "accepted"] /\ wakers' = wakers \cup {r}
        BY <2>3 DEF Push, Becomes
      <3>3. UNCHANGED <<ticketVars, flagVars, current, workVars, cancelling, closer,
                        budgetVars, asleep>>
        BY <1>1, <2>3 DEF Submit, Push
      <3>4. QED
        BY <3>1, <3>2, <3>3 DEF TypeOK, ticketVars, flagVars, workVars, budgetVars, Threads
    <2>4. CASE Undo(r)
      <3>1. count' \in Nat /\ reserved' \in [work : Int, bytes : Int]
        BY <1>1, <2>4, UndoEffect DEF Ownership, Submit
      <3>2. call' = [call EXCEPT ![r] = "refused"] /\ wakers' = wakers \cup {r}
        BY <2>4 DEF Undo, Becomes
      <3>3. UNCHANGED <<ticketVars, flagVars, current, workVars, cancelling, closer,
                        queue, asleep, arrivals>>
        BY <1>1, <2>4 DEF Submit, Undo
      <3>4. QED
        BY <3>1, <3>2, <3>3 DEF TypeOK, ticketVars, flagVars, workVars, Threads
    <2>5. QED
      BY <1>1, <2>1, <2>2, <2>3, <2>4 DEF Submit
  <1>2. ASSUME NEW r \in Requests, Cancel(r)
        PROVE  TypeOK'
    <2>1. CASE Erase(r)
      <3>1. queue' \in Seq(Requests)
        BY <2>1, RemoveElements DEF Erase, TypeOK, Ownership, OneOwner
      <3>2. QED
        BY <1>2, <2>1, <3>1 DEF Cancel, Erase, TypeOK, Threads,
           flagVars, workVars, budgetVars
    <2>2. CASE SettleCancelled(r)
      <3>1. r \in Unsettled
        BY <2>2 DEF SettleCancelled, Ownership, OneOwner
      <3>2. UNCHANGED <<call, arrivals, yielded, flagVars, current, workVars, closer,
                        asleep, queue>>
        BY <1>2, <2>2 DEF Cancel, SettleCancelled
      <3>3. Settle(r, "cancelled") /\ wakers' = wakers \cup {r} /\ cancelling' = cancelling \ {r}
        BY <2>2 DEF SettleCancelled
      <3>4. /\ outcome' \in [Requests -> Outcomes]
            /\ reserved' \in [work : Int, bytes : Int]
            /\ count' \in Nat
        BY <3>1, <3>2, <3>3, SettleEffect DEF Ownership, Outcomes
      <3>5. QED
        BY <3>2, <3>3, <3>4 DEF TypeOK, Threads, flagVars, workVars, Outcomes
    <2>3. QED
      BY <1>2, <2>1, <2>2 DEF Cancel
  <1>3. ASSUME NEW c \in Closers, Shutdown(c)
        PROVE  TypeOK'
    BY <1>3 DEF Shutdown, Close, Join, TypeOK, Threads, ticketVars, workVars, budgetVars
  <1>4. ASSUME NEW t \in Threads, Wake(t)
        PROVE  TypeOK'
    BY <1>4 DEF Wake, TypeOK, Threads, ticketVars, workVars, budgetVars, flagVars
  <1>5. CASE Work /\ Await
    <2>1. CASE Claim
      <3>1. Head(queue) \in Requests /\ Tail(queue) \in Seq(Requests)
        BY <2>1, TailElements DEF Claim, Claimable, TypeOK, Ownership, OneOwner
      <3>2. QED
        BY <1>5, <2>1, <3>1 DEF Work, Await, Claim, TypeOK, Threads, ticketVars, flagVars,
           budgetVars
    <2>2. CASE RefuseEngine \/ Sleep \/ Exit \/ Maintain
      BY <1>5, <2>2 DEF Work, Await, RefuseEngine, Sleep, Exit, Maintain, TypeOK, Threads,
         ticketVars, flagVars, budgetVars
    <2>3. QED
      BY <1>5, <2>1, <2>2 DEF Await
  <1>6. CASE Work /\ Contribute
    <2>1. UNCHANGED <<ticketVars, queue, budgetVars, flagVars, item, abandoned, asleep,
                      wakers, call, arrivals, cancelling, closer>>
      BY <1>6 DEF Work, Contribute
    <2>2. current' \in [generation : Nat, revision : Nat,
                       logical : Requests \cup {None}, world : Seq(Requests)]
      <3>1. CASE Applied
        <4>1. item \in Requests
          BY <1>6 DEF Contribute, At, Ownership, WorkerPlace, TypeOK
        <4>2. Append(current.world, item) \in Seq(Requests)
          BY <4>1 DEF TypeOK
        <4>3. QED
          BY <3>1, <4>1, <4>2, PublishType DEF Applied
      <3>2. CASE Rejected \/ Broken
        BY <3>2 DEF Rejected, Broken, TypeOK
      <3>3. QED
        BY <1>6, <3>1, <3>2 DEF Contribute
    <2>3. engine' \in EngineStates /\ pending' \in BOOLEAN
      BY <1>6, ObserveType DEF Contribute, Applied, Rejected, Broken, TypeOK
    <2>4. worker' \in {"resolve", "reject", "fail"}
      BY <1>6 DEF Contribute, Applied, Rejected, Broken
    <2>5. QED
      BY <2>1, <2>2, <2>3, <2>4 DEF TypeOK, Threads, ticketVars, flagVars, budgetVars
  <1>7. CASE Work /\ Report
    <2>1. item \in Requests /\ item \in Unsettled
      BY <1>7 DEF Report, At, Ownership, WorkerPlace, OneOwner, TypeOK
    <2>2. UNCHANGED <<call, queue, flagVars, current, abandoned, pending, engine, asleep,
                      arrivals, cancelling, closer>>
      BY <1>7 DEF Work, Report
    <2>3. /\ outcome' \in [Requests -> Outcomes]
          /\ reserved' \in [work : Int, bytes : Int]
          /\ count' \in Nat
      BY <1>7, <2>1, <2>2, SettleEffect DEF Report, Ownership, Outcomes
    <2>4. yielded' \in [Requests -> Nat]
      BY <1>7, <2>1 DEF Report, TypeOK
    <2>5. item' = None /\ worker' = "wait" /\ wakers' = wakers \cup {Worker}
      BY <1>7 DEF Report
    <2>6. QED
      BY <2>2, <2>3, <2>4, <2>5 DEF TypeOK, Threads, flagVars, Outcomes
  <1>8. CASE Work /\ Advance
    <2>1. UNCHANGED <<ticketVars, queue, budgetVars, flagVars, item, abandoned, asleep,
                      wakers, call, arrivals, cancelling, closer>>
      BY <1>8 DEF Work, Advance
    <2>2. current' \in [generation : Nat, revision : Nat,
                       logical : Requests \cup {None}, world : Seq(Requests)]
      <3>1. ASSUME Publish(current.world, current.logical, 0)
            PROVE  current' \in [generation : Nat, revision : Nat,
                                logical : Requests \cup {None}, world : Seq(Requests)]
        BY <3>1, PublishType DEF TypeOK
      <3>2. QED
        BY <1>8, <3>1 DEF Advance, Serve, Broken, TypeOK
    <2>3. engine' \in EngineStates /\ pending' \in BOOLEAN
      BY <1>8, ObserveType DEF Advance, Serve, Broken, TypeOK
    <2>4. worker' \in {"wait", "fail"}
      BY <1>8 DEF Advance, Serve, Broken
    <2>5. QED
      BY <2>1, <2>2, <2>3, <2>4 DEF TypeOK, Threads, ticketVars, flagVars, budgetVars
  <1>9. CASE Work /\ Fail
    <2>1. item # None => <<item>> \o queue \in Seq(Requests)
      BY PrependElements DEF TypeOK
    <2>2. QED
      BY <1>9, <2>1 DEF Work, Fail, TypeOK, Threads, ticketVars, budgetVars
  <1>10. CASE Work /\ Abandon
    <2>1. CASE abandoned # <<>>
      <3>1. /\ Head(abandoned) \in Requests
            /\ Tail(abandoned) \in Seq(Requests)
            /\ Head(abandoned) \in Unsettled
        BY <2>1, TailElements DEF TypeOK, Ownership, OneOwner
      <3>2. UNCHANGED <<yielded, queue, flagVars, current, item, pending, engine, asleep,
                        worker, wakers, call, arrivals, cancelling, closer>>
        BY <1>10, <2>1 DEF Work, Abandon
      <3>3. Settle(Head(abandoned), "failed") /\ abandoned' = Tail(abandoned)
        BY <1>10, <2>1 DEF Abandon
      <3>4. /\ outcome' \in [Requests -> Outcomes]
            /\ reserved' \in [work : Int, bytes : Int]
            /\ count' \in Nat
        BY <3>1, <3>2, <3>3, SettleEffect DEF Ownership, Outcomes
      <3>5. QED
        BY <3>1, <3>2, <3>3, <3>4 DEF TypeOK, Threads, flagVars, Outcomes
    <2>2. CASE abandoned = <<>>
      BY <1>10, <2>2 DEF Work, Abandon, TypeOK, Threads, flagVars, budgetVars
    <2>3. QED
      BY <2>1, <2>2
  <1>11. CASE Work /\ Drain
    BY <1>11 DEF Work, Drain, TypeOK, Threads, ticketVars, flagVars, budgetVars
  <1>12. CASE UNCHANGED vars
    BY <1>12 DEF vars, TypeOK, Threads, ticketVars, flagVars, budgetVars, workVars
  <1>13. QED
    BY <1>1, <1>2, <1>3, <1>4, <1>5, <1>6, <1>7, <1>8, <1>9, <1>10, <1>11, <1>12
       DEF Next, Work

----------------------------------------------------------------------------
(* The owners, action by action *)

\* A step that moves no request between hands keeps the owners.
LEMMA SameOwners ==
  ASSUME OneOwner, Unsettled' = Unsettled, UNCHANGED <<queue, abandoned, cancelling, item>>
  PROVE  OneOwner'
  BY DEF OneOwner, ToSet, IsInjective

\* Nor the count.
LEMMA SameCount ==
  ASSUME CountExact, Outstanding' = Outstanding, count' = count
  PROVE  CountExact'
  BY DEF CountExact

\* enqueue: a reservation becomes outstanding, and then queued or refunded.
LEMMA SubmitOwners ==
  ASSUME TypeOK, Ownership, NEW r \in Requests, Submit(r)
  PROVE  Ownership'
  <1>1. UNCHANGED <<ticketVars, flagVars, current, workVars, cancelling, closer>>
    BY DEF Submit
  <1>2. CASE Refuse(r) \/ Block(r) \/ PushThrows(r)
    <2>1. /\ UNCHANGED <<queue, budgetVars>>
          /\ call[r] \in {"idle", "waiting", "constructing"}
          /\ \E stage \in {"refused", "waiting", "undoing"} :
                /\ call' = [call EXCEPT ![r] = stage]
                /\ call[r] = "constructing" <=> stage = "undoing"
      BY <1>2 DEF Refuse, Block, PushThrows, Becomes, Testing
    <2>2. Unsettled' = Unsettled /\ Outstanding' = Outstanding
      BY <2>1, <1>1 DEF Outstanding, Unsettled, TypeOK, ticketVars
    <2>3. OneOwner' /\ CountExact'
      BY <2>1, <2>2, <1>1, SameOwners, SameCount DEF Ownership, workVars, budgetVars
    <2>4. WorkerPlace'
      BY <2>1, <1>1 DEF Ownership, WorkerPlace, workVars, flagVars, budgetVars
    <2>5. OnlyAcceptedSettle'
      BY <2>1, <1>1 DEF Ownership, OnlyAcceptedSettle, TypeOK, ticketVars
    <2>6. QED
      BY <2>3, <2>4, <2>5 DEF Ownership
  <1>3. CASE Reserve(r)
    <2>1. /\ call[r] \in {"idle", "waiting"}
          /\ call' = [call EXCEPT ![r] = "constructing"]
          /\ count' = count + 1 /\ count < Limits.contributions
          /\ ~closing /\ ~failure
          /\ UNCHANGED queue
      BY <1>3 DEF Reserve, Testing, Becomes, Fits, Unavailable
    <2>2. Unsettled' = Unsettled
      BY <2>1, <1>1 DEF Unsettled, TypeOK, ticketVars
    <2>3. r \notin Outstanding /\ Outstanding' = Outstanding \cup {r}
      BY <2>1, <2>2 DEF Outstanding, Unsettled, TypeOK
    <2>4. count' = Cardinality(Outstanding')
      BY <2>1, <2>3, CountUp DEF Ownership, CountExact
    <2>5. CountExact'
      BY <2>1, <2>4, SessionAssumption DEF CountExact, TypeOK
    <2>6. OneOwner'
      BY <2>1, <2>2, <1>1, SameOwners DEF Ownership, workVars
    <2>7. WorkerPlace'
      BY <2>1, <1>1 DEF Ownership, WorkerPlace, workVars, flagVars
    <2>8. OnlyAcceptedSettle'
      BY <2>1, <1>1 DEF Ownership, OnlyAcceptedSettle, TypeOK, ticketVars
    <2>9. QED
      BY <2>5, <2>6, <2>7, <2>8 DEF Ownership
  <1>4. CASE Push(r)
    <2>1. /\ call[r] = "constructing" /\ ~failure
          /\ call' = [call EXCEPT ![r] = "accepted"]
          /\ queue' = Append(queue, r)
          /\ UNCHANGED budgetVars
      BY <1>4 DEF Push, Becomes
    <2>2. outcome[r] = "open"
      BY <2>1 DEF Ownership, OnlyAcceptedSettle
    <2>3. Unsettled' = Unsettled \cup {r} /\ r \notin Unsettled
      BY <2>1, <2>2, <1>1 DEF Unsettled, TypeOK, ticketVars
    <2>4. Outstanding' = Outstanding
      BY <2>1, <2>3 DEF Outstanding, Unsettled, TypeOK
    <2>5. ToSet(queue') = ToSet(queue) \cup {r} /\ IsInjective(queue')
      <3>1. r \notin ToSet(queue)
        BY <2>3 DEF Ownership, OneOwner
      <3>2. QED
        BY <2>1, <3>1, AppendElements DEF TypeOK, Ownership, OneOwner
    <2>6. OneOwner'
      BY <2>3, <2>5, <1>1, SessionAssumption DEF Ownership, OneOwner, workVars
    <2>7. CountExact'
      BY <2>1, <2>4, SameCount DEF Ownership, budgetVars
    <2>8. WorkerPlace'
      <3>1. Outstanding # {}
        BY <2>1 DEF Outstanding
      <3>2. count # 0
        BY <3>1, OutstandingFinite, FS_EmptySet DEF Ownership, CountExact
      <3>3. QED
        BY <2>1, <3>2, <1>1 DEF Ownership, WorkerPlace, workVars, flagVars, budgetVars
    <2>9. OnlyAcceptedSettle'
      BY <2>1, <1>1 DEF Ownership, OnlyAcceptedSettle, TypeOK, ticketVars
    <2>10. QED
      BY <2>6, <2>7, <2>8, <2>9 DEF Ownership
  <1>5. CASE Undo(r)
    <2>1. /\ call[r] = "undoing" /\ call' = [call EXCEPT ![r] = "refused"]
          /\ UNCHANGED queue
      BY <1>5 DEF Undo, Becomes
    <2>2. r \in Outstanding /\ Unsettled' = Unsettled /\ CountExact'
      BY <1>1, <1>5, UndoEffect DEF Ownership
    <2>3. OneOwner'
      BY <2>1, <2>2, <1>1, SameOwners DEF Ownership, workVars
    <2>4. WorkerPlace'
      <3>1. count # 0
        BY <2>2, OutstandingFinite, FS_EmptySet DEF Ownership, CountExact
      <3>2. QED
        BY <2>1, <3>1, <1>1 DEF Ownership, WorkerPlace, workVars, flagVars
    <2>5. OnlyAcceptedSettle'
      BY <2>1, <1>1 DEF Ownership, OnlyAcceptedSettle, TypeOK, ticketVars
    <2>6. QED
      BY <2>2, <2>3, <2>4, <2>5 DEF Ownership
  <1>6. QED
    BY <1>2, <1>3, <1>4, <1>5 DEF Submit

\* cancel: a request goes from the queue to the canceller, who settles it.
LEMMA CancelOwners ==
  ASSUME TypeOK, Ownership, NEW r \in Requests, Cancel(r)
  PROVE  Ownership'
  <1>1. UNCHANGED <<call, arrivals, yielded, flagVars, current, workVars, closer, asleep>>
    BY DEF Cancel
  <1>2. CASE Erase(r)
    <2>1. PICK i \in DOMAIN queue : queue[i] = r /\ queue' = RemoveAt(queue, i)
      BY <1>2 DEF Erase
    <2>2. cancelling' = cancelling \cup {r} /\ UNCHANGED <<outcome, budgetVars>>
      BY <1>2 DEF Erase
    <2>11. r \in ToSet(queue)
      BY <2>1 DEF ToSet
    <2>3. ToSet(queue') = ToSet(queue) \ {r} /\ IsInjective(queue')
      BY <2>1, RemoveElements DEF TypeOK, Ownership, OneOwner
    <2>4. Unsettled' = Unsettled
      BY <2>2, <1>1 DEF Unsettled
    <2>10. Outstanding' = Outstanding
      BY <2>4, <1>1 DEF Outstanding
    <2>5. OneOwner'
      BY <2>2, <2>3, <2>4, <2>11, <1>1 DEF Ownership, OneOwner, workVars
    <2>6. CountExact'
      BY <2>2, <2>10, SameCount DEF Ownership, budgetVars
    <2>7. WorkerPlace'
      <3>1. ~failure
        BY <2>1 DEF Ownership, WorkerPlace
      <3>2. QED
        BY <2>2, <3>1, <1>1 DEF Ownership, WorkerPlace, workVars, flagVars, budgetVars
    <2>8. OnlyAcceptedSettle'
      BY <2>2, <1>1 DEF Ownership, OnlyAcceptedSettle
    <2>9. QED
      BY <2>5, <2>6, <2>7, <2>8 DEF Ownership
  <1>3. CASE SettleCancelled(r)
    <2>1. /\ r \in cancelling /\ cancelling' = cancelling \ {r}
          /\ Settle(r, "cancelled") /\ UNCHANGED queue
      BY <1>3 DEF SettleCancelled
    <2>2. r \in Unsettled
      BY <2>1 DEF Ownership, OneOwner
    <2>3. /\ Unsettled' = Unsettled \ {r} /\ CountExact' /\ r \in Outstanding
          /\ outcome' = [outcome EXCEPT ![r] = "cancelled"]
      BY <2>1, <2>2, <1>1, SettleEffect DEF Ownership, Outcomes
    <2>4. OneOwner'
      BY <2>1, <2>3, <1>1 DEF Ownership, OneOwner, workVars
    <2>5. WorkerPlace'
      <3>1. count # 0
        BY <2>3, OutstandingFinite, FS_EmptySet DEF Ownership, CountExact
      <3>2. QED
        BY <2>1, <3>1, <1>1 DEF Ownership, WorkerPlace, workVars, flagVars
    <2>6. OnlyAcceptedSettle'
      BY <2>2, <2>3, <1>1 DEF Ownership, OnlyAcceptedSettle, TypeOK, Unsettled
    <2>7. QED
      BY <2>3, <2>4, <2>5, <2>6 DEF Ownership
  <1>4. QED
    BY <1>2, <1>3 DEF Cancel

\* run claims the head of the queue, sleeps, or goes on to what else is due.
LEMMA AwaitOwners ==
  ASSUME TypeOK, Ownership, Work, Await
  PROVE  Ownership'
  <1>1. /\ UNCHANGED <<ticketVars, budgetVars, flagVars, current, abandoned, call,
                       cancelling>>
        /\ worker = "wait"
    BY DEF Work, Await, At
  <1>2. Unsettled' = Unsettled /\ Outstanding' = Outstanding /\ item = None /\ ~failure
    BY <1>1 DEF Unsettled, Outstanding, ticketVars, Ownership, WorkerPlace
  <1>3. CountExact' /\ OnlyAcceptedSettle'
    BY <1>1, <1>2, SameCount DEF Ownership, OnlyAcceptedSettle, ticketVars, budgetVars
  <1>4. CASE Claim
    <2>1. queue # <<>> /\ item' = Head(queue) /\ queue' = Tail(queue) /\ worker' = "contribute"
      BY <1>4 DEF Claim, Claimable
    <2>2. /\ ToSet(queue') = ToSet(queue) \ {item'} /\ IsInjective(queue')
          /\ item' \in ToSet(queue) /\ item' \in Requests
      BY <2>1, TailElements DEF TypeOK, Ownership, OneOwner
    <2>3. OneOwner'
      BY <2>2, <1>1, <1>2, SessionAssumption DEF Ownership, OneOwner
    <2>4. WorkerPlace'
      BY <2>1, <2>2, <1>1, <1>2, SessionAssumption DEF Ownership, WorkerPlace, flagVars
    <2>5. QED
      BY <2>3, <2>4, <1>3 DEF Ownership
  <1>5. CASE RefuseEngine \/ Sleep \/ Exit \/ Maintain
    <2>1. UNCHANGED <<queue, item>>
      BY <1>5 DEF RefuseEngine, Sleep, Exit, Maintain
    <2>2. OneOwner'
      BY <2>1, <1>1, <1>2, SameOwners DEF Ownership
    <2>3. /\ worker' \in {"fail", "wait", "exited", "advance"}
          /\ worker' = "exited" => closing /\ count = 0
      BY <1>1, <1>5 DEF RefuseEngine, Sleep, Exit, Maintain
    <2>4. WorkerPlace'
      BY <2>1, <2>3, <1>1, <1>2 DEF Ownership, WorkerPlace, flagVars, budgetVars
    <2>5. QED
      BY <2>2, <2>4, <1>3 DEF Ownership
  <1>6. QED
    BY <1>4, <1>5 DEF Await

\* The engine works on the claimed request, or on its own debt.
LEMMA EngineOwners ==
  ASSUME TypeOK, Ownership, Work, Contribute \/ Advance
  PROVE  Ownership'
  <1>1. /\ UNCHANGED <<ticketVars, queue, budgetVars, flagVars, item, abandoned, call,
                       cancelling>>
    BY DEF Work, Contribute, Advance
  <1>2. Unsettled' = Unsettled /\ Outstanding' = Outstanding
    BY <1>1 DEF Unsettled, Outstanding, ticketVars
  <1>3. CountExact' /\ OnlyAcceptedSettle' /\ OneOwner'
    BY <1>1, <1>2, SameCount, SameOwners DEF Ownership, OnlyAcceptedSettle, ticketVars, budgetVars
  <1>4. \/ worker = "contribute" /\ worker' \in {"resolve", "reject", "fail"}
        \/ worker = "advance" /\ worker' \in {"wait", "fail"}
    BY DEF Contribute, Advance, At, Applied, Rejected, Broken, Serve
  <1>5. WorkerPlace'
    BY <1>1, <1>4 DEF Ownership, WorkerPlace, flagVars
  <1>6. QED
    BY <1>3, <1>5 DEF Ownership

\* run settles the request it holds and then holds none.
LEMMA ReportOwners ==
  ASSUME TypeOK, Ownership, Work, Report
  PROVE  Ownership'
  <1>1. /\ UNCHANGED <<call, queue, flagVars, abandoned, cancelling>>
        /\ worker \in {"resolve", "reject"} /\ worker' = "wait" /\ item' = None
        /\ \E how \in {"value", "rejected"} : Settle(item, how)
    BY DEF Work, Report, At
  <1>2. item \in Unsettled /\ item # None
    BY <1>1 DEF Ownership, OneOwner, WorkerPlace
  <1>3. PICK how \in {"value", "rejected"} : Settle(item, how)
    BY <1>1
  <1>4. /\ Unsettled' = Unsettled \ {item} /\ CountExact'
        /\ outcome' = [outcome EXCEPT ![item] = how]
    BY <1>1, <1>2, <1>3, SettleEffect DEF Ownership, Outcomes
  <1>5. OneOwner'
    <2>1. item' \notin Unsettled
      BY <1>1, SessionAssumption DEF Unsettled
    <2>2. QED
      BY <2>1, <1>1, <1>2, <1>4 DEF Ownership, OneOwner
  <1>6. WorkerPlace'
    BY <1>1 DEF Ownership, WorkerPlace, flagVars
  <1>7. OnlyAcceptedSettle'
    BY <1>1, <1>2, <1>4 DEF Ownership, OnlyAcceptedSettle, TypeOK, Unsettled
  <1>8. QED
    BY <1>4, <1>5, <1>6, <1>7 DEF Ownership

\* failed takes the claimed request and the queue into its own list.
LEMMA FailOwners ==
  ASSUME TypeOK, Ownership, Work, Fail
  PROVE  Ownership'
  <1>1. /\ UNCHANGED <<call, ticketVars, budgetVars, cancelling>>
        /\ worker = "fail" /\ worker' = "abandon"
        /\ failure' = TRUE /\ closing' = TRUE
        /\ queue' = <<>> /\ item' = None
        /\ abandoned' = IF item = None THEN queue ELSE <<item>> \o queue
    BY DEF Work, Fail, At
  <1>2. Unsettled' = Unsettled /\ Outstanding' = Outstanding
    BY <1>1 DEF Unsettled, Outstanding, ticketVars
  <1>3. CountExact' /\ OnlyAcceptedSettle'
    BY <1>1, <1>2, SameCount DEF Ownership, OnlyAcceptedSettle, ticketVars, budgetVars
  <1>4. abandoned = <<>> /\ ToSet(abandoned) = {}
    BY <1>1 DEF Ownership, WorkerPlace, ToSet
  <1>5. /\ ToSet(abandoned') = ToSet(queue) \cup ({item} \ {None})
        /\ IsInjective(abandoned')
    <2>1. CASE item = None
      BY <2>1, <1>1 DEF Ownership, OneOwner
    <2>2. CASE item # None
      BY <2>2, <1>1, PrependElements DEF Ownership, OneOwner, TypeOK
    <2>3. QED
      BY <2>1, <2>2
  <1>6. ToSet(queue') = {} /\ IsInjective(queue')
    BY <1>1 DEF ToSet, IsInjective
  <1>7. OneOwner'
    <2>1. item' \notin Unsettled
      BY <1>1, SessionAssumption DEF Unsettled
    <2>2. QED
      BY <2>1, <1>1, <1>2, <1>4, <1>5, <1>6 DEF Ownership, OneOwner
  <1>8. WorkerPlace'
    BY <1>1 DEF WorkerPlace
  <1>9. QED
    BY <1>3, <1>7, <1>8 DEF Ownership

\* failed settles its list one by one.
LEMMA AbandonOwners ==
  ASSUME TypeOK, Ownership, Work, Abandon
  PROVE  Ownership'
  <1>1. UNCHANGED <<call, yielded, queue, flagVars, item, cancelling>> /\ worker = "abandon"
    BY DEF Work, Abandon, At
  <1>2. CASE abandoned # <<>>
    <2> DEFINE h == Head(abandoned)
    <2>1. Settle(h, "failed") /\ abandoned' = Tail(abandoned) /\ worker' = worker
      BY <1>2 DEF Abandon
    <2>2. /\ ToSet(abandoned') = ToSet(abandoned) \ {h} /\ IsInjective(abandoned')
          /\ h \in ToSet(abandoned)
      BY <1>2, <2>1, TailElements DEF TypeOK, Ownership, OneOwner
    <2>3. h \in Unsettled
      BY <2>2 DEF Ownership, OneOwner
    <2> HIDE DEF h
    <2>4. /\ Unsettled' = Unsettled \ {h} /\ CountExact'
          /\ outcome' = [outcome EXCEPT ![h] = "failed"]
      BY <2>1, <2>3, <1>1, SettleEffect DEF Ownership, Outcomes
    <2>5. OneOwner'
      BY <2>2, <2>4, <1>1 DEF Ownership, OneOwner
    <2>6. WorkerPlace'
      BY <2>1, <1>1 DEF Ownership, WorkerPlace, flagVars
    <2>7. OnlyAcceptedSettle'
      BY <2>3, <2>4, <1>1 DEF Ownership, OnlyAcceptedSettle, TypeOK, Unsettled
    <2>8. QED
      BY <2>4, <2>5, <2>6, <2>7 DEF Ownership
  <1>3. CASE abandoned = <<>>
    <2>1. UNCHANGED <<outcome, budgetVars, abandoned>> /\ worker' = "drain"
      BY <1>3 DEF Abandon
    <2>2. Unsettled' = Unsettled /\ Outstanding' = Outstanding
      BY <2>1, <1>1 DEF Unsettled, Outstanding
    <2>3. CountExact' /\ OnlyAcceptedSettle' /\ OneOwner'
      BY <2>1, <2>2, <1>1, SameCount, SameOwners DEF Ownership, OnlyAcceptedSettle, budgetVars
    <2>4. WorkerPlace'
      BY <2>1, <1>1, <1>3 DEF Ownership, WorkerPlace, flagVars
    <2>5. QED
      BY <2>3, <2>4 DEF Ownership
  <1>4. QED
    BY <1>2, <1>3

\* Every step leaves every unsettled request in exactly one pair of hands.
LEMMA OwnersStep ==
  ASSUME TypeOK, Ownership, [Next]_vars
  PROVE  Ownership'
  <1>1. ASSUME NEW c \in Closers, Shutdown(c)
        PROVE  Ownership'
    <2>1. /\ UNCHANGED <<call, ticketVars, queue, budgetVars, failure, workVars, cancelling>>
          /\ closing => closing'
      BY <1>1 DEF Shutdown, Close, Join
    <2>2. Unsettled' = Unsettled /\ Outstanding' = Outstanding
      BY <2>1 DEF Unsettled, Outstanding, ticketVars
    <2>3. QED
      BY <2>1, <2>2, SameOwners, SameCount DEF Ownership, WorkerPlace, OnlyAcceptedSettle,
         ticketVars, workVars, budgetVars
  <1>2. ASSUME UNCHANGED <<call, ticketVars, queue, budgetVars, flagVars, cancelling,
                           item, abandoned>>,
               \/ worker' = worker
               \/ worker = "drain" /\ worker' = "exited" /\ count = 0
        PROVE  Ownership'
    <2>1. Unsettled' = Unsettled /\ Outstanding' = Outstanding
      BY <1>2 DEF Unsettled, Outstanding, ticketVars
    <2>2. WorkerPlace'
      BY <1>2 DEF Ownership, WorkerPlace, flagVars, budgetVars
    <2>3. QED
      BY <1>2, <2>1, <2>2, SameOwners, SameCount DEF Ownership, OnlyAcceptedSettle,
         ticketVars, budgetVars
  <1>3. ASSUME NEW t \in Threads, Wake(t)
        PROVE  Ownership'
    BY <1>2, <1>3 DEF Wake, workVars
  <1>4. CASE Work /\ Drain
    BY <1>2, <1>4 DEF Work, Drain, At
  <1>5. CASE UNCHANGED vars
    BY <1>2, <1>5 DEF vars, workVars
  <1>6. QED
    BY <1>1, <1>3, <1>4, <1>5, SubmitOwners, CancelOwners, AwaitOwners, EngineOwners,
       ReportOwners, FailOwners, AbandonOwners DEF Next, Work

----------------------------------------------------------------------------
(* The published world and the tickets *)

\* A step that leaves the publication and the tickets alone.
LEMMA SameTickets ==
  ASSUME PublishedConsistent, TicketsTellTheTruth, UNCHANGED <<current, ticketVars>>,
         worker # "resolve", worker' # "resolve"
  PROVE  PublishedConsistent' /\ TicketsTellTheTruth'
  BY DEF PublishedConsistent, TicketsTellTheTruth, ticketVars

\* A ticket set to an error belongs to a request outside the world.
LEMMA ErrorTickets ==
  ASSUME IInv, NEW r \in Unsettled, NEW how \in {"rejected", "cancelled", "failed"},
         outcome' = [outcome EXCEPT ![r] = how], UNCHANGED <<current, yielded>>,
         \/ worker # "resolve" /\ worker' # "resolve"
         \/ r # item /\ UNCHANGED <<worker, item>>
  PROVE  PublishedConsistent' /\ TicketsTellTheTruth'
  <1>1. r \in Requests /\ outcome[r] = "open"
    BY DEF Unsettled
  <1>2. r \notin ToSet(current.world)
    BY <1>1 DEF IInv, TicketsTellTheTruth
  <1>3. PublishedConsistent'
    BY DEF IInv, PublishedConsistent
  <1>4. TicketsTellTheTruth'
    BY <1>1, <1>2 DEF IInv, TicketsTellTheTruth, TypeOK
  <1>5. QED
    BY <1>3, <1>4

\* run publishes the world that ends in the claimed request.
LEMMA AppliedTickets ==
  ASSUME IInv, Work, Contribute, Applied
  PROVE  /\ PublishedConsistent' /\ TicketsTellTheTruth'
         /\ item \in Requests /\ item \notin ToSet(current.world)
  <1> DEFINE w == current.world
  <1>1. /\ current' = [generation |-> current.generation + 1,
                      revision   |-> current.revision + 1,
                      logical    |-> item,
                      world      |-> Append(w, item)]
        /\ UNCHANGED <<outcome, yielded, item>>
        /\ worker = "contribute" /\ worker' = "resolve"
    BY DEF Contribute, Applied, Publish, At, ticketVars
  <1>2. item \in Requests /\ outcome[item] = "open"
    BY <1>1 DEF IInv, Ownership, OneOwner, WorkerPlace, Unsettled
  <1>3. item \notin ToSet(w)
    BY <1>1, <1>2 DEF IInv, TicketsTellTheTruth
  <1>4. w \in Seq(Requests) /\ current.generation = Len(w)
    BY DEF IInv, TypeOK, PublishedConsistent
  <1> HIDE DEF w
  <1>5. /\ ToSet(Append(w, item)) = ToSet(w) \cup {item}
        /\ Len(Append(w, item)) = Len(w) + 1
        /\ Append(w, item)[Len(w) + 1] = item
        /\ \A i \in 1..Len(w) : Append(w, item)[i] = w[i]
    BY <1>2, <1>4, AppendElements
  <1>6. PublishedConsistent'
    BY <1>1, <1>4, <1>5 DEF PublishedConsistent
  <1>7. TicketsTellTheTruth'
    <2>1. ASSUME NEW r \in Requests, outcome[r] = "value"
          PROVE  yielded[r] \in 1..Len(w) /\ w[yielded[r]] = r
      BY <2>1, <1>4 DEF IInv, TicketsTellTheTruth, w
    <2>2. ASSUME NEW r \in Requests, outcome'[r] = "value"
          PROVE  yielded'[r] \in 1..current'.generation /\ current'.world[yielded'[r]] = r
      BY <2>1, <2>2, <1>1, <1>4, <1>5
    <2>3. ASSUME NEW r \in Requests, r \in ToSet(current'.world)
          PROVE  outcome'[r] = "value" \/ (r = item' /\ worker' = "resolve")
      BY <2>3, <1>1, <1>5 DEF IInv, TicketsTellTheTruth, w
    <2>4. QED
      BY <2>2, <2>3 DEF TicketsTellTheTruth
  <1>8. QED
    BY <1>2, <1>3, <1>6, <1>7 DEF w

\* Every step keeps what tickets say of the world.
LEMMA TicketsStep ==
  ASSUME IInv, [Next]_vars
  PROVE  PublishedConsistent' /\ TicketsTellTheTruth'
  <1>1. ASSUME UNCHANGED <<current, ticketVars, worker, item>>
        PROVE  PublishedConsistent' /\ TicketsTellTheTruth'
    BY <1>1 DEF IInv, PublishedConsistent, TicketsTellTheTruth, ticketVars
  <1>2. ASSUME NEW r \in Requests, Submit(r)
        PROVE  PublishedConsistent' /\ TicketsTellTheTruth'
    BY <1>1, <1>2 DEF Submit, workVars
  <1>3. ASSUME NEW r \in Requests, Cancel(r)
        PROVE  PublishedConsistent' /\ TicketsTellTheTruth'
    <2>1. CASE Erase(r)
      BY <2>1, <1>1, <1>3 DEF Cancel, Erase, workVars, ticketVars
    <2>2. CASE SettleCancelled(r)
      <3>1. r \in Unsettled /\ r # item
        BY <2>2 DEF SettleCancelled, IInv, Ownership, OneOwner
      <3>2. QED
        BY <2>2, <3>1, <1>3, ErrorTickets DEF Cancel, SettleCancelled, Settle, workVars
    <2>3. QED
      BY <1>3, <2>1, <2>2 DEF Cancel
  <1>4. ASSUME NEW c \in Closers, Shutdown(c)
        PROVE  PublishedConsistent' /\ TicketsTellTheTruth'
    BY <1>1, <1>4 DEF Shutdown, workVars
  <1>5. ASSUME NEW t \in Threads, Wake(t)
        PROVE  PublishedConsistent' /\ TicketsTellTheTruth'
    BY <1>1, <1>5 DEF Wake, workVars
  <1>6. CASE Work /\ Await
    <2>1. worker = "wait" /\ worker' \in {"wait", "fail", "contribute", "exited", "advance"}
      BY <1>6 DEF Await, At, RefuseEngine, Sleep, Claim, Exit, Maintain
    <2>2. UNCHANGED <<current, ticketVars>>
      BY <1>6 DEF Await
    <2>3. QED
      BY <2>1, <2>2, SameTickets DEF IInv
  <1>7. CASE Work /\ Contribute
    <2>1. CASE Applied
      BY <2>1, <1>7, AppliedTickets
    <2>2. CASE Rejected \/ Broken
      BY <2>2, <1>7, SameTickets DEF Contribute, At, Rejected, Broken, IInv
    <2>3. QED
      BY <1>7, <2>1, <2>2 DEF Contribute
  <1>8. CASE Work /\ Report
    <2>1. item \in Unsettled /\ item \in Requests
      BY <1>8 DEF Report, At, IInv, Ownership, OneOwner, WorkerPlace, Unsettled
    <2>2. CASE worker = "resolve"
      <3>1. /\ outcome' = [outcome EXCEPT ![item] = "value"]
            /\ yielded' = [yielded EXCEPT ![item] = current.generation]
            /\ current' = current /\ worker' = "wait"
        BY <1>8, <2>2 DEF Report, At, Settle
      <3>2. /\ current.generation \in 1..current.generation
            /\ current.world[current.generation] = item
        BY <2>2 DEF IInv, PublishedConsistent, TypeOK
      <3>3. PublishedConsistent'
        BY <3>1 DEF IInv, PublishedConsistent
      <3>4. TicketsTellTheTruth'
        BY <2>1, <3>1, <3>2 DEF IInv, TicketsTellTheTruth, TypeOK
      <3>5. QED
        BY <3>3, <3>4
    <2>3. CASE worker = "reject"
      BY <1>8, <2>1, <2>3, ErrorTickets DEF Report, At, Settle
    <2>4. QED
      BY <1>8, <2>2, <2>3 DEF Report, At
  <1>9. CASE Work /\ Advance
    <2>1. worker = "advance" /\ worker' # "resolve" /\ UNCHANGED ticketVars
      BY <1>9 DEF Advance, At, Serve, Broken
    <2>2. CASE UNCHANGED current
      BY <2>1, <2>2, SameTickets DEF IInv
    <2>3. CASE Publish(current.world, current.logical, 0)
      <3>1. /\ current'.world = current.world /\ current'.logical = current.logical
            /\ current'.generation = current.generation
        BY <2>3 DEF Publish, IInv, TypeOK
      <3>2. QED
        BY <2>1, <3>1 DEF IInv, PublishedConsistent, TicketsTellTheTruth, ticketVars
    <2>4. QED
      BY <1>9, <2>2, <2>3 DEF Advance, Serve, Broken
  <1>10. CASE Work /\ Fail
    BY <1>10, SameTickets DEF Fail, At, IInv
  <1>11. CASE Work /\ Abandon
    <2>1. CASE abandoned # <<>>
      <3>1. Head(abandoned) \in Unsettled
        BY <2>1, TailElements DEF IInv, TypeOK, Ownership, OneOwner
      <3>2. QED
        BY <1>11, <2>1, <3>1, ErrorTickets DEF Abandon, At, Settle
    <2>2. CASE abandoned = <<>>
      BY <1>11, <2>2, SameTickets DEF Abandon, At, IInv, ticketVars
    <2>3. QED
      BY <2>1, <2>2
  <1>12. CASE Work /\ Drain
    BY <1>12, SameTickets DEF Drain, At, IInv
  <1>13. CASE UNCHANGED vars
    BY <1>1, <1>13 DEF vars, workVars
  <1>14. QED
    BY <1>2, <1>3, <1>4, <1>5, <1>6, <1>7, <1>8, <1>9, <1>10, <1>11, <1>12, <1>13
       DEF Next, Work

----------------------------------------------------------------------------
(* Waiting *)

\* No step loses a wakeup: whatever can make a waited-for condition true is done
\* by a thread that is then a waker, or by the worker, who is not asleep.
LEMMA WakeupStep ==
  ASSUME TypeOK, NoLostWakeup, [Next]_vars
  PROVE  NoLostWakeup'
<1> SUFFICES ASSUME wakers' = {}, worker' # "abandon"
             PROVE  NoLostWakeup'
  BY DEF NoLostWakeup
<1> DEFINE Quiet == wakers = {} /\ worker # "abandon"
<1>1. ASSUME NEW t \in Threads, Wake(t)
      PROVE  NoLostWakeup'
  <2>1. CASE asleep' = {}
    BY <2>1 DEF NoLostWakeup
  <2>2. CASE asleep' = asleep \ {t} /\ UNCHANGED wakers
    <3>1. Quiet
      BY <1>1, <2>2 DEF Wake, workVars
    <3>2. QED
      BY <1>1, <2>2, <3>1 DEF Wake, NoLostWakeup, Unavailable, Fits, WorkToDo, workVars,
         flagVars, budgetVars
  <2>3. QED
    BY <1>1, <2>1, <2>2 DEF Wake
<1>2. ASSUME NEW q \in Requests, Submit(q)
      PROVE  NoLostWakeup'
  <2>1. ~Push(q) /\ ~Undo(q)
    BY DEF Push, Undo
  <2>2. Quiet
    BY <1>2, <2>1 DEF Submit, Refuse, Block, Reserve, PushThrows, workVars
  <2>3. CASE Refuse(q) \/ PushThrows(q)
    BY <1>2, <2>2, <2>3 DEF Submit, Refuse, PushThrows, NoLostWakeup, Unavailable, Fits, WorkToDo, workVars,
         flagVars, budgetVars
  <2>4. CASE Block(q)
    <3>1. asleep' = asleep \cup {q} /\ q # Worker /\ ~Unavailable /\ ~Fits(q)
      BY <2>4, SessionAssumption DEF Block, Full
    <3>2. UNCHANGED <<closing, failure, reserved, count, queue, pending, worker>>
      BY <1>2, <2>4 DEF Submit, Block, workVars, flagVars, budgetVars
    <3>3. QED
      BY <2>2, <3>1, <3>2 DEF NoLostWakeup, Unavailable, Fits, WorkToDo
  <2>5. CASE Reserve(q)
    <3>1. UNCHANGED <<closing, failure, queue, pending, worker, asleep>>
      BY <1>2, <2>5 DEF Submit, Reserve, workVars, flagVars
    <3>2. ~closing /\ count' = count + 1
      BY <2>5 DEF Reserve, Unavailable
    <3>3. count' \in Nat /\ count \in Nat /\ count' > count
      BY <3>2 DEF TypeOK
    <3>4. ASSUME NEW r \in asleep \ {Worker}, ~Fits(r)
          PROVE  ~Fits(r)'
      <4>1. r \in Requests
        BY DEF TypeOK
      <4>2. /\ reserved.work \in Int /\ reserved.bytes \in Int
            /\ Limits.work \in Int /\ Limits.bytes \in Int /\ Limits.contributions \in Int
            /\ Charge[q].work \in Nat /\ Charge[q].bytes \in Nat
            /\ Charge[r].work \in Nat /\ Charge[r].bytes \in Nat
        BY <4>1, SessionAssumption, ChargeType DEF TypeOK
      <4>3. /\ reserved'.work = reserved.work + Charge[q].work
            /\ reserved'.bytes = reserved.bytes + Charge[q].bytes
        BY <2>5 DEF Reserve
      <4>4. QED
        BY <3>3, <3>4, <4>2, <4>3 DEF Fits
    <3>5. QED
      BY <2>2, <3>1, <3>2, <3>3, <3>4 DEF NoLostWakeup, Unavailable, WorkToDo
  <2>6. QED
    BY <1>2, <2>1, <2>3, <2>4, <2>5 DEF Submit
<1>3. ASSUME NEW q \in Requests, Cancel(q)
      PROVE  NoLostWakeup'
  <2>1. Erase(q)
    BY <1>3 DEF Cancel, SettleCancelled
  <2>2. queue # <<>>
    BY <2>1 DEF Erase, TypeOK
  <2>3. Quiet /\ UNCHANGED <<closing, failure, reserved, count, pending, worker, asleep>>
    BY <1>3, <2>1 DEF Erase, Cancel, workVars, flagVars, budgetVars
  <2>4. Worker \in asleep => worker # "wait"
    BY <2>2, <2>3 DEF NoLostWakeup, WorkToDo
  <2>5. QED
    BY <2>3, <2>4 DEF NoLostWakeup, Unavailable, Fits
<1>4. ASSUME NEW c \in Closers, Shutdown(c)
      PROVE  NoLostWakeup'
  <2>1. Join(c)
    BY <1>4 DEF Shutdown, Close
  <2>2. QED
    BY <1>4, <2>1 DEF Shutdown, Join, NoLostWakeup, Unavailable, Fits, WorkToDo, workVars,
       flagVars, budgetVars
<1>5. CASE Work /\ Await
  <2>1. UNCHANGED <<closing, failure, reserved, count, pending, wakers>>
    BY <1>5 DEF Await, flagVars, budgetVars
  <2>2. worker = "wait" /\ Worker \notin asleep
    BY <1>5 DEF Await, At
  <2>3. asleep' \ {Worker} = asleep \ {Worker}
    BY <1>5 DEF Await, RefuseEngine, Sleep, Claim, Exit, Maintain
  <2>4. CASE Worker \in asleep'
    <3>1. ~WorkToDo /\ UNCHANGED <<worker, queue>>
      BY <1>5, <2>2, <2>4 DEF Await, RefuseEngine, Sleep, Claim, Exit, Maintain
    <3>2. QED
      BY <2>1, <2>2, <2>3, <3>1 DEF NoLostWakeup, Unavailable, Fits, WorkToDo
  <2>5. QED
    BY <2>1, <2>2, <2>3, <2>4 DEF NoLostWakeup, Unavailable, Fits
<1>6. CASE Work /\ (Contribute \/ Advance)
  <2>1. UNCHANGED <<closing, failure, reserved, count, wakers, asleep>>
    BY <1>6 DEF Contribute, Advance, flagVars, budgetVars
  <2>2. worker \in {"contribute", "advance"} /\ Worker \notin asleep
    BY <1>6 DEF Contribute, Advance, At
  <2>3. QED
    BY <2>1, <2>2 DEF NoLostWakeup, Unavailable, Fits
<1>7. CASE Work /\ Report
  BY <1>7 DEF Report
<1>8. CASE Work /\ Fail
  BY <1>8 DEF Fail
<1>9. CASE Work /\ Abandon
  BY <1>9 DEF Abandon, At
<1>10. CASE Work /\ Drain
  <2>1. UNCHANGED <<closing, failure, reserved, count, wakers>>
    BY <1>10 DEF Drain, flagVars, budgetVars
  <2>2. worker = "drain" /\ Worker \notin asleep /\ count \in Nat
    BY <1>10 DEF Drain, At, TypeOK
  <2>3. asleep' \ {Worker} = asleep \ {Worker}
    BY <1>10 DEF Drain
  <2>4. Worker \in asleep' => count > 0 /\ worker' = "drain"
    BY <1>10, <2>2 DEF Drain
  <2>5. QED
    BY <2>1, <2>2, <2>3, <2>4 DEF NoLostWakeup, Unavailable, Fits
<1>11. CASE UNCHANGED vars
  BY <1>11 DEF vars, NoLostWakeup, Unavailable, Fits, WorkToDo, workVars, flagVars, budgetVars
<1>12. QED
  BY <1>1, <1>2, <1>3, <1>4, <1>5, <1>6, <1>7, <1>8, <1>9, <1>10, <1>11 DEF Next, Work

----------------------------------------------------------------------------
(* Sums of charges *)

WorkOf == [r \in Requests |-> Charge[r].work]
BytesOf == [r \in Requests |-> Charge[r].bytes]

\* What a step does to the set of outstanding requests and to reserved_.
Holds == Outstanding' = Outstanding /\ UNCHANGED reserved
Reserves(r) == /\ r \notin Outstanding /\ Outstanding' = Outstanding \cup {r}
               /\ Fits(r)
               /\ reserved' = [work  |-> reserved.work + Charge[r].work,
                               bytes |-> reserved.bytes + Charge[r].bytes]
Refunds(r) == r \in Outstanding /\ Outstanding' = Outstanding \ {r} /\ Unreserve(r)

\* Every step that touches reserved_ is the admission or the end of one request.
LEMMA ReservationStep ==
  ASSUME TypeOK, Ownership, [Next]_vars
  PROVE  Holds \/ \E r \in Requests : Reserves(r) \/ Refunds(r)
<1>1. ASSUME UNCHANGED <<call, ticketVars, reserved>>
      PROVE  Holds
  BY <1>1 DEF Holds, Outstanding, Unsettled, ticketVars
<1>2. ASSUME NEW r \in Unsettled, NEW how \in Outcomes \ {"open"}, Settle(r, how), UNCHANGED call
      PROVE  r \in Requests /\ Refunds(r)
  BY <1>2, SettleEffect DEF Refunds, Settle, Ownership
<1>3. ASSUME NEW r \in Requests, Submit(r)
      PROVE  Holds \/ Reserves(r) \/ Refunds(r)
  <2>1. UNCHANGED ticketVars
    BY <1>3 DEF Submit
  <2>2. CASE Refuse(r) \/ Block(r) \/ PushThrows(r)
    <3>1. /\ call[r] \in {"idle", "waiting", "constructing"}
          /\ \E stage \in {"refused", "waiting", "undoing"} :
                /\ call' = [call EXCEPT ![r] = stage]
                /\ call[r] = "constructing" <=> stage = "undoing"
          /\ UNCHANGED reserved
      BY <2>2 DEF Refuse, Block, PushThrows, Becomes, Testing, budgetVars
    <3>2. QED
      BY <2>1, <3>1 DEF Holds, Outstanding, Unsettled, TypeOK, ticketVars
  <2>3. CASE Reserve(r)
    <3>1. /\ call[r] \in {"idle", "waiting"}
          /\ call' = [call EXCEPT ![r] = "constructing"]
          /\ Fits(r)
          /\ reserved' = [work  |-> reserved.work + Charge[r].work,
                          bytes |-> reserved.bytes + Charge[r].bytes]
      BY <2>3 DEF Reserve, Testing, Becomes
    <3>2. r \notin Outstanding /\ Outstanding' = Outstanding \cup {r}
      BY <2>1, <3>1 DEF Outstanding, Unsettled, TypeOK, ticketVars
    <3>3. QED
      BY <3>1, <3>2 DEF Reserves
  <2>4. CASE Push(r)
    <3>1. /\ call[r] = "constructing" /\ call' = [call EXCEPT ![r] = "accepted"]
          /\ UNCHANGED reserved
      BY <2>4 DEF Push, Becomes, budgetVars
    <3>2. outcome[r] = "open"
      BY <3>1 DEF Ownership, OnlyAcceptedSettle
    <3>3. QED
      BY <2>1, <3>1, <3>2 DEF Holds, Outstanding, Unsettled, TypeOK, ticketVars
  <2>5. CASE Undo(r)
    <3>1. /\ call[r] = "undoing" /\ call' = [call EXCEPT ![r] = "refused"] /\ Unreserve(r)
      BY <2>5 DEF Undo, Becomes
    <3>2. r \in Outstanding /\ Outstanding' = Outstanding \ {r}
      BY <2>1, <3>1 DEF Outstanding, Unsettled, TypeOK, ticketVars
    <3>3. QED
      BY <3>1, <3>2 DEF Refunds
  <2>6. QED
    BY <1>3, <2>2, <2>3, <2>4, <2>5 DEF Submit
<1>4. ASSUME NEW r \in Requests, Cancel(r)
      PROVE  Holds \/ Refunds(r)
  <2>1. CASE Erase(r)
    BY <1>1, <1>4, <2>1 DEF Cancel, Erase, ticketVars, budgetVars
  <2>2. CASE SettleCancelled(r)
    <3>1. r \in Unsettled /\ Settle(r, "cancelled") /\ UNCHANGED call
      BY <1>4, <2>2 DEF Cancel, SettleCancelled, Ownership, OneOwner
    <3>2. QED
      BY <1>2, <3>1 DEF Outcomes
  <2>3. QED
    BY <1>4, <2>1, <2>2 DEF Cancel
<1>5. ASSUME Work, Report
      PROVE  \E r \in Requests : Refunds(r)
  <2>1. item \in Unsettled /\ UNCHANGED call
    BY <1>5 DEF Work, Report, At, Ownership, OneOwner, WorkerPlace
  <2>2. Settle(item, "value") \/ Settle(item, "rejected")
    BY <1>5 DEF Report
  <2>3. QED
    BY <1>2, <2>1, <2>2 DEF Outcomes
<1>6. ASSUME Work, Abandon
      PROVE  Holds \/ \E r \in Requests : Refunds(r)
  <2>1. CASE abandoned # <<>>
    <3> DEFINE h == Head(abandoned)
    <3>1. h \in Unsettled
      BY <2>1, TailElements DEF TypeOK, Ownership, OneOwner
    <3>2. Settle(h, "failed") /\ UNCHANGED call
      BY <1>6, <2>1 DEF Work, Abandon
    <3> HIDE DEF h
    <3>3. QED
      BY <1>2, <3>1, <3>2 DEF Outcomes
  <2>2. CASE abandoned = <<>>
    BY <1>1, <1>6, <2>2 DEF Work, Abandon, ticketVars, budgetVars
  <2>3. QED
    BY <2>1, <2>2
<1>7. ASSUME Work, Await \/ Contribute \/ Advance \/ Fail \/ Drain
      PROVE  Holds
  BY <1>1, <1>7 DEF Work, Await, Contribute, Advance, Fail, Drain, budgetVars
<1>8. ASSUME NEW c \in Closers, Shutdown(c)
      PROVE  Holds
  BY <1>1, <1>8 DEF Shutdown, budgetVars
<1>9. ASSUME NEW t \in Threads, Wake(t)
      PROVE  Holds
  BY <1>1, <1>9 DEF Wake, budgetVars
<1>10. ASSUME UNCHANGED vars
       PROVE  Holds
  BY <1>1, <1>10 DEF vars, budgetVars
<1>11. Work => Holds \/ \E r \in Requests : Refunds(r)
  BY <1>5, <1>6, <1>7 DEF Work
<1>12. QED
  BY <1>3, <1>4, <1>8, <1>9, <1>10, <1>11 DEF Next

\* reserved_ is the sum of the outstanding charges and within its limits.
Reservations ==
  /\ reserved.work = Total(WorkOf, Outstanding)
  /\ reserved.bytes = Total(BytesOf, Outstanding)
  /\ reserved.work <= Limits.work /\ reserved.bytes <= Limits.bytes

\* The charges of requests, as functions to sum.
LEMMA ChargeFunctions ==
  /\ WorkOf \in [Requests -> Nat] /\ BytesOf \in [Requests -> Nat]
  /\ \A r \in Requests : WorkOf[r] = Charge[r].work /\ BytesOf[r] = Charge[r].bytes
  BY ChargeType DEF WorkOf, BytesOf

\* Admissions stay within the limits and refunds give back what was charged.
LEMMA ReservationsStep ==
  ASSUME TypeOK, Ownership, Reservations, [Next]_vars
  PROVE  Reservations'
<1> DEFINE O == Outstanding
<1>1. O \in SUBSET Requests /\ IsFiniteSet(O)
  BY OutstandingFinite DEF Outstanding, Unsettled
<1>2. WorkOf' = WorkOf /\ BytesOf' = BytesOf
  BY DEF WorkOf, BytesOf
<1>3. CASE Holds
  BY <1>2, <1>3 DEF Holds, Reservations
<1>4. ASSUME NEW r \in Requests, Reserves(r)
      PROVE  Reservations'
  <2>1. r \in Requests \ O /\ Outstanding' = O \cup {r}
    BY <1>4 DEF Reserves
  <2>2. /\ Total(WorkOf, O \cup {r}) = Charge[r].work + Total(WorkOf, O)
        /\ Total(BytesOf, O \cup {r}) = Charge[r].bytes + Total(BytesOf, O)
    BY <1>1, <2>1, ChargeFunctions, TotalAdd
  <2>3. /\ reserved'.work = reserved.work + Charge[r].work
        /\ reserved'.bytes = reserved.bytes + Charge[r].bytes
        /\ Charge[r].work <= Limits.work - reserved.work
        /\ Charge[r].bytes <= Limits.bytes - reserved.bytes
    BY <1>4 DEF Reserves, Fits
  <2>4. /\ reserved.work \in Int /\ reserved.bytes \in Int
        /\ Limits.work \in Int /\ Limits.bytes \in Int
        /\ Charge[r].work \in Nat /\ Charge[r].bytes \in Nat
    BY SessionAssumption, ChargeType DEF TypeOK
  <2>5. QED
    BY <1>2, <2>1, <2>2, <2>3, <2>4 DEF Reservations
<1>5. ASSUME NEW r \in Requests, Refunds(r)
      PROVE  Reservations'
  <2>1. r \in O /\ Outstanding' = O \ {r}
    BY <1>5 DEF Refunds
  <2>2. /\ Total(WorkOf, O \ {r}) = Total(WorkOf, O) - Charge[r].work
        /\ Total(BytesOf, O \ {r}) = Total(BytesOf, O) - Charge[r].bytes
    BY <1>1, <2>1, ChargeFunctions, TotalRemove
  <2>3. /\ reserved'.work = reserved.work - Charge[r].work
        /\ reserved'.bytes = reserved.bytes - Charge[r].bytes
    BY <1>5 DEF Refunds, Unreserve
  <2>4. /\ reserved.work \in Int /\ reserved.bytes \in Int
        /\ Limits.work \in Int /\ Limits.bytes \in Int
        /\ Charge[r].work \in Nat /\ Charge[r].bytes \in Nat
    BY SessionAssumption, ChargeType DEF TypeOK
  <2>5. QED
    BY <1>2, <2>1, <2>2, <2>3, <2>4 DEF Reservations
<1>6. QED
  BY <1>3, <1>4, <1>5, ReservationStep

\* The fold that ReservationsExact takes of the charges is the sum.
LEMMA FoldOfCharges ==
  ASSUME NEW S \in SUBSET Requests, IsFiniteSet(S)
  PROVE  /\ MapThenSumSet(LAMBDA r : Charge[r].work, S) = Total(WorkOf, S)
         /\ MapThenSumSet(LAMBDA r : Charge[r].bytes, S) = Total(BytesOf, S)
<1>1. \A s \in SUBSET S : s # {} => Chosen(s) \in Requests
  BY ChosenIn
<1>2. MapThenSumSet(LAMBDA r : Charge[r].work, S) = Total(WorkOf, S)
  <2> DEFINE F(g) == [s \in SUBSET S |-> IF s = {} THEN 0
                                         ELSE Charge[Chosen(s)].work + g[s \ {Chosen(s)}]]
  <2> DEFINE h == CHOOSE g : g = F(g)
  <2>1. MapThenSumSet(LAMBDA r : Charge[r].work, S) = h[S]
    BY DEF MapThenSumSet, MapThenFoldSet, Chosen
  <2>2. ASSUME NEW g
        PROVE  F(g) = [s \in SUBSET S |-> IF s = {} THEN 0
                                          ELSE WorkOf[Chosen(s)] + g[s \ {Chosen(s)}]]
    BY <1>1, ChargeFunctions
  <2>3. \A g : Sums(g, WorkOf, S) <=> g = F(g)
    <3> HIDE DEF F
    <3>1. QED
      BY <2>2 DEF Sums
  <2>4. \E g : g = F(g)
    BY <2>3, SumsExist
  <2>5. h = F(h)
    <3> HIDE DEF F
    <3>1. QED
      BY <2>4
  <2>6. Sums(h, WorkOf, S) /\ Sums(CHOOSE g : Sums(g, WorkOf, S), WorkOf, S)
    BY <2>3, <2>5, SumsExist
  <2> HIDE DEF h
  <2>7. QED
    BY <2>1, <2>6, SumsAgree DEF Total
<1>3. MapThenSumSet(LAMBDA r : Charge[r].bytes, S) = Total(BytesOf, S)
  <2> DEFINE F(g) == [s \in SUBSET S |-> IF s = {} THEN 0
                                         ELSE Charge[Chosen(s)].bytes + g[s \ {Chosen(s)}]]
  <2> DEFINE h == CHOOSE g : g = F(g)
  <2>1. MapThenSumSet(LAMBDA r : Charge[r].bytes, S) = h[S]
    BY DEF MapThenSumSet, MapThenFoldSet, Chosen
  <2>2. ASSUME NEW g
        PROVE  F(g) = [s \in SUBSET S |-> IF s = {} THEN 0
                                          ELSE BytesOf[Chosen(s)] + g[s \ {Chosen(s)}]]
    BY <1>1, ChargeFunctions
  <2>3. \A g : Sums(g, BytesOf, S) <=> g = F(g)
    <3> HIDE DEF F
    <3>1. QED
      BY <2>2 DEF Sums
  <2>4. \E g : g = F(g)
    BY <2>3, SumsExist
  <2>5. h = F(h)
    <3> HIDE DEF F
    <3>1. QED
      BY <2>4
  <2>6. Sums(h, BytesOf, S) /\ Sums(CHOOSE g : Sums(g, BytesOf, S), BytesOf, S)
    BY <2>3, <2>5, SumsExist
  <2> HIDE DEF h
  <2>7. QED
    BY <2>1, <2>6, SumsAgree DEF Total
<1>4. QED
  BY <1>2, <1>3

----------------------------------------------------------------------------
(* The serial promise *)

\* List t has r before s.
Before(t, r, s) == \E i, j \in DOMAIN t : i < j /\ t[i] = r /\ t[j] = s

\* What is accepted and not yet claimed waits in the order it arrived, after the
\* request the engine works on.
InArrivalOrder ==
  /\ IsInjective(arrivals)
  /\ ToSet(arrivals) = {r \in Requests : call[r] = "accepted"}
  /\ \A a, b \in DOMAIN queue : a < b => Before(arrivals, queue[a], queue[b])
  /\ worker = "contribute" => \A a \in DOMAIN queue : Before(arrivals, item, queue[a])

\* A step that accepts nobody and claims nobody keeps the order.
LEMMA SameOrder ==
  ASSUME InArrivalOrder, arrivals' = arrivals,
         \A r \in Requests : call'[r] = "accepted" <=> call[r] = "accepted",
         \A a, b \in DOMAIN queue' : a < b =>
           \E i, j \in DOMAIN queue : i < j /\ queue[i] = queue'[a] /\ queue[j] = queue'[b],
         \A a \in DOMAIN queue' : \E i \in DOMAIN queue : queue[i] = queue'[a],
         worker' = "contribute" => worker = "contribute" /\ item' = item
  PROVE  InArrivalOrder'
<1>1. \A r, s : Before(arrivals', r, s) <=> Before(arrivals, r, s)
  BY DEF Before
<1>2. ToSet(arrivals') = {r \in Requests : call'[r] = "accepted"} /\ IsInjective(arrivals')
  BY DEF InArrivalOrder
<1>3. \A a, b \in DOMAIN queue' : a < b => Before(arrivals, queue'[a], queue'[b])
  BY DEF InArrivalOrder
<1>4. worker' = "contribute" => \A a \in DOMAIN queue' : Before(arrivals, item', queue'[a])
  BY DEF InArrivalOrder
<1>5. QED
  BY <1>1, <1>2, <1>3, <1>4 DEF InArrivalOrder

\* push_back is the acceptance, so what is accepted last stands last.
LEMMA PushOrder ==
  ASSUME TypeOK, Ownership, InArrivalOrder, NEW r \in Requests, Submit(r), Push(r)
  PROVE  InArrivalOrder'
<1>1. /\ call[r] = "constructing" /\ call' = [call EXCEPT ![r] = "accepted"]
      /\ queue' = Append(queue, r) /\ arrivals' = Append(arrivals, r)
      /\ worker' = worker /\ item' = item
  BY DEF Push, Becomes, Submit, workVars
<1>2. r \notin ToSet(arrivals) /\ arrivals \in Seq(Requests) /\ queue \in Seq(Requests)
  BY <1>1 DEF InArrivalOrder, TypeOK
<1>3. /\ ToSet(arrivals') = ToSet(arrivals) \cup {r} /\ IsInjective(arrivals')
  BY <1>1, <1>2, AppendElements DEF InArrivalOrder
<1>4. ToSet(arrivals') = {q \in Requests : call'[q] = "accepted"}
  BY <1>1, <1>3 DEF InArrivalOrder, TypeOK
<1>5. \A p, q : Before(arrivals, p, q) => Before(arrivals', p, q)
  BY SMTT(20), <1>1, <1>2 DEF Before
<1>6. \A q \in ToSet(arrivals) : Before(arrivals', q, r)
  <2> SUFFICES ASSUME NEW q \in ToSet(arrivals) PROVE Before(arrivals', q, r)
    OBVIOUS
  <2>1. PICK i \in DOMAIN arrivals : arrivals[i] = q
    BY DEF ToSet
  <2>2. /\ i \in DOMAIN arrivals' /\ arrivals'[i] = q /\ i < Len(arrivals) + 1
        /\ Len(arrivals) + 1 \in DOMAIN arrivals' /\ arrivals'[Len(arrivals) + 1] = r
    BY <1>1, <1>2, <2>1
  <2>3. QED
    BY <2>2 DEF Before
<1>7. \A a \in DOMAIN queue : queue[a] \in ToSet(arrivals)
  <2>1. \A a \in DOMAIN queue : queue[a] \in Unsettled
    BY DEF Ownership, OneOwner, ToSet
  <2>2. QED
    BY <2>1 DEF InArrivalOrder, Unsettled
<1>8. worker = "contribute" => item \in ToSet(arrivals)
  BY DEF Ownership, OneOwner, WorkerPlace, InArrivalOrder, Unsettled
<1>9. /\ DOMAIN queue' = DOMAIN queue \cup {Len(queue) + 1}
      /\ \A a \in DOMAIN queue : queue'[a] = queue[a] /\ a < Len(queue) + 1
      /\ queue'[Len(queue) + 1] = r
      /\ \A a \in DOMAIN queue' : a \in DOMAIN queue \/ a = Len(queue) + 1
  BY <1>1, <1>2
<1>10. \A a, b \in DOMAIN queue' : a < b => Before(arrivals', queue'[a], queue'[b])
  <2> SUFFICES ASSUME NEW a \in DOMAIN queue', NEW b \in DOMAIN queue', a < b
               PROVE  Before(arrivals', queue'[a], queue'[b])
    OBVIOUS
  <2>1. a \in DOMAIN queue
    BY <1>2, <1>9
  <2>2. CASE b \in DOMAIN queue
    BY <2>1, <2>2, <1>5, <1>9 DEF InArrivalOrder
  <2>3. CASE b = Len(queue) + 1
    BY <2>1, <2>3, <1>6, <1>7, <1>9
  <2>4. QED
    BY <1>9, <2>2, <2>3
<1>11. worker' = "contribute" => \A a \in DOMAIN queue' : Before(arrivals', item', queue'[a])
  <2> SUFFICES ASSUME worker = "contribute", NEW a \in DOMAIN queue'
               PROVE  Before(arrivals', item, queue'[a])
    BY <1>1
  <2>1. CASE a \in DOMAIN queue
    BY <2>1, <1>5, <1>9 DEF InArrivalOrder
  <2>2. CASE a = Len(queue) + 1
    BY <2>2, <1>6, <1>8, <1>9
  <2>3. QED
    BY <1>9, <2>1, <2>2
<1>12. QED
  BY <1>3, <1>4, <1>10, <1>11 DEF InArrivalOrder
\* The FIFO of the session: no step of any thread breaks the order of arrival.
LEMMA OrderStep ==
  ASSUME TypeOK, Ownership, InArrivalOrder, [Next]_vars
  PROVE  InArrivalOrder'
<1>1. ASSUME UNCHANGED <<arrivals, queue>>,
             \A r \in Requests : call'[r] = "accepted" <=> call[r] = "accepted",
             worker' = "contribute" => worker = "contribute" /\ item' = item
      PROVE  InArrivalOrder'
  BY <1>1, SameOrder
<1>2. ASSUME NEW r \in Requests, Submit(r)
      PROVE  InArrivalOrder'
  <2>1. CASE Push(r)
    BY <1>2, <2>1, PushOrder
  <2>2. CASE Refuse(r) \/ Block(r) \/ PushThrows(r) \/ Reserve(r) \/ Undo(r)
    <3>1. /\ call[r] # "accepted"
          /\ \E stage \in {"refused", "waiting", "undoing", "constructing"} :
               call' = [call EXCEPT ![r] = stage]
          /\ UNCHANGED <<arrivals, queue, worker, item>>
      BY <1>2, <2>2 DEF Submit, Refuse, Block, PushThrows, Reserve, Undo, Becomes, Testing, workVars
    <3>2. QED
      BY <1>1, <3>1 DEF TypeOK
  <2>3. QED
    BY <1>2, <2>1, <2>2 DEF Submit
<1>3. ASSUME NEW r \in Requests, Cancel(r)
      PROVE  InArrivalOrder'
  <2>1. UNCHANGED <<call, arrivals, worker, item>>
    BY <1>3 DEF Cancel, workVars
  <2>2. CASE SettleCancelled(r)
    BY <1>1, <2>1, <2>2 DEF SettleCancelled
  <2>3. CASE Erase(r)
    <3>1. PICK k \in DOMAIN queue : queue' = RemoveAt(queue, k)
      BY <2>3 DEF Erase
    <3>2. queue \in Seq(Requests)
      BY DEF TypeOK
    <3>3. /\ queue' \in Seq(Requests) /\ Len(queue') = Len(queue) - 1
          /\ \A i \in DOMAIN queue' : queue'[i] = IF i < k THEN queue[i] ELSE queue[i + 1]
      BY <3>1, <3>2, ErasedAt
    <3> DEFINE old(i) == IF i < k THEN i ELSE i + 1
    <3>4. \A i \in DOMAIN queue' : old(i) \in DOMAIN queue /\ queue[old(i)] = queue'[i]
      BY <3>2, <3>3
    <3>5. \A i, j \in DOMAIN queue' : i < j => old(i) < old(j)
      BY <3>3
    <3> HIDE DEF old
    <3>6. QED
      BY <2>1, <3>4, <3>5, SameOrder
  <2>4. QED
    BY <1>3, <2>2, <2>3 DEF Cancel
<1>4. ASSUME NEW c \in Closers, Shutdown(c)
      PROVE  InArrivalOrder'
  BY <1>1, <1>4 DEF Shutdown, workVars
<1>5. ASSUME NEW t \in Threads, Wake(t)
      PROVE  InArrivalOrder'
  BY <1>1, <1>5 DEF Wake, workVars
<1>6. CASE Work /\ Await
  <2>1. UNCHANGED <<call, arrivals>>
    BY <1>6 DEF Work
  <2>2. CASE Claim
    <3>1. /\ queue # <<>> /\ queue \in Seq(Requests)
          /\ queue' = Tail(queue) /\ item' = queue[1] /\ worker' = "contribute"
      BY <2>2 DEF Claim, Claimable, TypeOK
    <3>2. \A i \in DOMAIN queue' : /\ queue'[i] = queue[i + 1] /\ i + 1 \in DOMAIN queue
                                   /\ 1 \in DOMAIN queue /\ 1 < i + 1
      BY <3>1
    <3>3. \A i, j \in DOMAIN queue' : i < j => i + 1 < j + 1
      BY <3>1
    <3>4. \A a, b \in DOMAIN queue' : a < b => Before(arrivals, queue'[a], queue'[b])
      BY <3>2, <3>3 DEF InArrivalOrder
    <3>5. \A a \in DOMAIN queue' : Before(arrivals, item', queue'[a])
      BY <3>1, <3>2 DEF InArrivalOrder
    <3>6. QED
      BY <2>1, <3>4, <3>5 DEF InArrivalOrder
  <2>3. CASE RefuseEngine \/ Sleep \/ Exit \/ Maintain
    <3>1. UNCHANGED queue /\ worker' # "contribute"
      BY <1>6, <2>3 DEF Await, At, RefuseEngine, Sleep, Exit, Maintain
    <3>2. QED
      BY <1>1, <2>1, <3>1
  <2>4. QED
    BY <1>6, <2>2, <2>3 DEF Await
<1>7. CASE Work /\ Fail
  <2>1. UNCHANGED <<call, arrivals>> /\ queue' = <<>> /\ worker' = "abandon"
    BY <1>7 DEF Work, Fail
  <2>2. DOMAIN queue' = {}
    BY <2>1
  <2>3. QED
    BY <2>1, <2>2, SameOrder
<1>8. CASE Work /\ (Contribute \/ Report \/ Advance \/ Abandon \/ Drain)
  <2>1. UNCHANGED <<call, arrivals, queue>> /\ worker' # "contribute"
    BY <1>8 DEF Work, Contribute, Report, Advance, Abandon, Drain, Applied, Rejected, Broken,
       Serve, At
  <2>2. QED
    BY <1>1, <2>1
<1>9. CASE UNCHANGED vars
  BY <1>1, <1>9 DEF vars, workVars
<1>10. QED
  BY <1>2, <1>3, <1>4, <1>5, <1>6, <1>7, <1>8, <1>9 DEF Next, Work
\* How far the life of a request goes is told by its call, its promise, its
\* canceller and the worker.
LEMMA LifeSame ==
  ASSUME NEW r \in Requests, call'[r] = call[r], outcome'[r] = outcome[r],
         r \in cancelling' <=> r \in cancelling,
         r = item' /\ worker' = "resolve" <=> r = item /\ worker = "resolve"
  PROVE  LifeOf(r)' = LifeOf(r)
  BY DEF LifeOf

\* One request moves on and the others stay.
LEMMA LifeMoves ==
  ASSUME NEW r \in Requests, NEW from, NEW to, LifeOf(r) = from, LifeOf(r)' = to,
         \A q \in Requests \ {r} : LifeOf(q)' = LifeOf(q)
  PROVE  Promise!Move(r, from, to)
<1> DEFINE T == [q \in Requests |-> LifeOf(q)]
<1>1. T' = [q \in Requests |-> IF q = r THEN to ELSE T[q]]
  OBVIOUS
<1>2. T' = [T EXCEPT ![r] = to]
  BY <1>1
<1>3. T[r] = from
  OBVIOUS
<1>4. QED
  BY <1>2, <1>3 DEF Promise!Move

\* Nobody's life moves.
LEMMA LivesSame ==
  ASSUME \A q \in Requests : LifeOf(q)' = LifeOf(q)
  PROVE  UNCHANGED [q \in Requests |-> LifeOf(q)]
  OBVIOUS

\* The requests that hold a share of the limit are the outstanding ones.
LEMMA AdmittedIsOutstanding ==
  ASSUME TypeOK, Ownership
  PROVE  Promise!Admitted = Outstanding
<1>1. ASSUME NEW r \in Requests
      PROVE  LifeOf(r) \in {"reserved", "accepted", "applied", "doomed"} <=> r \in Outstanding
  <2>1. call[r] \in {"idle", "waiting", "constructing", "undoing", "accepted", "refused"}
    BY DEF TypeOK
  <2>2. r \in Outstanding <=> \/ call[r] \in {"constructing", "undoing"}
                              \/ call[r] = "accepted" /\ outcome[r] = "open"
    BY DEF Outstanding, Unsettled
  <2>3. QED
    BY <2>1, <2>2 DEF LifeOf
<1>2. Outstanding \subseteq Requests
  BY DEF Outstanding, Unsettled
<1>3. QED
  BY <1>1, <1>2 DEF Promise!Admitted

\* A step of the program is a step of the promise, or one it does not tell apart.
PromiseStep == Promise!Next \/ UNCHANGED Promise!vars

\* A step that callers cannot see.
LEMMA Stutters ==
  ASSUME \A q \in Requests : LifeOf(q)' = LifeOf(q),
         current'.world = current.world, arrivals' = arrivals, closing' = closing
  PROVE  PromiseStep
  BY LivesSame DEF PromiseStep, Promise!vars

\* enqueue admits, refuses, withdraws or accepts one request.
LEMMA SubmitPromise ==
  ASSUME TypeOK, Ownership, NEW r \in Requests, Submit(r)
  PROVE  PromiseStep
<1>1. UNCHANGED <<ticketVars, closing, failure, current, worker, item, cancelling>>
  BY DEF Submit, flagVars, workVars
<1>2. ASSUME NEW stage, call' = [call EXCEPT ![r] = stage]
      PROVE  /\ \A q \in Requests \ {r} : LifeOf(q)' = LifeOf(q)
             /\ call'[r] = stage
  BY <1>1, <1>2, LifeSame DEF TypeOK, ticketVars
<1>4. CASE Refuse(r)
  <2>1. call[r] \in {"idle", "waiting"} /\ call' = [call EXCEPT ![r] = "refused"]
        /\ UNCHANGED arrivals
    BY <1>4 DEF Refuse, Testing, Becomes
  <2>2. LifeOf(r) = "new" /\ LifeOf(r)' = "refused"
    BY <2>1, <1>2 DEF LifeOf
  <2>3. Promise!Move(r, "new", "refused")
    BY <2>1, <2>2, <1>2, LifeMoves
  <2>4. QED
    BY <2>1, <2>3, <1>1 DEF PromiseStep, Promise!Next, Promise!Refuse
<1>5. CASE Block(r)
  <2>1. call[r] \in {"idle", "waiting"} /\ call' = [call EXCEPT ![r] = "waiting"]
        /\ UNCHANGED arrivals
    BY <1>5 DEF Block, Testing, Becomes
  <2>2. LifeOf(r) = "new" /\ LifeOf(r)' = "new"
    BY <2>1, <1>2 DEF LifeOf
  <2>3. QED
    BY <2>1, <2>2, <1>1, <1>2, Stutters
<1>6. CASE Reserve(r)
  <2>1. /\ call[r] \in {"idle", "waiting"} /\ call' = [call EXCEPT ![r] = "constructing"]
        /\ UNCHANGED arrivals /\ ~closing /\ count < Limits.contributions
    BY <1>6 DEF Reserve, Testing, Becomes, Unavailable, Fits
  <2>2. LifeOf(r) = "new" /\ LifeOf(r)' = "reserved"
    BY <2>1, <1>2 DEF LifeOf
  <2>3. Promise!Move(r, "new", "reserved")
    BY <2>1, <2>2, <1>2, LifeMoves
  <2>6. Promise!Cardinality(Outstanding) = Cardinality(Outstanding)
    BY DEF Promise!Cardinality, Cardinality
  <2>4. Promise!Cardinality(Promise!Admitted) < Limits.contributions
    BY <2>1, <2>6, AdmittedIsOutstanding DEF Ownership, CountExact
  <2>5. QED
    BY <2>1, <2>3, <2>4, <1>1 DEF PromiseStep, Promise!Next, Promise!Reserve
<1>7. CASE Push(r)
  <2>1. /\ call[r] = "constructing" /\ call' = [call EXCEPT ![r] = "accepted"]
        /\ arrivals' = Append(arrivals, r)
    BY <1>7 DEF Push, Becomes
  <2>2. r \notin Unsettled /\ outcome[r] = "open"
    BY <2>1 DEF Unsettled, Ownership, OnlyAcceptedSettle
  <2>3. r \notin cancelling /\ r # item
    BY <2>2, SessionAssumption DEF Ownership, OneOwner
  <2>4. LifeOf(r) = "reserved"
    BY <2>1 DEF LifeOf
  <2>5. LifeOf(r)' = "accepted"
    BY <2>1, <2>2, <2>3, <1>1, <1>2 DEF LifeOf, ticketVars
  <2>6. Promise!Move(r, "reserved", "accepted")
    BY <2>1, <2>4, <2>5, <1>2, LifeMoves
  <2>7. QED
    BY <2>1, <2>6, <1>1 DEF PromiseStep, Promise!Next, Promise!Accept
<1>8. CASE PushThrows(r)
  <2>1. call[r] = "constructing" /\ call' = [call EXCEPT ![r] = "undoing"]
        /\ UNCHANGED arrivals
    BY <1>8 DEF PushThrows, Becomes
  <2>2. LifeOf(r) = "reserved" /\ LifeOf(r)' = "reserved"
    BY <2>1, <1>2 DEF LifeOf
  <2>3. QED
    BY <2>1, <2>2, <1>1, <1>2, Stutters
<1>9. CASE Undo(r)
  <2>1. call[r] = "undoing" /\ call' = [call EXCEPT ![r] = "refused"]
        /\ UNCHANGED arrivals
    BY <1>9 DEF Undo, Becomes
  <2>2. LifeOf(r) = "reserved" /\ LifeOf(r)' = "refused"
    BY ZenonT(30), <2>1, <1>2 DEF LifeOf
  <2>3. Promise!Move(r, "reserved", "refused")
    BY <2>1, <2>2, <1>2, LifeMoves
  <2>4. QED
    BY <2>1, <2>3, <1>1 DEF PromiseStep, Promise!Next, Promise!Withdraw
<1>10. QED
  BY <1>4, <1>5, <1>6, <1>7, <1>8, <1>9 DEF Submit

\* cancel takes a request out of the order, and settles it later.
LEMMA CancelPromise ==
  ASSUME TypeOK, Ownership, NEW r \in Requests, Cancel(r)
  PROVE  PromiseStep
<1>1. UNCHANGED <<call, arrivals, closing, failure, current, worker, item>>
  BY DEF Cancel, flagVars, workVars
<1>2. CASE Erase(r)
  <2>1. r \in ToSet(queue) /\ cancelling' = cancelling \cup {r} /\ UNCHANGED outcome
    BY <1>2 DEF Erase, ToSet
  <2>2. r \in Unsettled /\ r \notin cancelling /\ r # item
    BY <2>1 DEF Ownership, OneOwner
  <2>3. call[r] = "accepted" /\ outcome[r] = "open"
    BY <2>2 DEF Unsettled
  <2>4. LifeOf(r) = "accepted" /\ LifeOf(r)' = "doomed"
    BY <2>1, <2>2, <2>3, <1>1 DEF LifeOf
  <2>5. \A q \in Requests \ {r} : LifeOf(q)' = LifeOf(q)
    BY <2>1, <1>1, LifeSame
  <2>6. Promise!Move(r, "accepted", "doomed")
    BY <2>4, <2>5, LifeMoves
  <2>7. QED
    BY <2>6, <1>1 DEF PromiseStep, Promise!Next, Promise!Cancel
<1>3. CASE SettleCancelled(r)
  <2>1. /\ r \in cancelling /\ cancelling' = cancelling \ {r}
        /\ outcome' = [outcome EXCEPT ![r] = "cancelled"]
    BY <1>3 DEF SettleCancelled, Settle
  <2>2. r \in Unsettled
    BY <2>1 DEF Ownership, OneOwner
  <2>3. call[r] = "accepted" /\ outcome[r] = "open"
    BY <2>2 DEF Unsettled
  <2>4. outcome'[r] = "cancelled"
    BY <2>1 DEF TypeOK
  <2>5. LifeOf(r) = "doomed" /\ LifeOf(r)' = "error"
    BY <2>1, <2>3, <2>4, <1>1 DEF LifeOf
  <2>6. \A q \in Requests \ {r} : LifeOf(q)' = LifeOf(q)
    BY <2>1, <1>1, LifeSame DEF TypeOK
  <2>7. Promise!Move(r, "doomed", "error")
    BY <2>5, <2>6, LifeMoves
  <2>8. QED
    BY <2>7, <1>1 DEF PromiseStep, Promise!Next, Promise!Reject
<1>4. QED
  BY <1>2, <1>3 DEF Cancel

\* The engine's success is the application, which respects the order of arrival.
LEMMA AppliedPromise ==
  ASSUME TypeOK, Ownership, InArrivalOrder, Work, Contribute, Applied
  PROVE  PromiseStep
<1>1. /\ UNCHANGED <<call, arrivals, outcome, cancelling, closing, item>>
      /\ worker = "contribute" /\ worker' = "resolve"
      /\ current'.world = Append(current.world, item)
  BY DEF Work, Contribute, Applied, Publish, At, ticketVars, flagVars
<1>2. PICK r \in Requests : r = item /\ r \in Unsettled /\ r \notin cancelling
  BY <1>1 DEF Ownership, OneOwner, WorkerPlace, Unsettled
<1>3. call[r] = "accepted" /\ outcome[r] = "open"
  BY <1>2 DEF Unsettled
<1>4. LifeOf(r) = "accepted" /\ LifeOf(r)' = "applied"
  BY <1>1, <1>2, <1>3 DEF LifeOf
<1>5. \A q \in Requests \ {r} : LifeOf(q)' = LifeOf(q)
  BY <1>1, <1>2, LifeSame
<1>6. Promise!Move(r, "accepted", "applied")
  BY <1>3, <1>4, <1>5, LifeMoves
<1>7. PICK i \in DOMAIN arrivals : arrivals[i] = item
  BY <1>2, <1>3 DEF InArrivalOrder, ToSet
<1>8. ASSUME NEW j \in 1..(i - 1)
      PROVE  LifeOf(arrivals[j]) # "accepted" /\ arrivals[j] \in Requests
  <2>1. j \in DOMAIN arrivals /\ j < i /\ arrivals[j] \in Requests
    BY SMTT(20), <1>7 DEF TypeOK
  <2> DEFINE q == arrivals[j]
  <2>2. q # item
    BY <2>1, <1>7 DEF InArrivalOrder, IsInjective
  <2>3. SUFFICES ASSUME LifeOf(q) = "accepted" PROVE FALSE
    BY <2>1
  <2>4. q \in Unsettled /\ q \notin cancelling
    <3>1. call[q] = "accepted"
      BY <2>1 DEF InArrivalOrder, ToSet
    <3>2. outcome[q] \in {"open", "value", "rejected", "cancelled", "failed"}
      BY <2>1 DEF TypeOK
    <3> HIDE DEF q
    <3>3. QED
      BY <2>1, <2>3, <3>1, <3>2 DEF LifeOf, Unsettled, q
  <2>5. q \in ToSet(queue)
    <3>1. ToSet(abandoned) = {}
      BY <1>1 DEF Ownership, WorkerPlace, ToSet
    <3>2. QED
      BY <2>2, <2>4, <3>1 DEF Ownership, OneOwner
  <2>6. PICK a \in DOMAIN queue : queue[a] = q
    BY <2>5 DEF ToSet
  <2>7. PICK m, n \in DOMAIN arrivals : m < n /\ arrivals[m] = item /\ arrivals[n] = q
    BY <2>6, <1>1 DEF InArrivalOrder, Before
  <2>8. m = i /\ n = j
    BY <2>1, <2>7, <1>7 DEF InArrivalOrder, IsInjective
  <2>9. QED
    BY <2>1, <2>7, <2>8, <1>7 DEF TypeOK
<1>9. QED
  <2> DEFINE T == [q \in Requests |-> LifeOf(q)]
  <2>1. \A j \in 1..(i - 1) : T[arrivals[j]] # "accepted"
    BY <1>8
  <2>2. Promise!Apply(r)
    BY <2>1, <1>1, <1>2, <1>6, <1>7 DEF Promise!Apply
  <2>3. QED
    BY <2>2 DEF PromiseStep, Promise!Next

\* The worker settles the request it has claimed.
LEMMA ReportPromise ==
  ASSUME TypeOK, Ownership, Work, Report
  PROVE  PromiseStep
<1>1. /\ UNCHANGED <<call, arrivals, cancelling, closing, current>>
      /\ worker \in {"resolve", "reject"} /\ worker' = "wait"
  BY DEF Work, Report, At, flagVars
<1>2. PICK r \in Requests : r = item /\ r \in Unsettled /\ r \notin cancelling
  BY <1>1 DEF Ownership, OneOwner, WorkerPlace, Unsettled
<1>3. call[r] = "accepted" /\ outcome[r] = "open"
  BY <1>2 DEF Unsettled
<1>4. PICK how \in {"value", "rejected"} :
        /\ outcome' = [outcome EXCEPT ![r] = how]
        /\ how = "value" <=> worker = "resolve"
  BY <1>2 DEF Report, Settle, At
<1>5. outcome'[r] = how
  BY <1>4 DEF TypeOK
<1>6. \A q \in Requests \ {r} : LifeOf(q)' = LifeOf(q)
  BY <1>1, <1>2, <1>4, LifeSame DEF TypeOK
<1>7. CASE worker = "resolve"
  <2>1. LifeOf(r) = "applied" /\ LifeOf(r)' = "value"
    BY <1>1, <1>2, <1>3, <1>4, <1>5, <1>7 DEF LifeOf
  <2>2. Promise!Move(r, "applied", "value")
    BY <2>1, <1>3, <1>6, LifeMoves
  <2>3. QED
    BY <2>2, <1>1, <1>3 DEF PromiseStep, Promise!Next, Promise!Yield
<1>8. CASE worker = "reject"
  <2>1. LifeOf(r) = "accepted" /\ LifeOf(r)' = "error"
    BY <1>1, <1>2, <1>3, <1>4, <1>5, <1>8 DEF LifeOf
  <2>2. Promise!Move(r, "accepted", "error")
    BY <2>1, <1>3, <1>6, LifeMoves
  <2>3. QED
    BY <2>2, <1>1, <1>3 DEF PromiseStep, Promise!Next, Promise!Reject
<1>9. QED
  BY <1>1, <1>7, <1>8

\* failed() settles one request at a time, in error.
LEMMA AbandonPromise ==
  ASSUME TypeOK, Ownership, Work, Abandon
  PROVE  PromiseStep
<1>1. /\ UNCHANGED <<call, arrivals, cancelling, closing, current, item>>
      /\ worker = "abandon" /\ worker' # "resolve"
  BY DEF Work, Abandon, At, flagVars
<1>2. CASE abandoned # <<>>
  <2>1. PICK h \in Requests : h = Head(abandoned) /\ h \in ToSet(abandoned)
    BY <1>2, TailElements DEF TypeOK, Ownership, OneOwner
  <2>2. outcome' = [outcome EXCEPT ![h] = "failed"]
    BY <1>2, <2>1 DEF Abandon, Settle
  <2>3. h \in Unsettled /\ h \notin cancelling
    BY <2>1 DEF Ownership, OneOwner
  <2>4. h \in Requests /\ call[h] = "accepted" /\ outcome[h] = "open"
    BY <2>3 DEF Unsettled
  <2>5. outcome'[h] = "failed" /\ \A q \in Requests \ {h} : outcome'[q] = outcome[q]
    BY <2>2, <2>4 DEF TypeOK
  <2>6. LifeOf(h) = "accepted" /\ LifeOf(h)' = "error"
    BY <2>3, <2>4, <2>5, <1>1 DEF LifeOf
  <2>7. \A q \in Requests \ {h} : LifeOf(q)' = LifeOf(q)
    BY <2>5, <1>1, LifeSame
  <2>8. Promise!Move(h, "accepted", "error")
    BY <2>4, <2>6, <2>7, LifeMoves
  <2>9. QED
    BY <2>4, <2>8, <1>1 DEF PromiseStep, Promise!Next, Promise!Reject
<1>3. CASE abandoned = <<>>
  <2>1. UNCHANGED outcome
    BY <1>3 DEF Abandon
  <2>2. QED
    BY <2>1, <1>1, LifeSame, Stutters
<1>4. QED
  BY <1>2, <1>3

\* Setting closing_ again changes nothing.
LEMMA ClosePromise ==
  ASSUME TypeOK, \A q \in Requests : LifeOf(q)' = LifeOf(q),
         UNCHANGED <<current, arrivals>>, closing' \in BOOLEAN, closing => closing'
  PROVE  PromiseStep
<1>1. CASE closing' = closing
  BY <1>1, Stutters
<1>2. CASE ~closing /\ closing'
  BY <1>2, LivesSame DEF PromiseStep, Promise!Next, Promise!Close
<1>3. QED
  BY <1>1, <1>2 DEF TypeOK

\* Every step of every thread is one of the promise, or invisible.
LEMMA EveryStepIsPromised ==
  ASSUME TypeOK, Ownership, InArrivalOrder, [Next]_vars
  PROVE  PromiseStep
<1>1. ASSUME UNCHANGED <<call, ticketVars, cancelling, arrivals, closing>>,
             current'.world = current.world,
             \/ worker' # "resolve" /\ worker # "resolve"
             \/ UNCHANGED <<worker, item>>
      PROVE  PromiseStep
  BY <1>1, LifeSame, Stutters DEF ticketVars
<1>2. ASSUME NEW c \in Closers, Shutdown(c)
      PROVE  PromiseStep
  <2>1. /\ UNCHANGED <<call, ticketVars, cancelling, arrivals, current, worker, item>>
        /\ closing' \in BOOLEAN /\ (closing => closing')
    BY <1>2 DEF Shutdown, Close, Join, TypeOK, workVars
  <2>2. QED
    BY <2>1, LifeSame, ClosePromise DEF ticketVars
<1>3. ASSUME NEW t \in Threads, Wake(t)
      PROVE  PromiseStep
  BY <1>1, <1>3 DEF Wake, workVars, flagVars
<1>4. CASE Work /\ Await
  BY <1>1, <1>4 DEF Work, Await, At, RefuseEngine, Sleep, Claim, Exit, Maintain, flagVars
<1>5. CASE Work /\ Contribute
  <2>1. CASE Applied
    BY <1>5, <2>1, AppliedPromise
  <2>2. CASE Rejected \/ Broken
    BY <1>1, <1>5, <2>2 DEF Work, Contribute, At, Rejected, Broken, flagVars
  <2>3. QED
    BY <1>5, <2>1, <2>2 DEF Contribute
<1>6. CASE Work /\ Advance
  <2>1. current'.world = current.world
    BY <1>6 DEF Advance, Serve, Broken, Publish
  <2>2. QED
    BY <1>1, <1>6, <2>1 DEF Work, Advance, At, Serve, Broken, flagVars
<1>7. CASE Work /\ Fail
  <2>1. /\ UNCHANGED <<call, ticketVars, cancelling, arrivals, current>>
        /\ worker # "resolve" /\ worker' # "resolve" /\ closing' = TRUE
    BY <1>7 DEF Work, Fail, At
  <2>2. QED
    BY <2>1, LifeSame, ClosePromise DEF ticketVars
<1>8. CASE Work /\ Drain
  BY <1>1, <1>8 DEF Work, Drain, At, flagVars
<1>9. CASE UNCHANGED vars
  BY <1>1, <1>9 DEF vars, workVars, flagVars
<1>10. QED
  BY <1>2, <1>3, <1>4, <1>5, <1>6, <1>7, <1>8, <1>9, SubmitPromise, CancelPromise,
     ReportPromise, AbandonPromise DEF Next, Work

----------------------------------------------------------------------------
(* Theorems *)

\* A session starts with nothing in hand.
LEMMA InitInvariant == Init => IInv
  <1> SUFFICES ASSUME Init PROVE IInv
    OBVIOUS
  <1>1. TypeOK
    <2>1. (engine.debt > 0) \in BOOLEAN
      OBVIOUS
    <2>2. pending \in BOOLEAN
      BY <2>1 DEF Init
    <2>3. <<>> \in Seq(Requests)
      OBVIOUS
    <2>4. current \in [generation : Nat, revision : Nat,
                      logical : Requests \cup {None}, world : Seq(Requests)]
      BY <2>3 DEF Init
    <2>5. reserved \in [work : Int, bytes : Int] /\ count \in Nat
      BY DEF Init
    <2>6. QED
      BY <2>2, <2>3, <2>4, <2>5 DEF Init, TypeOK, Threads
  <1>2. Unsettled = {} /\ Outstanding = {}
    BY DEF Init, Unsettled, Outstanding
  <1>3. ToSet(<<>>) = {} /\ IsInjective(<<>>)
    BY DEF ToSet, IsInjective
  <1>4. CountExact
    BY <1>2, FS_EmptySet, SessionAssumption DEF Init, CountExact
  <1>5. OneOwner /\ WorkerPlace /\ OnlyAcceptedSettle
    BY <1>2, <1>3, SessionAssumption DEF Init, OneOwner, WorkerPlace, OnlyAcceptedSettle
  <1>6. PublishedConsistent /\ TicketsTellTheTruth
    BY <1>3 DEF Init, PublishedConsistent, TicketsTellTheTruth
  <1>7. QED
    BY <1>1, <1>4, <1>5, <1>6 DEF IInv, Ownership

\* And every step of every thread keeps the invariant.
LEMMA StepInvariant == IInv /\ [Next]_vars => IInv'
  BY TypeStep, OwnersStep, TicketsStep DEF IInv

\* The strengthened invariant holds in every reachable state of run, failed,
\* enqueue, cancel, close and shutdown together.
THEOREM Invariance == SafeSpec => []IInv
  BY InitInvariant, StepInvariant, PTL DEF SafeSpec

\* Every member of the session keeps its type; count_ never wraps below zero.
THEOREM TypeCorrect == SafeSpec => []TypeOK
  <1>1. IInv => TypeOK
    BY DEF IInv
  <1>2. QED
    BY <1>1, Invariance, PTL

\* count_ is the number of outstanding requests and within its limit, through
\* every exception path of enqueue, cancel, run and failed.
THEOREM CountCorrect == SafeSpec => []CountExact
  <1>1. IInv => CountExact
    BY DEF IInv, Ownership
  <1>2. QED
    BY <1>1, Invariance, PTL

\* A ticket's value is a published world ending in its contribution, and no
\* contribution whose ticket yields an error is in the world (run, cancel).
THEOREM TruthfulTickets == SafeSpec => []TicketsTellTheTruth
  <1>1. IInv => TicketsTellTheTruth
    BY DEF IInv
  <1>2. QED
    BY <1>1, Invariance, PTL

\* The worker ends only with nothing left, whether run drained a closed session
\* or failed() waited for the constructors and cancellations in flight.
THEOREM EndsEmpty == SafeSpec => []EndedEmpty
  <1>1. ASSUME IInv, worker = "exited"
        PROVE  /\ closing /\ count = 0
               /\ queue = <<>> /\ abandoned = <<>> /\ cancelling = {} /\ Outstanding = {}
    <2>1. closing /\ count = 0 /\ abandoned = <<>>
      BY <1>1 DEF IInv, Ownership, WorkerPlace
    <2>2. Outstanding = {}
      BY <2>1, <1>1, OutstandingFinite, FS_EmptySet DEF IInv, Ownership, CountExact
    <2>3. ToSet(queue) = {} /\ cancelling = {}
      BY <2>2, <1>1 DEF IInv, Ownership, OneOwner, Outstanding
    <2>4. queue = <<>>
      BY <2>3, <1>1, EmptyElements DEF IInv, TypeOK
    <2>5. QED
      BY <2>1, <2>2, <2>3, <2>4
  <1>2. IInv => EndedEmpty
    BY <1>1 DEF EndedEmpty
  <1>3. QED
    BY <1>2, Invariance, PTL

\* Nobody is forgotten: the worker ends with nothing left, and no thread sleeps on
\* changed_ while what it waits for is so and no notify_all is on its way.
THEOREM NobodyForgotten == SafeSpec => []NobodyIsForgotten
  <1>1. Init => NoLostWakeup
    BY DEF Init, NoLostWakeup
  <1>2. IInv /\ NoLostWakeup /\ [Next]_vars => NoLostWakeup'
    BY WakeupStep DEF IInv
  <1>3. SafeSpec => []NoLostWakeup
    BY <1>1, <1>2, Invariance, PTL DEF SafeSpec
  <1>4. QED
    BY <1>3, EndsEmpty, PTL DEF NobodyIsForgotten

\* reserved_ and count_ are exactly what the outstanding requests hold, and within
\* the limits: fits never subtracts past zero and unreserve never wraps.
THEOREM ReservationsHold == SafeSpec => []ReservationsExact
<1>1. Init => Reservations
  <2> SUFFICES ASSUME Init PROVE Reservations
    OBVIOUS
  <2>1. Outstanding = {} /\ reserved.work = 0 /\ reserved.bytes = 0
    BY DEF Init, Outstanding, Unsettled
  <2>2. Limits.work \in Nat /\ Limits.bytes \in Nat
    BY SessionAssumption
  <2>3. QED
    BY <2>1, <2>2, TotalEmpty DEF Reservations
<1>2. IInv /\ Reservations /\ [Next]_vars => Reservations'
  BY ReservationsStep DEF IInv
<1>3. IInv /\ Reservations => ReservationsExact
  <2> SUFFICES ASSUME IInv, Reservations PROVE ReservationsExact
    OBVIOUS
  <2>1. Outstanding \in SUBSET Requests /\ IsFiniteSet(Outstanding)
    BY OutstandingFinite DEF Outstanding, Unsettled
  <2>2. /\ MapThenSumSet(LAMBDA r : Charge[r].work, Outstanding) = reserved.work
        /\ MapThenSumSet(LAMBDA r : Charge[r].bytes, Outstanding) = reserved.bytes
    BY <2>1, FoldOfCharges DEF Reservations
  <2>3. QED
    BY <2>2 DEF IInv, Ownership, CountExact, Reservations, ReservationsExact
<1>4. QED
  BY <1>1, <1>2, <1>3, Invariance, PTL DEF SafeSpec

\* A promise is set once, whoever sets it: the worker, a canceller or failed().
THEOREM SettledOnce == SafeSpec => TicketsSettleOnce
  <1> DEFINE Once == \A r \in Requests : outcome[r] # "open" =>
                       outcome'[r] = outcome[r] /\ yielded'[r] = yielded[r]
  <1>1. ASSUME IInv, [Next]_vars
        PROVE  Once
    <2>1. ASSUME NEW q \in Unsettled, NEW how,
                 outcome' = [outcome EXCEPT ![q] = how],
                 \/ yielded' = yielded
                 \/ yielded' = [yielded EXCEPT ![q] = current.generation]
          PROVE  Once
      BY <2>1, <1>1 DEF IInv, TypeOK, Unsettled
    <2>2. ASSUME UNCHANGED ticketVars
          PROVE  Once
      BY <2>2 DEF ticketVars
    <2>3. ASSUME NEW r \in Requests, Cancel(r)
          PROVE  Once
      <3>1. CASE SettleCancelled(r)
        BY <3>1, <2>1, <2>3, <1>1 DEF Cancel, SettleCancelled, Settle, IInv, Ownership, OneOwner
      <3>2. CASE Erase(r)
        BY <3>2, <2>2, <2>3 DEF Cancel, Erase, ticketVars
      <3>3. QED
        BY <2>3, <3>1, <3>2 DEF Cancel
    <2>4. CASE Work /\ Report
      <3>1. item \in Unsettled
        BY <2>4, <1>1 DEF Report, At, IInv, Ownership, OneOwner, WorkerPlace
      <3>2. QED
        BY <3>1, <2>1, <2>4 DEF Report, Settle
    <2>5. CASE Work /\ Abandon
      <3>1. abandoned # <<>> => Head(abandoned) \in Unsettled
        BY <1>1, TailElements DEF IInv, TypeOK, Ownership, OneOwner
      <3>2. QED
        BY <3>1, <2>1, <2>2, <2>5 DEF Abandon, Settle, ticketVars
    <2>6. QED
      BY <1>1, <2>2, <2>3, <2>4, <2>5
         DEF Next, Work, Submit, Shutdown, Wake, Await, Contribute, Advance, Fail, Drain, vars
  <1>2. IInv /\ [Next]_vars => [Once]_vars
    BY <1>1
  <1>3. QED
    BY <1>2, Invariance, PTL DEF SafeSpec, TicketsSettleOnce

\* The threaded session keeps the serial promise: bounded admission, application in
\* the order of acceptance, each ticket settled once, whatever close, cancel, a
\* throwing engine and a failure do between two of its regions (run, failed, enqueue).
THEOREM KeepsThePromise == SafeSpec => Promise!SafeSpec
<1>1. Init => InArrivalOrder
  <2>1. ToSet(<<>>) = {} /\ IsInjective(<<>>)
    BY DEF ToSet, IsInjective
  <2>2. QED
    BY <2>1 DEF Init, InArrivalOrder
<1>2. IInv /\ InArrivalOrder /\ [Next]_vars => InArrivalOrder'
  BY OrderStep DEF IInv
<1>3. Init => Promise!Init
  BY DEF Init, Promise!Init, LifeOf
<1>4. IInv /\ InArrivalOrder /\ [Next]_vars => [Promise!Next]_(Promise!vars)
  BY EveryStepIsPromised DEF IInv, PromiseStep
<1>5. QED
  BY <1>1, <1>2, <1>3, <1>4, Invariance, PTL DEF SafeSpec, Promise!SafeSpec

----------------------------------------------------------------------------
(***************************************************************************)
(* The named-session catalog                                               *)
(*                                                                         *)
(* The safety properties of Catalog, for every set of names, operations,   *)
(* handles and checkpoints and every generation limit.  The conjunction of *)
(* the properties, with a bound on the length of timelines, is inductive;  *)
(* what a request does to the tables is one lemma, OneRow.                 *)
(***************************************************************************)

\* No name has outgrown the generations an integer column can number.
Bounded(t) == \A n \in Names : Len(t.timelines[n]) <= MaxGeneration + 1

CatalogIInv ==
  /\ CatalogTypeOK
  /\ Bounded(db)
  /\ ReplayIsStable
  /\ EffectsAreReported
  /\ UncertainHandlesStop
  /\ OneWriterPerGeneration
  /\ PublicationsChain
  /\ PinsAreExact

-----------------------------------------------------------------------------

(* The requests are told apart by their kind.                              *)
LEMMA Kinds ==
  ASSUME NEW r \in Request
  PROVE  \/ r.kind = "create"  /\ r \in CreateRequests
         \/ r.kind = "publish" /\ r \in PublishRequests
         \/ r.kind = "fork"    /\ r \in ForkRequests
         \/ r.kind = "save"    /\ r \in SaveRequests
  BY DEF Request, CreateRequests, PublishRequests, ForkRequests, SaveRequests

\* Timelines d hold every row of timelines t, and at most one more, at the end
\* of the timeline of the name that outcome x says was added to.
OneRowMore(t, d, x) ==
  \A n \in Names :
    /\ Len(t[n]) <= Len(d[n])
    /\ \A i \in 1..Len(t[n]) : d[n][i] = t[n][i]
    /\ Len(d[n]) # Len(t[n]) => /\ x.added /\ x.head.name = n
                               /\ Len(d[n]) = Len(t[n]) + 1

(* The same timelines for all names but one, and a bounded one for that.   *)
LEMMA StaysBounded ==
  ASSUME NEW t \in Tables, Bounded(t), NEW n \in Names, NEW d,
         Len(d.timelines[n]) <= MaxGeneration + 1,
         \A m \in Names : m # n => d.timelines[m] = t.timelines[m]
  PROVE  Bounded(d)
<1> SUFFICES ASSUME NEW m \in Names
             PROVE  Len(d.timelines[m]) <= MaxGeneration + 1
  BY DEF Bounded
<1>1. CASE m = n
  BY <1>1
<1>2. CASE m # n
  BY <1>2 DEF Bounded
<1> QED
  BY <1>1, <1>2

\* d is t with row c at the end of the timeline of n.
AddedTo(t, n, c, d) ==
  /\ d \in Tables
  /\ Len(t.timelines[n]) \in Nat
  /\ Len(d.timelines[n]) = Len(t.timelines[n]) + 1
  /\ d.timelines[n][Len(t.timelines[n]) + 1] = c
  /\ \A m \in Names : m # n => d.timelines[m] = t.timelines[m]
  /\ \A x \in Outcome : x.added /\ x.head.name = n => OneRowMore(t.timelines, d.timelines, x)

(* add_session_generation appends one row and touches nothing else.        *)
LEMMA Added ==
  ASSUME NEW t \in Tables, NEW n \in Names, NEW c \in Checkpoints
  PROVE  AddedTo(t, n, c, AddRow(t, n, c))
<1> DEFINE d == AddRow(t, n, c)
<1>1. \A m \in Names : t.timelines[m] \in Seq(Checkpoints) /\ Len(t.timelines[m]) \in Nat
  BY DEF Tables
<1>2. d.timelines = [t.timelines EXCEPT ![n] = Append(@, c)]
  BY DEF AddRow, Tables
<1>3. d.timelines[n] = Append(t.timelines[n], c)
  BY <1>2 DEF Tables
<1>4. \A m \in Names : m # n => d.timelines[m] = t.timelines[m]
  BY <1>2 DEF Tables
<1>5. Append(t.timelines[n], c) \in Seq(Checkpoints)
  BY <1>1
<1>6. d \in Tables
  BY <1>5 DEF AddRow, Tables
<1>7. /\ Len(d.timelines[n]) = Len(t.timelines[n]) + 1
      /\ d.timelines[n][Len(t.timelines[n]) + 1] = c
      /\ \A i \in 1..Len(t.timelines[n]) : d.timelines[n][i] = t.timelines[n][i]
  BY <1>1, <1>3
<1>8. ASSUME NEW x \in Outcome, x.added, x.head.name = n PROVE OneRowMore(t.timelines, d.timelines, x)
  <2> SUFFICES ASSUME NEW m \in Names
               PROVE  /\ Len(t.timelines[m]) <= Len(d.timelines[m])
                      /\ \A i \in 1..Len(t.timelines[m]) : d.timelines[m][i] = t.timelines[m][i]
                      /\ Len(d.timelines[m]) # Len(t.timelines[m]) =>
                           /\ x.added /\ x.head.name = m
                           /\ Len(d.timelines[m]) = Len(t.timelines[m]) + 1
    BY DEF OneRowMore
  <2>1. CASE m = n
    BY <2>1, <1>1, <1>7, <1>8
  <2>2. CASE m # n
    BY <2>2, <1>1, <1>4
  <2> QED
    BY <2>1, <2>2
<1> QED
  BY <1>1, <1>4, <1>6, <1>7, <1>8 DEF AddedTo

(* Recording the source of a fork changes no timeline.                     *)
LEMMA Forked ==
  ASSUME NEW t \in Tables, NEW n \in Names, NEW c \in Checkpoints, NEW p \in Position
  PROVE  AddedTo(t, n, c, [AddRow(t, n, c) EXCEPT !.sources[n] = p])
<1> PICK e : e = AddRow(t, n, c)
  OBVIOUS
<1> PICK d : d = [e EXCEPT !.sources[n] = p]
  OBVIOUS
<1>1. AddedTo(t, n, c, e)
  BY Added
<1>2. e \in Tables
  BY <1>1 DEF AddedTo
<1>3. d \in Tables /\ d.timelines = e.timelines
  BY <1>2 DEF Tables
<1> QED
  BY <1>1, <1>3 DEF AddedTo

(* The latest generation of a name is a row of the catalog.                *)
LEMMA LatestIsRow ==
  ASSUME NEW t \in Tables, Bounded(t), NEW n \in Names, Exists(t, n)
  PROVE  /\ Latest(t, n) \in SessionHead
         /\ Latest(t, n).name = n
         /\ Latest(t, n).generation = Len(t.timelines[n]) - 1
         /\ IsRow(t, Latest(t, n))
<1>1. Len(t.timelines[n]) \in 1..(MaxGeneration + 1)
  BY TimelinesAssumption DEF Tables, Bounded, Exists
<1>2. Len(t.timelines[n]) - 1 \in 0..MaxGeneration
  BY <1>1, TimelinesAssumption
<1>3. t.timelines[n][Len(t.timelines[n]) - 1 + 1] \in Checkpoints
  BY <1>1 DEF Tables
<1> QED
  BY <1>1, <1>2, <1>3 DEF Latest, HeadAt, IsRow, SessionHead

(* What an applicable request does to the tables.  Every row that was there
   stays; a request that claims a row added exactly that row, at the end of
   its name's timeline; sources and saves change only for the request's own,
   unused, name.                                                           *)
LEMMA OneRow ==
  ASSUME NEW t \in Tables, Bounded(t), NEW r \in Request, ~Refused(t, r),
         NEW d, d = After(t, r), NEW x, x = OutcomeOf(t, r)
  PROVE  /\ d \in Tables /\ Bounded(d) /\ x \in Outcome
         /\ OneRowMore(t.timelines, d.timelines, x)
         /\ IsRow(d, x.head)
         /\ x.added => x.head.generation = Len(t.timelines[x.head.name])
<1>1. CASE r.kind = "create"
  <2>1. r \in CreateRequests /\ r.name \in Names /\ r.checkpoint \in Checkpoints
    BY <1>1, Kinds DEF CreateRequests
  <2>2. t.timelines[r.name] = <<>>
    BY <1>1 DEF Refused, Exists
  <2>3. d = AddRow(t, r.name, r.checkpoint)
    BY <1>1 DEF After
  <2>4. AddedTo(t, r.name, r.checkpoint, d)
    BY <2>1, <2>3, Added
  <2>5. Len(t.timelines[r.name]) = 0 /\ Len(d.timelines[r.name]) = 1
    BY <2>2, <2>4 DEF AddedTo
  <2>6. Bounded(d)
    <3>1. Len(d.timelines[r.name]) <= MaxGeneration + 1
      BY <2>5, TimelinesAssumption
    <3>2. \A m \in Names : m # r.name => d.timelines[m] = t.timelines[m]
      BY <2>4 DEF AddedTo
    <3> QED
      BY <2>1, <3>1, <3>2, StaysBounded
  <2>7. d \in Tables /\ Exists(d, r.name)
    BY <2>4, <2>5 DEF AddedTo, Exists
  <2>8. x = [added |-> TRUE, head |-> Latest(d, r.name)]
    BY <1>1 DEF OutcomeOf
  <2>a. /\ Latest(d, r.name) \in SessionHead /\ IsRow(d, Latest(d, r.name))
        /\ Latest(d, r.name).name = r.name
        /\ Latest(d, r.name).generation = Len(d.timelines[r.name]) - 1
    BY <2>1, <2>6, <2>7, LatestIsRow
  <2>9. Latest(d, r.name).generation = 0
    BY <2>5, <2>a
  <2>10. x \in Outcome
    BY <2>8, <2>a DEF Outcome
  <2>11. OneRowMore(t.timelines, d.timelines, x)
    BY <2>4, <2>8, <2>a, <2>10 DEF AddedTo
  <2> QED
    BY <2>5, <2>6, <2>7, <2>8, <2>9, <2>a, <2>10, <2>11
<1>2. CASE r.kind = "publish"
  <2> DEFINE n == r.expected.name
  <2>1. r \in PublishRequests /\ r.expected \in SessionHead /\ n \in Names /\ r.checkpoint \in Checkpoints
    BY <1>2, Kinds DEF PublishRequests, SessionHead
  <2>2. Exists(t, n)
    BY <1>2 DEF Refused
  <2>3. CASE Wins(t, r)
    <3>1. Latest(t, n) = r.expected /\ r.expected.generation # MaxGeneration
      BY <1>2, <2>3 DEF Wins, Refused
    <3>2. Len(t.timelines[n]) <= MaxGeneration
      BY <2>1, <2>2, <3>1, LatestIsRow, TimelinesAssumption DEF SessionHead, Tables
    <3>3. d = AddRow(t, n, r.checkpoint)
      BY <1>2, <2>3 DEF After
    <3>4. AddedTo(t, n, r.checkpoint, d)
      BY <2>1, <3>3, Added
    <3>5. Bounded(d)
      <4>1. Len(d.timelines[n]) <= MaxGeneration + 1
        BY <3>2, <3>4, TimelinesAssumption DEF AddedTo
      <4>2. \A m \in Names : m # n => d.timelines[m] = t.timelines[m]
        BY <3>4 DEF AddedTo
      <4> QED
        BY <2>1, <4>1, <4>2, StaysBounded
    <3>6. d \in Tables /\ Exists(d, n)
      BY <3>4 DEF AddedTo, Exists
    <3>7. x = [added |-> TRUE, head |-> Latest(d, n)]
      BY <1>2, <2>3 DEF OutcomeOf, After
    <3>8. /\ Latest(d, n) \in SessionHead /\ IsRow(d, Latest(d, n))
          /\ Latest(d, n).name = n /\ Latest(d, n).generation = Len(d.timelines[n]) - 1
      BY <2>1, <3>5, <3>6, LatestIsRow
    <3>9. x \in Outcome
      BY <3>7, <3>8 DEF Outcome
    <3>10. OneRowMore(t.timelines, d.timelines, x)
      BY <3>4, <3>7, <3>8, <3>9 DEF AddedTo
    <3>11. Latest(d, n).generation = Len(t.timelines[n])
      BY <3>4, <3>8 DEF AddedTo
    <3> QED
      BY <3>5, <3>6, <3>7, <3>8, <3>9, <3>10, <3>11
  <2>4. CASE ~Wins(t, r)
    <3>1. d = t
      BY <1>2, <2>4 DEF After
    <3>2. x = [added |-> FALSE, head |-> Latest(t, n)]
      BY <1>2, <2>4, <3>1 DEF OutcomeOf, Wins
    <3>3. Latest(t, n) \in SessionHead /\ IsRow(t, Latest(t, n))
      BY <2>1, <2>2, LatestIsRow
    <3>4. x \in Outcome
      BY <3>2, <3>3 DEF Outcome
    <3>5. OneRowMore(t.timelines, d.timelines, x)
      BY <3>1 DEF OneRowMore, Tables
    <3> QED
      BY <3>1, <3>2, <3>3, <3>4, <3>5
  <2> QED
    BY <2>3, <2>4
<1>3. CASE r.kind = "fork"
  <2>1. /\ r \in ForkRequests /\ r.name \in Names /\ r.source \in SessionHead
        /\ r.source.checkpoint \in Checkpoints /\ PositionOf(r.source) \in Position
    BY <1>3, Kinds DEF ForkRequests, SessionHead, PositionOf, Position
  <2>2. t.timelines[r.name] = <<>>
    BY <1>3 DEF Refused, Exists
  <2>3. d = [AddRow(t, r.name, r.source.checkpoint) EXCEPT !.sources[r.name] = PositionOf(r.source)]
    BY <1>3 DEF After
  <2>4. AddedTo(t, r.name, r.source.checkpoint, d)
    BY <2>1, <2>3, Forked
  <2>5. Len(t.timelines[r.name]) = 0 /\ Len(d.timelines[r.name]) = 1
    BY <2>2, <2>4 DEF AddedTo
  <2>6. Bounded(d)
    <3>1. Len(d.timelines[r.name]) <= MaxGeneration + 1
      BY <2>5, TimelinesAssumption
    <3>2. \A m \in Names : m # r.name => d.timelines[m] = t.timelines[m]
      BY <2>4 DEF AddedTo
    <3> QED
      BY <2>1, <3>1, <3>2, StaysBounded
  <2>7. d \in Tables /\ Exists(d, r.name)
    BY <2>4, <2>5 DEF AddedTo, Exists
  <2>8. x = [added |-> TRUE, head |-> Latest(d, r.name)]
    BY <1>3 DEF OutcomeOf
  <2>a. /\ Latest(d, r.name) \in SessionHead /\ IsRow(d, Latest(d, r.name))
        /\ Latest(d, r.name).name = r.name
        /\ Latest(d, r.name).generation = Len(d.timelines[r.name]) - 1
    BY <2>1, <2>6, <2>7, LatestIsRow
  <2>9. Latest(d, r.name).generation = 0
    BY <2>5, <2>a
  <2>10. x \in Outcome
    BY <2>8, <2>a DEF Outcome
  <2>11. OneRowMore(t.timelines, d.timelines, x)
    BY <2>4, <2>8, <2>a, <2>10 DEF AddedTo
  <2> QED
    BY <2>5, <2>6, <2>7, <2>8, <2>9, <2>a, <2>10, <2>11
<1>4. CASE r.kind = "save"
  <2>1. /\ r \in SaveRequests /\ r.source \in SessionHead
        /\ PositionOf(r.source) \in Position
    BY <1>4, Kinds DEF SaveRequests, SessionHead, PositionOf, Position
  <2>2. IsRow(t, r.source)
    BY <1>4 DEF Refused
  <2>3. d = [t EXCEPT !.saves[r.name] = PositionOf(r.source)]
    BY <1>4 DEF After
  <2>4. d \in Tables /\ d.timelines = t.timelines
    BY <2>1, <2>3 DEF Tables
  <2>5. x = [added |-> FALSE, head |-> r.source]
    BY <1>4 DEF OutcomeOf
  <2>6. OneRowMore(t.timelines, d.timelines, x)
    BY <2>4 DEF OneRowMore, Tables
  <2>7. x \in Outcome /\ IsRow(d, x.head) /\ Bounded(d)
    BY <2>1, <2>2, <2>4, <2>5 DEF Outcome, IsRow, Bounded
  <2> QED
    BY <2>4, <2>5, <2>6, <2>7
<1> QED
  BY <1>1, <1>2, <1>3, <1>4, Kinds

(* A row stays a row.                                                      *)
LEMMA RowsStay ==
  ASSUME NEW t \in Tables, NEW d \in Tables, NEW x,
         OneRowMore(t.timelines, d.timelines, x),
         NEW h \in SessionHead, IsRow(t, h)
  PROVE  IsRow(d, h)
<1>1. h.name \in Names /\ h.generation \in Nat
  BY TimelinesAssumption DEF SessionHead
<1>2. /\ h.generation < Len(t.timelines[h.name])
      /\ t.timelines[h.name][h.generation + 1] = h.checkpoint
  BY DEF IsRow
<1>3. /\ Len(t.timelines[h.name]) \in Nat /\ Len(d.timelines[h.name]) \in Nat
  BY <1>1 DEF Tables
<1>4. h.generation + 1 \in 1..Len(t.timelines[h.name])
  BY <1>1, <1>2, <1>3
<1>5. /\ Len(t.timelines[h.name]) <= Len(d.timelines[h.name])
      /\ \A i \in 1..Len(t.timelines[h.name]) : d.timelines[h.name][i] = t.timelines[h.name][i]
  BY <1>1 DEF OneRowMore
<1>6. h.generation < Len(d.timelines[h.name])
  BY <1>1, <1>2, <1>3, <1>5
<1>7. d.timelines[h.name][h.generation + 1] = h.checkpoint
  BY <1>2, <1>4, <1>5
<1> QED
  BY <1>6, <1>7 DEF IsRow

(* An applicable publication extends what it expected or names its rival.  *)
LEMMA PublishChains ==
  ASSUME NEW t \in Tables, Bounded(t), NEW r \in PublishRequests, ~Refused(t, r)
  PROVE  Chained(After(t, r), r, OutcomeOf(t, r))
<1> PICK d : d = After(t, r)
  OBVIOUS
<1> PICK x : x = OutcomeOf(t, r)
  OBVIOUS
<1> DEFINE n == r.expected.name
<1>1. /\ r \in Request /\ r.kind = "publish" /\ r.expected \in SessionHead
      /\ n \in Names /\ r.checkpoint \in Checkpoints
  BY DEF Request, PublishRequests, SessionHead
<1>2. /\ d \in Tables /\ Bounded(d) /\ x \in Outcome
      /\ OneRowMore(t.timelines, d.timelines, x)
      /\ IsRow(d, x.head)
      /\ x.added => x.head.generation = Len(t.timelines[x.head.name])
  BY <1>1, OneRow
<1>3. Exists(t, n)
  BY <1>1 DEF Refused
<1>4. /\ Latest(t, n) \in SessionHead /\ IsRow(t, Latest(t, n)) /\ Latest(t, n).name = n
      /\ Latest(t, n).generation = Len(t.timelines[n]) - 1
      /\ Len(t.timelines[n]) \in Nat
  <2>1. n \in Names /\ t.timelines[n] \in Seq(Checkpoints) /\ Len(t.timelines[n]) \in Nat
    BY <1>1 DEF Tables
  <2> QED
    BY <1>3, <2>1, LatestIsRow
<1>5. CASE Wins(t, r)
  <2>1. Latest(t, n) = r.expected
    BY <1>5 DEF Wins
  <2>2. d = AddRow(t, n, r.checkpoint)
    BY <1>1, <1>5 DEF After
  <2>3. AddedTo(t, n, r.checkpoint, d)
    BY <1>1, <2>2, Added
  <2>4. Exists(d, n)
    BY <1>4, <2>3 DEF AddedTo, Exists
  <2>5. x = [added |-> TRUE, head |-> Latest(d, n)]
    BY <1>1, <1>5 DEF OutcomeOf, After
  <2>6. Latest(d, n).name = n
    BY <1>1, <1>2, <2>4, LatestIsRow
  <2>7. x.added /\ x.head.name = n
    BY <2>5, <2>6
  <2>8. x.head.generation = r.expected.generation + 1
    BY <1>2, <1>4, <2>1, <2>7
  <2>9. x.head.checkpoint = r.checkpoint
    <3>1. d.timelines[n][x.head.generation + 1] = x.head.checkpoint
      BY <1>2, <2>7 DEF IsRow
    <3>2. d.timelines[n][Len(t.timelines[n]) + 1] = r.checkpoint
      BY <2>3 DEF AddedTo
    <3> QED
      BY <1>2, <2>7, <3>1, <3>2
  <2>10. IsRow(d, r.expected)
    BY <1>1, <1>2, <1>4, <2>1, RowsStay
  <2> QED
    BY <2>7, <2>8, <2>9, <2>10 DEF Chained
<1>6. CASE ~Wins(t, r)
  <2>1. d = t
    BY <1>1, <1>6 DEF After
  <2>2. x = [added |-> FALSE, head |-> Latest(t, n)]
    BY <1>1, <1>6, <2>1 DEF OutcomeOf, Wins
  <2>3. Latest(t, n) # r.expected
    BY <1>3, <1>6 DEF Wins
  <2> QED
    BY <1>4, <2>1, <2>2, <2>3 DEF Chained
<1> QED
  BY <1>5, <1>6

(* A saved name is never moved, and a new one denotes what it was asked to. *)
LEMMA SavesStay ==
  ASSUME NEW t \in Tables, NEW r \in Request, ~Refused(t, r)
  PROVE  /\ \A s \in Saves : t.saves[s] # Nowhere => After(t, r).saves[s] = t.saves[s]
         /\ r.kind = "save" => SaveIsExact(After(t, r), r)
<1> PICK d : d = After(t, r)
  OBVIOUS
<1>1. CASE r.kind = "save"
  <2>1. r \in SaveRequests /\ r.name \in Saves /\ r.source \in SessionHead
    BY <1>1, Kinds DEF SaveRequests
  <2>2. t.saves[r.name] = Nowhere /\ IsRow(t, r.source)
    BY <1>1 DEF Refused
  <2>3. d = [t EXCEPT !.saves[r.name] = PositionOf(r.source)]
    BY <1>1 DEF After
  <2>4. d.timelines = t.timelines /\ d.saves[r.name] = PositionOf(r.source)
    BY <2>1, <2>3 DEF Tables
  <2>5. \A s \in Saves : s # r.name => d.saves[s] = t.saves[s]
    BY <2>1, <2>3 DEF Tables
  <2>6. SaveIsExact(d, r)
    BY <2>2, <2>4 DEF SaveIsExact, IsRow
  <2> QED
    BY <2>2, <2>5, <2>6
<1>2. CASE r.kind = "create"
  BY <1>2 DEF After, AddRow, Tables
<1>3. CASE r.kind = "publish"
  BY <1>3 DEF After, AddRow, Tables
<1>4. CASE r.kind = "fork"
  BY <1>4 DEF After, AddRow, Tables
<1> QED
  BY <1>1, <1>2, <1>3, <1>4, Kinds

(* The first row of a name that exists, and the row it was forked from,
   never change.                                                           *)
LEMMA SourceStays ==
  ASSUME NEW t \in Tables, NEW d \in Tables, NEW x,
         OneRowMore(t.timelines, d.timelines, x),
         NEW n \in Names, d.sources[n] = t.sources[n], SourceIsExact(t, n)
  PROVE  SourceIsExact(d, n)
<1> SUFFICES ASSUME t.sources[n] # Nowhere
             PROVE  SourceIsExact(d, n)
  BY DEF SourceIsExact
<1> DEFINE h == [name       |-> t.sources[n].name,
                 generation |-> t.sources[n].generation,
                 checkpoint |-> t.timelines[n][1]]
<1>1. Exists(t, n) /\ IsRow(t, h)
  BY DEF SourceIsExact
<1>2. Len(t.timelines[n]) \in Nat \ {0} /\ Len(d.timelines[n]) \in Nat
  BY <1>1 DEF Exists, Tables
<1>3. t.sources[n] \in Position /\ t.timelines[n][1] \in Checkpoints
  BY <1>2 DEF Tables
<1>4. h \in SessionHead
  BY <1>3 DEF Position, SessionHead
<1>5. IsRow(d, h)
  BY <1>1, <1>4, RowsStay
<1>6. d.timelines[n][1] = t.timelines[n][1] /\ Len(t.timelines[n]) <= Len(d.timelines[n])
  BY <1>2 DEF OneRowMore
<1>7. Exists(d, n)
  BY <1>2, <1>6 DEF Exists
<1> QED
  BY <1>5, <1>6, <1>7 DEF SourceIsExact

(* A request leaves every fork beginning with its source.                  *)
LEMMA SourcesExact ==
  ASSUME NEW t \in Tables, Bounded(t), NEW r \in Request, ~Refused(t, r),
         \A n \in Names : SourceIsExact(t, n)
  PROVE  \A n \in Names : SourceIsExact(After(t, r), n)
<1> PICK d : d = After(t, r)
  OBVIOUS
<1> PICK x : x = OutcomeOf(t, r)
  OBVIOUS
<1> SUFFICES ASSUME NEW n \in Names
             PROVE  SourceIsExact(d, n)
  OBVIOUS
<1>1. d \in Tables /\ OneRowMore(t.timelines, d.timelines, x)
  BY OneRow
<1>2. SourceIsExact(t, n)
  OBVIOUS
<1>3. CASE d.sources[n] = t.sources[n]
  BY <1>1, <1>2, <1>3, SourceStays
<1>4. CASE d.sources[n] # t.sources[n]
  <2>1. r.kind = "fork"
    <3>1. CASE r.kind = "create"
      BY <1>4, <3>1 DEF After, AddRow, Tables
    <3>2. CASE r.kind = "publish"
      BY <1>4, <3>2 DEF After, AddRow, Tables
    <3>3. CASE r.kind = "save"
      BY <1>4, <3>3 DEF After, Tables
    <3> QED
      BY <3>1, <3>2, <3>3, Kinds
  <2>2. /\ r.name \in Names /\ r.source \in SessionHead
        /\ r.source.checkpoint \in Checkpoints /\ PositionOf(r.source) \in Position
    BY <2>1, Kinds DEF ForkRequests, SessionHead, PositionOf, Position
  <2>3. t.timelines[r.name] = <<>> /\ IsRow(t, r.source)
    BY <2>1 DEF Refused, Exists
  <2>4. d = [AddRow(t, r.name, r.source.checkpoint) EXCEPT !.sources[r.name] = PositionOf(r.source)]
    BY <2>1 DEF After
  <2>5. AddedTo(t, r.name, r.source.checkpoint, d)
    BY <2>2, <2>4, Forked
  <2>6. n = r.name
    BY <1>4, <2>2, <2>4 DEF AddRow, Tables
  <2>7. d.sources[n] = PositionOf(r.source)
    BY <2>2, <2>4, <2>6 DEF AddRow, Tables
  <2>8. Len(t.timelines[n]) = 0 /\ Len(d.timelines[n]) = 1 /\ d.timelines[n][1] = r.source.checkpoint
    BY <2>3, <2>5, <2>6 DEF AddedTo
  <2>9. Exists(d, n)
    BY <2>8 DEF Exists
  <2>10. IsRow(d, r.source)
    BY <1>1, <2>2, <2>3, RowsStay
  <2>11. IsRow(d, [name       |-> d.sources[n].name,
                   generation |-> d.sources[n].generation,
                   checkpoint |-> d.timelines[n][1]])
    BY <2>7, <2>8, <2>10 DEF IsRow, PositionOf
  <2> QED
    BY <2>9, <2>11 DEF SourceIsExact
<1> QED
  BY <1>3, <1>4

-----------------------------------------------------------------------------

\* What the invariant says of the tables and the committed operations.
Rows == /\ db \in Tables
        /\ operations \in [Ops -> Record \cup {Unused}]
        /\ Bounded(db)
        /\ OneWriterPerGeneration
        /\ PublicationsChain
        /\ PinsAreExact

\* The tables, operations and outcome that an action of operation o committed.
Committed(o, r, x) ==
  /\ db' = After(db, r)
  /\ operations' = [operations EXCEPT ![o] = [request |-> r, outcome |-> x]]

(* The committed operations are the old ones, unchanged, and the new one.  *)
LEMMA NewRecord ==
  ASSUME operations \in [Ops -> Record \cup {Unused}], NEW o \in Ops, operations[o] = Unused,
         NEW r \in Request, NEW x \in Outcome, Committed(o, r, x)
  PROVE  /\ operations' \in [Ops -> Record \cup {Unused}]
         /\ o \in Recorded' /\ o \notin Recorded
         /\ operations'[o].request = r /\ operations'[o].outcome = x
         /\ \A p \in Ops : p # o => operations'[p] = operations[p]
         /\ \A p \in Recorded : p \in Recorded' /\ operations'[p] = operations[p]
         /\ \A p \in Recorded' : p = o \/ p \in Recorded
         /\ \A p \in Recorded : /\ operations[p].request \in Request
                                /\ operations[p].outcome \in Outcome
                                /\ operations[p].outcome.head \in SessionHead
<1>1. [request |-> r, outcome |-> x] \in Record
  BY DEF Record
<1>2. [request |-> r, outcome |-> x] # Unused
  BY <1>1, CatalogAssumption DEF Record
<1>3. /\ operations' = [operations EXCEPT ![o] = [request |-> r, outcome |-> x]]
      /\ operations'[o] = [request |-> r, outcome |-> x]
      /\ \A p \in Ops : p # o => operations'[p] = operations[p]
  BY DEF Committed
<1>4. operations' \in [Ops -> Record \cup {Unused}]
  BY <1>1, <1>3
<1>5. \A p \in Recorded : operations[p] \in Record
  BY DEF Recorded
<1> QED
  BY <1>2, <1>3, <1>4, <1>5 DEF Recorded, Record, Outcome

(* Committing an applicable request under an unused identity gives every row
   exactly one writer.                                                     *)
LEMMA WritersStep ==
  ASSUME Rows, NEW o \in Ops, operations[o] = Unused,
         NEW r \in Request, ~Refused(db, r), NEW x, x = OutcomeOf(db, r), Committed(o, r, x)
  PROVE  OneWriterPerGeneration'
<1>1. /\ db' \in Tables /\ Bounded(db') /\ x \in Outcome
      /\ OneRowMore(db.timelines, db'.timelines, x)
      /\ IsRow(db', x.head)
      /\ x.added => x.head.generation = Len(db.timelines[x.head.name])
  BY OneRow DEF Rows, Committed
<1>2. /\ o \in Recorded' /\ o \notin Recorded
      /\ operations'[o].outcome = x
      /\ \A p \in Recorded : p \in Recorded' /\ operations'[p] = operations[p]
      /\ \A p \in Recorded' : p = o \/ p \in Recorded
      /\ \A p \in Recorded : operations[p].outcome \in Outcome
      /\ \A p \in Recorded : operations[p].outcome.head \in SessionHead
  BY <1>1, NewRecord DEF Rows
<1>3. ASSUME NEW n \in Names, NEW i \in 1..Len(db'.timelines[n])
      PROVE  \E p \in Ops : Wrote(p, HeadAt(db, [name |-> n, generation |-> i - 1]))'
  <2>1. Len(db.timelines[n]) \in Nat /\ Len(db'.timelines[n]) \in Nat
    BY <1>1 DEF Rows, Tables
  <2>2. CASE i \in 1..Len(db.timelines[n])
    <3>1. PICK p \in Ops : Wrote(p, HeadAt(db, [name |-> n, generation |-> i - 1]))
      BY <2>2 DEF Rows, OneWriterPerGeneration
    <3>2. db'.timelines[n][i] = db.timelines[n][i]
      BY <1>1, <2>2 DEF OneRowMore
    <3>3. HeadAt(db', [name |-> n, generation |-> i - 1]) = HeadAt(db, [name |-> n, generation |-> i - 1])
      BY <2>2, <3>2 DEF HeadAt
    <3> QED
      BY <1>2, <3>1, <3>3 DEF Wrote
  <2>3. CASE i \notin 1..Len(db.timelines[n])
    <3>1. Len(db'.timelines[n]) # Len(db.timelines[n])
      BY <2>1, <2>3
    <3>2. x.added /\ x.head.name = n /\ Len(db'.timelines[n]) = Len(db.timelines[n]) + 1
      BY <1>1, <3>1 DEF OneRowMore
    <3>3. x.head.generation = i - 1
      BY <1>1, <2>1, <2>3, <3>2
    <3>4. x.head \in SessionHead
      BY <1>1 DEF Outcome
    <3>5. x.head = HeadAt(db', [name |-> n, generation |-> i - 1])
      BY <1>1, <2>1, <3>2, <3>3, <3>4 DEF HeadAt, IsRow, SessionHead
    <3>6. x = [added |-> TRUE, head |-> x.head]
      BY <1>1, <3>2 DEF Outcome
    <3> QED
      BY <1>2, <3>5, <3>6 DEF Wrote
  <2> QED
    BY <2>2, <2>3
<1>4. ASSUME NEW p \in Recorded', operations'[p].outcome.added
      PROVE  IsRow(db', operations'[p].outcome.head)
  <2>1. CASE p = o
    BY <1>1, <1>2, <2>1
  <2>2. CASE p \in Recorded
    <3> DEFINE h == operations[p].outcome.head
    <3>1. h \in SessionHead /\ operations'[p].outcome.head = h
      BY <1>2, <2>2
    <3>2. IsRow(db, h)
      BY <1>2, <1>4, <2>2 DEF Rows, OneWriterPerGeneration
    <3>3. db \in Tables
      BY DEF Rows
    <3> HIDE DEF h
    <3>4. IsRow(db', h)
      BY <1>1, <3>1, <3>2, <3>3, RowsStay
    <3> QED
      BY <3>1, <3>4 DEF h
  <2> QED
    BY <1>2, <2>1, <2>2
<1>5. ASSUME NEW p \in Recorded, operations[p].outcome.added, x.added,
             PositionOf(operations[p].outcome.head) = PositionOf(x.head)
      PROVE  FALSE
  <2>1. IsRow(db, operations[p].outcome.head)
    BY <1>5 DEF Rows, OneWriterPerGeneration
  <2>2. /\ operations[p].outcome.head.name = x.head.name
        /\ operations[p].outcome.head.generation = x.head.generation
    BY <1>5 DEF PositionOf
  <2>3. x.head.name \in Names
    BY <1>1 DEF Outcome, SessionHead
  <2>4. Len(db.timelines[x.head.name]) \in Nat
    BY <2>3 DEF Rows, Tables
  <2> QED
    BY <1>1, <1>5, <2>1, <2>2, <2>4 DEF IsRow
<1>6. ASSUME NEW p1 \in Recorded', NEW p2 \in Recorded',
             operations'[p1].outcome.added, operations'[p2].outcome.added,
             PositionOf(operations'[p1].outcome.head) = PositionOf(operations'[p2].outcome.head)
      PROVE  p1 = p2
  <2>1. CASE p1 = o /\ p2 = o
    BY <2>1
  <2>2. CASE p1 = o /\ p2 \in Recorded
    BY <1>2, <1>5, <1>6, <2>2
  <2>3. CASE p2 = o /\ p1 \in Recorded
    BY <1>2, <1>5, <1>6, <2>3
  <2>4. CASE p1 \in Recorded /\ p2 \in Recorded
    BY <1>2, <1>6, <2>4 DEF Rows, OneWriterPerGeneration
  <2> QED
    BY <1>2, <2>1, <2>2, <2>3, <2>4
<1> QED
  BY <1>3, <1>4, <1>6 DEF OneWriterPerGeneration, Recorded, Wrote, HeadAt, IsRow, PositionOf

(* ... leaves the publications chained ...                                 *)
LEMMA ChainStep ==
  ASSUME Rows, NEW o \in Ops, operations[o] = Unused,
         NEW r \in Request, ~Refused(db, r), NEW x, x = OutcomeOf(db, r), Committed(o, r, x)
  PROVE  PublicationsChain'
<1>1. /\ db' \in Tables /\ x \in Outcome
      /\ OneRowMore(db.timelines, db'.timelines, x)
  BY OneRow DEF Rows, Committed
<1>2. /\ operations'[o].request = r /\ operations'[o].outcome = x
      /\ \A p \in Recorded : operations'[p] = operations[p]
      /\ \A p \in Recorded' : p = o \/ p \in Recorded
      /\ \A p \in Recorded : operations[p].request \in Request
      /\ \A p \in Recorded : operations[p].outcome.head \in SessionHead
  BY <1>1, NewRecord DEF Rows
<1> SUFFICES ASSUME NEW p \in Recorded', operations'[p].request.kind = "publish"
             PROVE  Chained(db', operations'[p].request, operations'[p].outcome)
  BY DEF PublicationsChain
<1>3. CASE p = o
  <2>1. r \in PublishRequests
    BY <1>2, <1>3, Kinds
  <2>2. Chained(After(db, r), r, x)
    BY <2>1, PublishChains DEF Rows
  <2> QED
    BY <1>2, <1>3, <2>2 DEF Committed
<1>4. CASE p \in Recorded
  <2>1. operations'[p] = operations[p] /\ operations[p].request.kind = "publish"
    BY <1>2, <1>4
  <2>2. Chained(db, operations[p].request, operations[p].outcome)
    BY <1>4, <2>1 DEF Rows, PublicationsChain
  <2>3. operations[p].request \in PublishRequests
    BY <1>2, <1>4, <2>1, Kinds
  <2>4. operations[p].request.expected \in SessionHead /\ operations[p].outcome.head \in SessionHead
    BY <1>2, <1>4, <2>3 DEF PublishRequests
  <2>5. \A h \in SessionHead : IsRow(db, h) => IsRow(db', h)
    BY <1>1, RowsStay DEF Rows
  <2> QED
    BY <2>1, <2>2, <2>4, <2>5 DEF Chained
<1> QED
  BY <1>2, <1>3, <1>4

(* ... and every fork and save exact.                                      *)
LEMMA PinsStep ==
  ASSUME Rows, NEW o \in Ops, operations[o] = Unused,
         NEW r \in Request, ~Refused(db, r), NEW x, x = OutcomeOf(db, r), Committed(o, r, x)
  PROVE  PinsAreExact'
<1>1. /\ db' \in Tables /\ x \in Outcome
      /\ OneRowMore(db.timelines, db'.timelines, x)
  BY OneRow DEF Rows, Committed
<1>2. /\ operations'[o].request = r
      /\ \A p \in Recorded : operations'[p] = operations[p]
      /\ \A p \in Recorded' : p = o \/ p \in Recorded
      /\ \A p \in Recorded : operations[p].request \in Request
  BY <1>1, NewRecord DEF Rows
<1>3. \A n \in Names : SourceIsExact(db', n)
  BY SourcesExact DEF Rows, PinsAreExact, Committed
<1>4. ASSUME NEW p \in Recorded', operations'[p].request.kind = "save"
      PROVE  SaveIsExact(db', operations'[p].request)
  <2>1. CASE p = o
    BY <1>2, <1>4, <2>1, SavesStay DEF Rows, Committed
  <2>2. CASE p \in Recorded
    <3> PICK q : q = operations[p].request
      OBVIOUS
    <3>1. operations'[p].request = q /\ q.kind = "save" /\ q \in Request
      BY <1>2, <1>4, <2>2
    <3>2. q.name \in Saves /\ q.source \in SessionHead
      BY <3>1, Kinds DEF SaveRequests
    <3>3. IsRow(db, q.source) /\ db.saves[q.name] = PositionOf(q.source)
      BY <2>2, <3>1 DEF Rows, PinsAreExact, SaveIsExact
    <3>4. PositionOf(q.source) # Nowhere
      BY <3>2, TimelinesAssumption DEF PositionOf, SessionHead
    <3>5. db'.saves[q.name] = db.saves[q.name]
      BY <3>2, <3>3, <3>4, SavesStay DEF Rows, Committed
    <3>6. IsRow(db', q.source)
      BY <1>1, <3>2, <3>3, RowsStay DEF Rows
    <3> QED
      BY <3>1, <3>3, <3>5, <3>6 DEF SaveIsExact
  <2> QED
    BY <1>2, <2>1, <2>2
<1> QED
  BY <1>3, <1>4 DEF PinsAreExact

(* The rows of the request and of its operation, committed together,
   preserve all that is said of them.                                      *)
LEMMA RowsStep ==
  ASSUME Rows, NEW o \in Ops, operations[o] = Unused,
         NEW r \in Request, ~Refused(db, r), Apply(o, r)
  PROVE  /\ Rows'
         /\ OutcomeOf(db, r) \in Outcome
         /\ Committed(o, r, OutcomeOf(db, r))
<1> PICK x : x = OutcomeOf(db, r)
  OBVIOUS
<1>1. Committed(o, r, x)
  BY DEF Apply, Committed
<1>2. db' \in Tables /\ Bounded(db') /\ x \in Outcome
  BY <1>1, OneRow DEF Rows, Committed
<1>3. operations' \in [Ops -> Record \cup {Unused}]
  BY <1>1, <1>2, NewRecord DEF Rows
<1>4. OneWriterPerGeneration'
  BY <1>1, WritersStep
<1>5. PublicationsChain'
  BY <1>1, ChainStep
<1>6. PinsAreExact'
  BY <1>1, PinsStep
<1>7. Bounded(db)'
  BY <1>2 DEF Bounded
<1> QED
  BY <1>1, <1>2, <1>3, <1>4, <1>5, <1>6, <1>7 DEF Rows

-----------------------------------------------------------------------------

(* The empty catalog.                                                      *)
LEMMA InitHolds == CatalogInit => CatalogIInv
<1> SUFFICES ASSUME CatalogInit
             PROVE  CatalogIInv
  OBVIOUS
<1>1. Recorded = {}
  BY DEF CatalogInit, Recorded
<1>2. \A n \in Names : db.timelines[n] = <<>> /\ Len(db.timelines[n]) = 0 /\ db.sources[n] = Nowhere
  BY DEF CatalogInit, Empty
<1>3. CatalogTypeOK
  <2>1. db \in Tables
    BY DEF CatalogInit, Empty, Tables
  <2> QED
    BY <2>1 DEF CatalogInit, CatalogTypeOK
<1>4. Bounded(db)
  <2>1. 0 <= MaxGeneration + 1
    BY TimelinesAssumption
  <2>2. \A n \in Names : Len(db.timelines[n]) = 0
    BY <1>2
  <2> QED
    BY ONLY <2>1, <2>2 DEF Bounded
<1>5. ReplayIsStable /\ EffectsAreReported /\ UncertainHandlesStop
  BY <1>1 DEF CatalogInit, ReplayIsStable, EffectsAreReported, UncertainHandlesStop, Shown
<1>6. OneWriterPerGeneration
  BY <1>1, <1>2 DEF OneWriterPerGeneration
<1>7. PublicationsChain /\ PinsAreExact
  BY <1>1, <1>2 DEF PublicationsChain, PinsAreExact, SourceIsExact
<1> QED
  BY <1>3, <1>4, <1>5, <1>6, <1>7 DEF CatalogIInv

\* The variables that say what becomes of the handles.
HandlesKept ==
  /\ poisoned \in SUBSET Handles
  /\ left \in [Handles -> SUBSET Tables]
  /\ UncertainHandlesStop

(* A transaction that its handle fails to roll back is the only one open, and
   the handle has stopped.                                                 *)
LEMMA OneIsLeft ==
  ASSUME HandlesKept, NEW h \in Handles, Begins(h), NEW t \in Tables, db' = db,
         left' = [left EXCEPT ![h] = {t}], poisoned' = poisoned \cup {h}
  PROVE  HandlesKept'
<1>1. \A g \in Handles : left[g] = {}
  BY DEF Begins
<1>2. left' \in [Handles -> SUBSET Tables] /\ poisoned' \in SUBSET Handles
  BY DEF HandlesKept
<1>3. \A g \in Handles : g # h => left'[g] = {}
  BY <1>1 DEF HandlesKept
<1> QED
  BY <1>2, <1>3 DEF HandlesKept, UncertainHandlesStop, Active, Shown

(* A handle closed takes the transaction it left open with it.             *)
LEMMA ReopenedIsClean ==
  ASSUME HandlesKept, NEW h \in Handles, db' = db,
         left' = [left EXCEPT ![h] = {}], poisoned' = poisoned \ {h}
  PROVE  HandlesKept'
<1>1. left' \in [Handles -> SUBSET Tables] /\ poisoned' \in SUBSET Handles
  BY DEF HandlesKept
<1>2. left'[h] = {} /\ \A g \in Handles : g # h => left'[g] = left[g]
  BY DEF HandlesKept
<1>3. \A g \in Handles : g \notin poisoned' => Shown(g)' = {db}
  BY <1>2 DEF HandlesKept, UncertainHandlesStop, Active, Shown
<1>4. \A f, g \in Handles : left'[f] # {} /\ left'[g] # {} => f = g
  BY <1>2 DEF HandlesKept, UncertainHandlesStop
<1> QED
  BY <1>1, <1>3, <1>4 DEF HandlesKept, UncertainHandlesStop, Active

(* Other handles may stop while no transaction is left open, or any may when
   the tables stay.                                                        *)
LEMMA MoreStop ==
  ASSUME HandlesKept, left' = left, poisoned' \in SUBSET Handles, poisoned \subseteq poisoned',
         db' = db \/ \A g \in Handles : left[g] = {}
  PROVE  HandlesKept'
<1>1. \A g \in Handles : g \notin poisoned' => Shown(g)' = {db'}
  BY DEF HandlesKept, UncertainHandlesStop, Active, Shown
<1>2. left' \in [Handles -> SUBSET Tables]
  BY DEF HandlesKept
<1> QED
  BY <1>1, <1>2 DEF HandlesKept, UncertainHandlesStop, Active

(* Nothing but the answers, the handles and the uncertain errors changed.  *)
LEMMA SameRows ==
  ASSUME CatalogIInv, UNCHANGED <<db, operations>>,
         told' \in [Ops -> SUBSET Record], unsure' \in SUBSET Ops, HandlesKept',
         ReplayIsStable',
         \A o \in Ops : told[o] \subseteq told'[o], unsure \subseteq unsure'
  PROVE  CatalogIInv'
<1>1. Recorded' = Recorded
  BY DEF Recorded
<1>2. CatalogTypeOK' /\ Bounded(db)' /\ UncertainHandlesStop'
  BY DEF CatalogIInv, CatalogTypeOK, Bounded, HandlesKept
<1>3. EffectsAreReported'
  BY <1>1 DEF CatalogIInv, EffectsAreReported, Recorded
<1>4. OneWriterPerGeneration'
  BY <1>1 DEF CatalogIInv, OneWriterPerGeneration, Wrote, HeadAt, IsRow, PositionOf
<1>5. PublicationsChain'
  BY <1>1 DEF CatalogIInv, PublicationsChain
<1>6. PinsAreExact'
  BY <1>1 DEF CatalogIInv, PinsAreExact, SourceIsExact
<1> QED
  BY <1>2, <1>3, <1>4, <1>5, <1>6 DEF CatalogIInv

(* A request and its operation were committed, and its caller holds the
   outcome or an uncertain error.                                          *)
LEMMA CommittedKeeps ==
  ASSUME CatalogIInv, NEW h \in Handles, NEW o \in Ops, NEW r \in Request,
         Applicable(h, o, r), Apply(o, r),
         \/ Tell(o, [request |-> r, outcome |-> OutcomeOf(db, r)]) /\ unsure' = unsure
         \/ told' = told /\ unsure' = unsure \cup {o},
         poisoned' \in SUBSET Handles, poisoned \subseteq poisoned', left' = left
  PROVE  CatalogIInv'
<1> PICK x : x = OutcomeOf(db, r)
  OBVIOUS
<1> PICK record : record = [request |-> r, outcome |-> x]
  OBVIOUS
<1>1. Rows /\ operations[o] = Unused /\ ~Refused(db, r)
  BY DEF CatalogIInv, CatalogTypeOK, Rows, Applicable
<1>2. Rows' /\ x \in Outcome /\ Committed(o, r, x)
  BY <1>1, RowsStep
<1>3. /\ \A p \in Ops : p # o => operations'[p] = operations[p]
      /\ operations'[o].request = r /\ operations'[o].outcome = x
      /\ \A p \in Recorded' : p = o \/ p \in Recorded
  BY <1>1, <1>2, NewRecord DEF Rows
<1>4. record \in Record /\ operations'[o] = record
  BY <1>1, <1>2 DEF Record, Committed, Rows
<1>5. /\ told \in [Ops -> SUBSET Record] /\ unsure \in SUBSET Ops
      /\ told[o] = {}
  <2>1. told \in [Ops -> SUBSET Record] /\ unsure \in SUBSET Ops
    BY DEF CatalogIInv, CatalogTypeOK
  <2>2. \A answer \in told[o] : answer = Unused
    BY <1>1 DEF CatalogIInv, ReplayIsStable
  <2> QED
    BY <2>1, <2>2, CatalogAssumption DEF Record
<1>6. /\ told' \in [Ops -> SUBSET Record] /\ unsure' \in SUBSET Ops
      /\ \A p \in Ops : p # o => told'[p] = told[p]
      /\ told'[o] \subseteq {record}
      /\ unsure \subseteq unsure'
      /\ told'[o] # {} \/ o \in unsure'
  <2>1. CASE Tell(o, record) /\ unsure' = unsure
    BY <1>4, <1>5, <2>1 DEF Tell
  <2>2. CASE told' = told /\ unsure' = unsure \cup {o}
    BY <1>5, <2>2
  <2> QED
    BY <2>1, <2>2
<1>7. CatalogTypeOK' /\ UncertainHandlesStop'
  <2>1. HandlesKept
    BY DEF CatalogIInv, CatalogTypeOK, HandlesKept
  <2>2. \A g \in Handles : left[g] = {}
    BY DEF Applicable, Begins
  <2>3. HandlesKept'
    BY <2>1, <2>2, MoreStop
  <2> QED
    BY <1>2, <1>6, <2>3 DEF Rows, CatalogTypeOK, HandlesKept
<1>8. ReplayIsStable'
  <2> SUFFICES ASSUME NEW p \in Ops, NEW answer \in told'[p]
               PROVE  operations'[p] = answer
    BY DEF ReplayIsStable
  <2>1. CASE p = o
    BY <1>4, <1>6, <2>1
  <2>2. CASE p # o
    BY <1>3, <1>6, <2>2 DEF CatalogIInv, ReplayIsStable
  <2> QED
    BY <2>1, <2>2
<1>9. EffectsAreReported'
  <2> SUFFICES ASSUME NEW p \in Recorded'
               PROVE  told'[p] # {} \/ p \in unsure'
    BY DEF EffectsAreReported
  <2>1. CASE p = o
    BY <1>6, <2>1
  <2>2. CASE p # o
    BY <1>3, <1>6, <2>2 DEF CatalogIInv, EffectsAreReported, Recorded
  <2> QED
    BY <2>1, <2>2
<1> QED
  BY <1>2, <1>7, <1>8, <1>9 DEF CatalogIInv, Rows

\* A step of the catalog keeps the conjunction.
LEMMA StepHolds == CatalogIInv /\ [CatalogNext]_catalogVars => CatalogIInv'
<1> SUFFICES ASSUME CatalogIInv, [CatalogNext]_catalogVars
             PROVE  CatalogIInv'
  OBVIOUS
<1>1. /\ told \in [Ops -> SUBSET Record] /\ unsure \in SUBSET Ops
      /\ poisoned \in SUBSET Handles /\ operations \in [Ops -> Record \cup {Unused}]
      /\ \A p \in Ops : told[p] \subseteq told[p]
  BY DEF CatalogIInv, CatalogTypeOK
<1>a. HandlesKept
  BY DEF CatalogIInv, CatalogTypeOK, HandlesKept
<1>2. ASSUME UNCHANGED <<db, operations, told>>,
             unsure' \in SUBSET Ops, unsure \subseteq unsure', HandlesKept'
      PROVE  CatalogIInv'
  <2>1. ReplayIsStable'
    BY <1>2 DEF CatalogIInv, ReplayIsStable
  <2> QED
    BY <1>1, <1>2, <2>1, SameRows
<1>3. ASSUME NEW h \in Handles, NEW o \in Ops, Fault(h, o)
      PROVE  CatalogIInv'
  <2>1. HandlesKept'
    BY <1>1, <1>a, <1>3, MoreStop DEF Fault
  <2> QED
    BY <1>1, <1>2, <1>3, <2>1 DEF Fault
<1>4. ASSUME NEW h \in Handles, NEW o \in Ops, NEW r \in Request, Replay(h, o, r)
      PROVE  CatalogIInv'
  <2>1. operations[o] \in Record
    BY <1>1, <1>4 DEF Replay
  <2>2. /\ told' \in [Ops -> SUBSET Record]
        /\ \A p \in Ops : told[p] \subseteq told'[p]
        /\ \A p \in Ops : \A answer \in told'[p] : answer \in told[p] \/ answer = operations[p]
    BY <1>1, <1>4, <2>1 DEF Replay, Tell
  <2>3. UNCHANGED <<db, operations, poisoned, unsure, left>>
    BY <1>4 DEF Replay
  <2>5. HandlesKept'
    BY <1>1, <1>a, <2>3, MoreStop
  <2>4. ReplayIsStable'
    BY <2>2, <2>3 DEF CatalogIInv, ReplayIsStable
  <2> QED
    BY <1>1, <2>2, <2>3, <2>4, <2>5, SameRows
<1>b. UNCHANGED <<poisoned, left, db>> => HandlesKept'
  BY <1>1, <1>a, MoreStop
<1>5. ASSUME NEW h \in Handles, NEW o \in Ops, NEW r \in Request, RefuseRequest(h, o, r)
      PROVE  CatalogIInv'
  BY <1>1, <1>2, <1>5, <1>b DEF RefuseRequest, catalogVars
<1>6. ASSUME NEW h \in Handles, NEW o \in Ops, NEW r \in Request, Commit(h, o, r)
      PROVE  CatalogIInv'
  BY <1>1, <1>6, CommittedKeeps DEF Commit
<1>7. ASSUME NEW h \in Handles, NEW o \in Ops, NEW r \in Request, CommitUnreported(h, o, r)
      PROVE  CatalogIInv'
  BY <1>1, <1>7, CommittedKeeps DEF CommitUnreported
<1>8. ASSUME NEW h \in Handles, NEW o \in Ops, NEW r \in Request, RollbackFails(h, o, r)
      PROVE  CatalogIInv'
  <2>1. db \in Tables /\ Bounded(db)
    BY DEF CatalogIInv, CatalogTypeOK
  <2>2. PICK t : t = IF Applicable(h, o, r) THEN After(db, r) ELSE db
    OBVIOUS
  <2>3. t \in Tables
    BY <2>1, <2>2, OneRow DEF Applicable
  <2>4. HandlesKept'
    BY <1>a, <1>8, <2>2, <2>3, OneIsLeft DEF RollbackFails
  <2> QED
    BY <1>1, <1>2, <1>8, <2>4 DEF RollbackFails
<1>9. ASSUME NEW h \in Handles, Reopen(h)
      PROVE  CatalogIInv'
  BY <1>1, <1>a, <1>2, <1>9, ReopenedIsClean DEF Reopen
<1>10. CASE UNCHANGED catalogVars
  BY <1>1, <1>2, <1>10, <1>b DEF catalogVars
<1> QED
  BY <1>3, <1>4, <1>5, <1>6, <1>7, <1>8, <1>9, <1>10 DEF CatalogNext

(* The invariant holds whatever the handles do, in whatever order.         *)
THEOREM CatalogInvariance == CatalogSpec => []CatalogIInv
<1> QED
  BY InitHolds, StepHolds, PTL DEF CatalogSpec

(* The tables keep their schema, and no generation exceeds the last one an
   integer column can hold, which publish_session refuses to pass.         *)
THEOREM CatalogTypes == CatalogSpec => [](CatalogTypeOK /\ Bounded(db))
<1>1. CatalogIInv => CatalogTypeOK /\ Bounded(db)
  BY DEF CatalogIInv
<1> QED
  BY <1>1, CatalogInvariance, PTL

(* `transaction` answers a retry from the operations table, flags every error
   after which its COMMIT may have taken effect, and require_active stops a
   handle whose transaction was not rolled back: callers may rely on what they
   are told and on what they read.                                         *)
THEOREM TrueReports == CatalogSpec => []ReportsAreTrue
<1>1. CatalogIInv => ReportsAreTrue
  BY DEF CatalogIInv, ReportsAreTrue
<1> QED
  BY <1>1, CatalogInvariance, PTL

(* The rows of a request and of its operation are committed together: every
   generation has exactly one operation that wrote it, and conversely.     *)
THEOREM UniqueWriters == CatalogSpec => []OneWriterPerGeneration
<1>1. CatalogIInv => OneWriterPerGeneration
  BY DEF CatalogIInv
<1> QED
  BY <1>1, CatalogInvariance, PTL

(* publish_session compares the latest row with what its caller expected: a
   publication follows exactly the generation its caller had seen.         *)
THEOREM ChainedPublications == CatalogSpec => []PublicationsChain
<1>1. CatalogIInv => PublicationsChain
  BY DEF CatalogIInv
<1> QED
  BY <1>1, CatalogInvariance, PTL

(* fork_session and save_session name a generation exactly, and nothing
   changes what they named.                                                *)
THEOREM ExactPins == CatalogSpec => []PinsAreExact
<1>1. CatalogIInv => PinsAreExact
  BY DEF CatalogIInv
<1> QED
  BY <1>1, CatalogInvariance, PTL

(* The three together: the generations of every name are one chain, with one
   writer each, of which forks and saves name exactly one.                  *)
THEOREM ChainedGenerations == CatalogSpec => []GenerationsFormChains
<1>1. CatalogIInv => GenerationsFormChains
  BY DEF CatalogIInv, GenerationsFormChains
<1> QED
  BY <1>1, CatalogInvariance, PTL

----------------------------------------------------------------------------
(* The rows of a catalog about immutable objects                           *)

ObjectRows == [attempt : Attempts \cup {"none"}, sealed : BOOLEAN]
MergeRows == [output : Natives, owner : Readers]

\* Each table has rows of its own form; a pair's row is the one its files describe.
ObjectsTypeOK ==
  /\ objects \in [Objects -> ObjectRows]
  /\ DOMAIN pairs = Indexes /\ \A i \in Indexes : pairs[i] \in {NoRow, descriptor(i)}
  /\ saves \in [SaveNames -> {NoPair} \cup (Natives \X Indexes)]
  /\ merges \in [MergeKeys -> {NoMerge} \cup MergeRows]
  /\ granted \subseteq MergeKeys \X Natives \X (Readers \cup {"none"})

\* A hint's output was merged from its key, and its first owner still pins it.
MergesAreKept ==
  \A k \in MergeKeys : merges[k] # NoMerge =>
    /\ merges[k].output \in MergedAs[k] /\ require_sealed(merges[k].output)
    /\ <<"reader", merges[k].owner, merges[k].output>> \in pins

\* Whoever was told an output was told the hint's, and pins it.
GrantsAreKept ==
  \A g \in granted :
    /\ merges[g[1]] # NoMerge /\ g[2] = merges[g[1]].output
    /\ g[3] # "none" => <<"reader", g[3], g[2]>> \in pins

\* What a request has read of an index, but for the objects it is about to seal.
PairIsRead(i, sealing) ==
  /\ {i, NativeOf(i)} \subseteq files
  /\ \A o \in {i, NativeOf(i)} \ sealing : require_sealed(o)
  /\ SecondaryOf(i) # "none" => require_sealed(SecondaryOf(i))
  /\ MainOf(i) # NoPair => Registered(MainOf(i)) /\ FileOf[i].main_samples = Pages(pairs[MainOf(i)[2]].virtual)

PairRequest(i, sealing) == [request |-> "pair", index |-> i, sealing |-> sealing, row |-> descriptor(i)]
MergeRequest(key, owner) == [request |-> "merge", key |-> key, owner |-> owner]

\* What was read before the write lock was taken still holds under it.
PreparedIsSound ==
  \/ prepared = Unprepared
  \/ \E i \in Indexes : \E sealing \in {{}, {i}, {i, NativeOf(i)}} :
       prepared = PairRequest(i, sealing) /\ PairIsRead(i, sealing)
  \/ \E k \in MergeKeys, r \in Readers : prepared = MergeRequest(k, r) /\ merges[k] # NoMerge

ObjectsIInv ==
  /\ ObjectsTypeOK /\ PairsAreGrounded /\ RootsAreRegistered
  /\ MergesAreKept /\ GrantsAreKept /\ PreparedIsSound

----------------------------------------------------------------------------
(* Files *)

\* A row is told from no row, and says what its files say.
LEMMA RowsDiffer ==
  ASSUME NEW i \in Indexes
  PROVE  /\ descriptor(i) # NoRow /\ descriptor(i).native = NativeOf(i) /\ NativeOf(i) \in Natives
         /\ descriptor(i).main_samples = FileOf[i].main_samples
<1>1. NativeOf(i) \in Natives /\ "none" \notin Natives
  BY ObjectsAssumption DEF ObjectsAssumption
<1>2. descriptor(i).native = NativeOf(i) /\ NoRow.native = "none"
  BY DEF descriptor, NoRow
<1>3. descriptor(i).main_samples = FileOf[i].main_samples
  BY DEF descriptor
<1>4. QED
  BY <1>1, <1>2, <1>3

\* A hint is told from none.
LEMMA MergesDiffer ==
  ASSUME NEW m \in MergeRows
  PROVE  m # NoMerge
BY ObjectsAssumption DEF ObjectsAssumption, MergeRows, NoMerge

\* An index's chain holds it, and the target of each index it holds.
LEMMA ChainIsClosed ==
  ASSUME NEW i \in Indexes
  PROVE  /\ i \in chain(i) /\ chain(i) \subseteq Indexes
         /\ \A j \in chain(i) : MainOf(j) # NoPair => MainOf(j)[2] \in chain(i)
<1>1. i \in chain(i) /\ chain(i) \subseteq Indexes
  BY DEF chain
<1>2. ASSUME NEW j \in chain(i), MainOf(j) # NoPair PROVE MainOf(j)[2] \in chain(i)
  <2>1. MainOf(j)[2] \in Indexes
    BY <1>1, <1>2, ObjectsAssumption DEF ObjectsAssumption
  <2>2. ASSUME NEW S \in SUBSET Indexes, i \in S, IsClosed(S) PROVE MainOf(j)[2] \in S
    <3>1. j \in S
      BY <2>2, <1>2 DEF chain
    <3>2. QED
      BY <3>1, <2>2, <1>2 DEF IsClosed
  <2>3. QED
    BY <2>1, <2>2 DEF chain
<1>3. QED
  BY <1>1, <1>2

----------------------------------------------------------------------------
(* Rows are only added, and a seal is set once.                            *)

Advances ==
  /\ files \subseteq files' /\ pins \subseteq pins'
  /\ \A o \in Objects : objects[o].sealed => objects'[o].sealed
  /\ \A i \in Indexes : pairs[i] # NoRow => pairs'[i] = pairs[i]
  /\ \A k \in MergeKeys : merges[k] # NoMerge => merges'[k] = merges[k]

\* What a check accepted it accepts ever after.
LEMMA ChecksStand ==
  ASSUME ObjectsTypeOK, Advances
  PROVE  /\ \A o \in Objects : require_sealed(o) => require_sealed(o)'
         /\ \A p : Registered(p) => Registered(p)' /\ pairs'[p[2]] = pairs[p[2]]
         /\ \A p : require_prepared(p) => require_prepared(p)'
<1>1. \A o \in Objects : require_sealed(o) => require_sealed(o)'
  BY DEF Advances, require_sealed
<1>2. \A p : Registered(p) => Registered(p)' /\ pairs'[p[2]] = pairs[p[2]]
  BY DEF Advances, Registered
<1>3. \A p : require_prepared(p) => require_prepared(p)'
  BY <1>2 DEF require_prepared
<1>4. QED
  BY <1>1, <1>2, <1>3

\* A row that is kept, or added to by its like, stays walkable to its end.
LEMMA PairsStand ==
  ASSUME ObjectsTypeOK, Advances, PairsAreGrounded,
         NEW i \in Indexes, pairs[i] # NoRow
  PROVE  /\ pairs'[i] # NoRow /\ pairs'[i] = descriptor(i)
         /\ \A o \in {i, NativeOf(i)} \cup ({SecondaryOf(i)} \ {"none"}) : require_sealed(o)'
         /\ MainOf(i) # NoPair => Registered(MainOf(i))' /\ pairs'[i].main_samples = Pages(pairs'[MainOf(i)[2]].virtual)
<1>1. {i, NativeOf(i)} \cup ({SecondaryOf(i)} \ {"none"}) \subseteq Objects
  BY ObjectsAssumption DEF ObjectsAssumption, Objects
<1>2. /\ pairs[i] = descriptor(i)
      /\ \A o \in {i, NativeOf(i)} \cup ({SecondaryOf(i)} \ {"none"}) : require_sealed(o)
      /\ MainOf(i) # NoPair => Registered(MainOf(i)) /\ pairs[i].main_samples = Pages(pairs[MainOf(i)[2]].virtual)
  BY DEF PairsAreGrounded
<1>3. pairs'[i] = pairs[i]
  BY DEF Advances
<1>4. QED
  BY <1>1, <1>2, <1>3, ChecksStand

\* The invariants of rows an action does not add to.
LEMMA GroundedStands ==
  ASSUME ObjectsTypeOK, Advances, PairsAreGrounded, pairs' = pairs
  PROVE  PairsAreGrounded'
<1>1. ASSUME NEW i \in Indexes, pairs'[i] # NoRow
      PROVE  /\ pairs'[i] = descriptor(i)
             /\ \A o \in {i, NativeOf(i)} \cup ({SecondaryOf(i)} \ {"none"}) : require_sealed(o)'
             /\ MainOf(i) # NoPair => Registered(MainOf(i))' /\ pairs'[i].main_samples = Pages(pairs'[MainOf(i)[2]].virtual)
  BY <1>1, PairsStand
<1>2. QED
  BY <1>1 DEF PairsAreGrounded, descriptor, NativeOf, MainOf, SecondaryOf, SecondaryCount, Pages

\* What owners hold stays registered.
LEMMA RootsStand ==
  ASSUME ObjectsTypeOK, Advances, RootsAreRegistered, roots' = roots, saves' = saves
  PROVE  RootsAreRegistered'
<1>1. \A r \in roots' : Registered(r[3])'
  BY ChecksStand DEF RootsAreRegistered
<1>2. \A n \in SaveNames : (saves[n] # NoPair => require_prepared(saves[n]) /\ <<"save", n, saves[n]>> \in roots)'
  BY ChecksStand DEF RootsAreRegistered, require_prepared, Registered
<1>3. QED
  BY <1>1, <1>2 DEF RootsAreRegistered

\* A hint's output stays sealed and pinned.
LEMMA MergesStand ==
  ASSUME ObjectsTypeOK, Advances, MergesAreKept, merges' = merges
  PROVE  MergesAreKept'
<1>1. ASSUME NEW k \in MergeKeys, merges[k] # NoMerge
      PROVE  /\ merges[k].output \in MergedAs[k] /\ require_sealed(merges[k].output)'
             /\ <<"reader", merges[k].owner, merges[k].output>> \in pins'
  <2>1. merges[k].output \in Objects
    BY <1>1, ObjectsAssumption DEF ObjectsAssumption, ObjectsTypeOK, MergeRows, Objects
  <2>2. QED
    BY <1>1, <2>1, ChecksStand DEF MergesAreKept, Advances
<1>2. QED
  BY <1>1 DEF MergesAreKept

\* What callers were told stays what the hints say.
LEMMA GrantsStand ==
  ASSUME ObjectsTypeOK, Advances, GrantsAreKept, granted' = granted
  PROVE  GrantsAreKept'
<1>1. ASSUME NEW g \in granted
      PROVE  /\ merges'[g[1]] # NoMerge /\ g[2] = merges'[g[1]].output
             /\ g[3] # "none" => <<"reader", g[3], g[2]>> \in pins'
  BY <1>1 DEF GrantsAreKept, Advances, ObjectsTypeOK
<1>2. QED
  BY <1>1 DEF GrantsAreKept

\* What a request has read stays true until its transaction.
LEMMA PreparedStands ==
  ASSUME ObjectsTypeOK, Advances, PreparedIsSound, prepared' = prepared
  PROVE  PreparedIsSound'
<1>1. CASE prepared = Unprepared
  BY <1>1 DEF PreparedIsSound
<1>2. ASSUME NEW i \in Indexes, NEW sealing \in {{}, {i}, {i, NativeOf(i)}},
             prepared = PairRequest(i, sealing), PairIsRead(i, sealing)
      PROVE  PreparedIsSound'
  <2>1. {i, NativeOf(i)} \cup ({SecondaryOf(i)} \ {"none"}) \subseteq Objects
    BY ObjectsAssumption DEF ObjectsAssumption, Objects
  <2>2. PairIsRead(i, sealing)'
    BY <1>2, <2>1, ChecksStand DEF PairIsRead, Advances
  <2>3. prepared' = PairRequest(i, sealing)
    BY <1>2
  <2>4. QED
    BY <2>2, <2>3 DEF PreparedIsSound, PairRequest, descriptor, NativeOf
<1>3. ASSUME NEW k \in MergeKeys, NEW r \in Readers, prepared = MergeRequest(k, r), merges[k] # NoMerge
      PROVE  PreparedIsSound'
  BY <1>3 DEF PreparedIsSound, Advances, MergeRequest
<1>4. QED
  BY <1>1, <1>2, <1>3 DEF PreparedIsSound

----------------------------------------------------------------------------
(* Scopes, attempts and seals *)

\* Empty tables hold no row to be checked.
LEMMA ObjectsInitHolds == ObjectsInit => ObjectsIInv
<1> SUFFICES ASSUME ObjectsInit PROVE ObjectsIInv
  OBVIOUS
<1>1. ObjectsTypeOK
  BY DEF ObjectsInit, ObjectsTypeOK, ObjectRows, Unreserved
<1>2. PairsAreGrounded
  BY DEF ObjectsInit, PairsAreGrounded
<1>3. RootsAreRegistered /\ MergesAreKept /\ GrantsAreKept /\ PreparedIsSound
  BY DEF ObjectsInit, RootsAreRegistered, MergesAreKept, GrantsAreKept, PreparedIsSound
<1>4. QED
  BY <1>1, <1>2, <1>3 DEF ObjectsIInv

\* An action that leaves the tables of rows alone, but for pins it adds.
LEMMA PinsHold ==
  ASSUME ObjectsIInv, files \subseteq files', pins \subseteq pins',
         UNCHANGED <<objects, pairs, roots, saves, merges, granted, prepared>>
  PROVE  ObjectsIInv'
<1>1. ObjectsTypeOK'
  BY DEF ObjectsIInv, ObjectsTypeOK
<1>2. Advances
  BY DEF Advances
<1>3. QED
  BY <1>1, <1>2, GroundedStands, RootsStand, MergesStand, GrantsStand, PreparedStands DEF ObjectsIInv

\* An attempt reserves what nobody has, so no seal is lost, and roots what is registered.
LEMMA ReserveHolds ==
  ASSUME ObjectsIInv, NEW a \in Attempts, reserve(a)
  PROVE  ObjectsIInv'
<1>1. \A o \in Objects : objects'[o] = IF o \in Outputs[a] THEN [attempt |-> a, sealed |-> FALSE] ELSE objects[o]
  BY DEF reserve
<1>2. ObjectsTypeOK'
  <2>1. objects' \in [Objects -> ObjectRows]
    BY DEF reserve, ObjectsIInv, ObjectsTypeOK, ObjectRows
  <2>2. QED
    BY <2>1 DEF reserve, ObjectsIInv, ObjectsTypeOK
<1>3. Advances
  <2>1. \A o \in Objects : objects[o].sealed => objects'[o].sealed
    BY <1>1 DEF reserve, Unreserved
  <2>2. QED
    BY <2>1 DEF reserve, Advances
<1>4. RootsAreRegistered'
  <2>1. \A r \in roots' : Registered(r[3])
    BY DEF reserve, ObjectsIInv, RootsAreRegistered
  <2>2. \A r \in roots' : Registered(r[3])'
    BY <2>1 DEF reserve, Registered
  <2>3. \A n \in SaveNames : (saves[n] # NoPair => require_prepared(saves[n]) /\ <<"save", n, saves[n]>> \in roots)'
    BY DEF reserve, ObjectsIInv, RootsAreRegistered, require_prepared, Registered
  <2>4. QED
    BY <2>2, <2>3 DEF RootsAreRegistered
<1>5. UNCHANGED <<pairs, merges, granted, prepared>>
  BY DEF reserve
<1>6. QED
  BY <1>2, <1>3, <1>4, <1>5, GroundedStands, MergesStand, GrantsStand, PreparedStands DEF ObjectsIInv

\* A seal is set on a reserved object whose file is written, and stays.
LEMMA SealsAre ==
  ASSUME ObjectsTypeOK, NEW S, Sealing(S), objects' = Sealed(S), files' = files
  PROVE  /\ objects' \in [Objects -> ObjectRows]
         /\ \A o \in Objects : objects[o].sealed => objects'[o].sealed
         /\ \A o \in Objects : o \in S => require_sealed(o)'
<1>1. ASSUME NEW o \in Objects
      PROVE  /\ objects'[o] \in ObjectRows /\ (objects[o].sealed => objects'[o].sealed)
             /\ o \in S => objects'[o].sealed
  <2>1. objects[o] \in ObjectRows
    BY DEF ObjectsTypeOK
  <2>2. CASE o \in S
    <3>1. objects'[o] = [objects[o] EXCEPT !.sealed = TRUE]
      BY <2>2 DEF Sealed
    <3>2. QED
      BY <2>1, <2>2, <3>1 DEF ObjectRows
  <2>3. CASE o \notin S
    <3>1. objects'[o] = objects[o]
      BY <2>3 DEF Sealed
    <3>2. QED
      BY <2>1, <2>3, <3>1
  <2>4. QED
    BY <2>2, <2>3
<1>2. objects' \in [Objects -> ObjectRows]
  BY <1>1 DEF Sealed
<1>3. \A o \in Objects : o \in S => require_sealed(o)'
  BY <1>1 DEF Sealing, require_sealed
<1>4. QED
  BY <1>1, <1>2, <1>3

\* A seal adds no row.
LEMMA SealHolds ==
  ASSUME ObjectsIInv, NEW o \in Objects, record_sealed(o)
  PROVE  ObjectsIInv'
<1>1. /\ objects' \in [Objects -> ObjectRows]
      /\ \A q \in Objects : objects[q].sealed => objects'[q].sealed
  BY SealsAre DEF record_sealed, ObjectsIInv
<1>2. ObjectsTypeOK' /\ Advances
  BY <1>1 DEF record_sealed, ObjectsIInv, ObjectsTypeOK, Advances
<1>3. UNCHANGED <<pairs, roots, saves, merges, granted, prepared>>
  BY DEF record_sealed
<1>4. QED
  BY <1>2, <1>3, GroundedStands, RootsStand, MergesStand, GrantsStand, PreparedStands DEF ObjectsIInv

----------------------------------------------------------------------------
(* Registered pairs *)

\* Rows that are added agree with their files, and with what is registered.
LEMMA InsertedAre ==
  ASSUME ObjectsTypeOK, NEW S \in SUBSET Indexes, \A i \in S : Agrees(descriptor(i), i),
         DOMAIN pairs' = Indexes,
         \A i \in Indexes : pairs'[i] = IF i \in S THEN descriptor(i) ELSE pairs[i]
  PROVE  /\ DOMAIN pairs' = Indexes /\ \A i \in Indexes : pairs'[i] \in {NoRow, descriptor(i)}
         /\ \A i \in Indexes : pairs[i] # NoRow => pairs'[i] = pairs[i]
         /\ \A i \in S : pairs'[i] = descriptor(i) /\ pairs'[i] # NoRow
         /\ \A i \in Indexes \ S : pairs'[i] = pairs[i]
<1>1. \A i \in S : descriptor(i) # NoRow
  BY RowsDiffer
<1>2. \A i \in S : pairs[i] \in {NoRow, descriptor(i)}
  BY DEF Agrees
<1>3. QED
  BY <1>1, <1>2 DEF ObjectsTypeOK

\* A row of an index that opens and is sealed, over a registered target that has its samples.
LEMMA NewRowsAreGrounded ==
  ASSUME ObjectsTypeOK, Advances, PairsAreGrounded, NEW S \in SUBSET Indexes,
         \A i \in S : pairs'[i] = descriptor(i) /\ pairs'[i] # NoRow,
         \A i \in Indexes \ S : pairs'[i] = pairs[i],
         \A i \in S :
           /\ \A o \in {i, NativeOf(i)} \cup ({SecondaryOf(i)} \ {"none"}) : require_sealed(o)'
           /\ MainOf(i) # NoPair => /\ Registered(MainOf(i))'
                                     /\ FileOf[i].main_samples = Pages(pairs'[MainOf(i)[2]].virtual)
  PROVE  PairsAreGrounded'
<1>1. ASSUME NEW i \in Indexes, pairs'[i] # NoRow
      PROVE  /\ pairs'[i] = descriptor(i)
             /\ \A o \in {i, NativeOf(i)} \cup ({SecondaryOf(i)} \ {"none"}) : require_sealed(o)'
             /\ MainOf(i) # NoPair => Registered(MainOf(i))' /\ pairs'[i].main_samples = Pages(pairs'[MainOf(i)[2]].virtual)
  <2>1. CASE i \in S
    <3>1. pairs'[i].main_samples = FileOf[i].main_samples
      BY <2>1, RowsDiffer
    <3>2. QED
      BY <2>1, <3>1
  <2>2. CASE i \notin S
    <3>1. pairs[i] # NoRow
      BY <1>1, <2>2
    <3>2. QED
      BY <3>1, PairsStand
  <2>3. QED
    BY <2>1, <2>2
<1>2. QED
  BY <1>1 DEF PairsAreGrounded, descriptor, NativeOf, MainOf, SecondaryOf, SecondaryCount, Pages

\* Graphs are registered with all their main targets, each of which binds.
LEMMA GraphsHold ==
  ASSUME ObjectsIInv, NEW heads \in {{i, j} : i, j \in Indexes}, register_graphs(heads)
  PROVE  ObjectsIInv'
<1> DEFINE all == UNION {chain(i) : i \in heads}
<1>1. heads \subseteq Indexes
  OBVIOUS
<1>2. all \subseteq Indexes /\ \A i \in all : MainOf(i) # NoPair => MainOf(i)[2] \in all
  BY <1>1, ChainIsClosed
<1>3. \A i \in all : Binds(i)
  BY DEF register_graphs, Opens
<1>4. ASSUME NEW i \in all
      PROVE  /\ \A o \in {i, NativeOf(i)} \cup ({SecondaryOf(i)} \ {"none"}) : require_sealed(o)
             /\ Agrees(descriptor(i), i)
  BY DEF register_graphs, require_sealed
<1>5. /\ pairs' = [i \in Indexes |-> IF i \in all THEN descriptor(i) ELSE pairs[i]]
      /\ UNCHANGED <<files, objects, pins, roots, saves, merges, granted, prepared>>
  BY DEF register_graphs, Inserted
<1> HIDE DEF all
<1>6. ObjectsTypeOK /\ PairsAreGrounded
  BY DEF ObjectsIInv
<1>7. /\ DOMAIN pairs' = Indexes /\ \A i \in Indexes : pairs'[i] \in {NoRow, descriptor(i)}
      /\ \A i \in Indexes : pairs[i] # NoRow => pairs'[i] = pairs[i]
      /\ \A i \in all : pairs'[i] = descriptor(i) /\ pairs'[i] # NoRow
      /\ \A i \in Indexes \ all : pairs'[i] = pairs[i]
  <2>1. all \in SUBSET Indexes /\ \A i \in all : Agrees(descriptor(i), i)
    BY <1>2, <1>4
  <2>2. /\ DOMAIN pairs' = Indexes
        /\ \A i \in Indexes : pairs'[i] = IF i \in all THEN descriptor(i) ELSE pairs[i]
    BY <1>5
  <2>3. QED
    BY <2>1, <2>2, <1>6, InsertedAre
<1>7a. all \in SUBSET Indexes
  BY <1>2
<1>8. ObjectsTypeOK'
  BY <1>5, <1>6, <1>7 DEF ObjectsTypeOK
<1>9. Advances
  BY <1>5, <1>7 DEF Advances
<1>10. ASSUME NEW i \in all
       PROVE  /\ \A o \in {i, NativeOf(i)} \cup ({SecondaryOf(i)} \ {"none"}) : require_sealed(o)'
              /\ MainOf(i) # NoPair => /\ Registered(MainOf(i))'
                                        /\ FileOf[i].main_samples = Pages(pairs'[MainOf(i)[2]].virtual)
  <2>1. \A o \in {i, NativeOf(i)} \cup ({SecondaryOf(i)} \ {"none"}) : require_sealed(o)'
    BY <1>4, <1>5 DEF require_sealed
  <2>2. ASSUME MainOf(i) # NoPair
        PROVE  /\ Registered(MainOf(i))'
               /\ FileOf[i].main_samples = Pages(pairs'[MainOf(i)[2]].virtual)
    <3> DEFINE m == MainOf(i)[2]
    <3>1. m \in all /\ m \in Indexes
      BY <1>2, <2>2
    <3>2. /\ MainOf(i)[1] = NativeOf(m)
          /\ FileOf[i].main_samples = Pages(descriptor(m).virtual)
      BY <1>3, <2>2 DEF Binds
    <3>3. pairs'[m] = descriptor(m) /\ pairs'[m] # NoRow /\ pairs'[m].native = NativeOf(m)
      BY <1>7, <3>1, RowsDiffer
    <3>4. Registered(MainOf(i))'
      BY <3>1, <3>2, <3>3 DEF Registered, NativeOf, MainOf
    <3>5. QED
      BY <3>2, <3>3, <3>4
  <2>3. QED
    BY <2>1, <2>2
<1>11. PairsAreGrounded'
  BY <1>6, <1>7, <1>7a, <1>9, <1>10, NewRowsAreGrounded
<1>12. QED
  BY <1>5, <1>6, <1>8, <1>9, <1>11, RootsStand, MergesStand, GrantsStand, PreparedStands DEF ObjectsIInv

\* Between its reading and its transaction nothing a pair was checked against is lost.
LEMMA PrepareHolds ==
  ASSUME ObjectsIInv, NEW i \in Indexes, NEW sealing \in {{}, {i}, {i, NativeOf(i)}}, prepare_cola_pair(i, sealing)
  PROVE  ObjectsIInv'
<1>1. UNCHANGED <<files, objects, pairs, pins, roots, saves, merges, granted>>
  BY DEF prepare_cola_pair
<1>2. ObjectsTypeOK' /\ Advances
  BY <1>1 DEF ObjectsIInv, ObjectsTypeOK, Advances
<1>3. PreparedIsSound'
  <2>1. PairIsRead(i, sealing)
    BY DEF prepare_cola_pair, PairIsRead, MainSamples
  <2>2. PairIsRead(i, sealing)'
    BY <2>1, <1>1 DEF PairIsRead, require_sealed, Registered
  <2>3. prepared' = PairRequest(i, sealing)
    BY DEF prepare_cola_pair, PairRequest
  <2>4. QED
    BY <2>2, <2>3 DEF PreparedIsSound, PairRequest, descriptor, NativeOf
<1>4. QED
  BY <1>1, <1>2, <1>3, GroundedStands, RootsStand, MergesStand, GrantsStand DEF ObjectsIInv

\* The transaction of a pair seals what was not sealed when it was read.
LEMMA FinishHolds ==
  ASSUME ObjectsIInv, FinishPair
  PROVE  ObjectsIInv'
<1>0. PICK i \in Indexes : \E sealing \in {{}, {i}, {i, NativeOf(i)}} :
        prepared = PairRequest(i, sealing) /\ PairIsRead(i, sealing)
  <2>1. prepared # Unprepared
    BY DEF FinishPair, Unprepared
  <2>2. \A k \in MergeKeys, r \in Readers : prepared # MergeRequest(k, r)
    BY DEF FinishPair, MergeRequest
  <2>3. QED
    BY <2>1, <2>2 DEF ObjectsIInv, PreparedIsSound
<1>1. PICK sealing \in {{}, {i}, {i, NativeOf(i)}} : prepared = PairRequest(i, sealing) /\ PairIsRead(i, sealing)
  BY <1>0
<1>2. prepared.index = i /\ prepared.sealing = sealing /\ prepared.row = descriptor(i)
  BY <1>1 DEF PairRequest
<1>3. UNCHANGED <<files, pins, roots, saves, merges, granted>> /\ prepared' = Unprepared
  BY DEF FinishPair
<1>4. PreparedIsSound'
  BY <1>3 DEF PreparedIsSound, Unprepared
<1>5. ObjectsTypeOK /\ PairsAreGrounded
  BY DEF ObjectsIInv
<1>6. CASE Sealing(sealing) /\ Agrees(descriptor(i), i)
  <2>1. objects' = Sealed(sealing) /\ pairs' = [j \in Indexes |-> IF j \in {i} THEN descriptor(i) ELSE pairs[j]]
    BY <1>2, <1>6 DEF FinishPair, Inserted
  <2>2. /\ objects' \in [Objects -> ObjectRows]
        /\ \A o \in Objects : objects[o].sealed => objects'[o].sealed
        /\ \A o \in Objects : o \in sealing => require_sealed(o)'
    BY <1>3, <1>5, <1>6, <2>1, SealsAre
  <2>3. /\ DOMAIN pairs' = Indexes /\ \A j \in Indexes : pairs'[j] \in {NoRow, descriptor(j)}
        /\ \A j \in Indexes : pairs[j] # NoRow => pairs'[j] = pairs[j]
        /\ \A j \in {i} : pairs'[j] = descriptor(j) /\ pairs'[j] # NoRow
        /\ \A j \in Indexes \ {i} : pairs'[j] = pairs[j]
    <3>1. {i} \in SUBSET Indexes /\ \A j \in {i} : Agrees(descriptor(j), j)
      BY <1>6
    <3>2. /\ DOMAIN pairs' = Indexes
          /\ \A j \in Indexes : pairs'[j] = IF j \in {i} THEN descriptor(j) ELSE pairs[j]
      BY <2>1
    <3>3. QED
      BY <3>1, <3>2, <1>5, InsertedAre
  <2>4. ObjectsTypeOK'
    BY <1>3, <1>5, <2>2, <2>3 DEF ObjectsTypeOK
  <2>5. Advances
    BY <1>3, <2>2, <2>3 DEF Advances
  <2>6. {i, NativeOf(i)} \cup ({SecondaryOf(i)} \ {"none"}) \subseteq Objects
    BY ObjectsAssumption DEF ObjectsAssumption, Objects
  <2>7. \A o \in {i, NativeOf(i)} \cup ({SecondaryOf(i)} \ {"none"}) : require_sealed(o)'
    <3>1. \A o \in {i, NativeOf(i)} : require_sealed(o)'
      BY <1>1, <1>5, <2>2, <2>5, <2>6, ChecksStand DEF PairIsRead
    <3>2. SecondaryOf(i) # "none" => require_sealed(SecondaryOf(i))'
      BY <1>1, <1>5, <2>5, <2>6, ChecksStand DEF PairIsRead
    <3>3. QED
      BY <3>1, <3>2
  <2>8. MainOf(i) # NoPair => /\ Registered(MainOf(i))'
                             /\ FileOf[i].main_samples = Pages(pairs'[MainOf(i)[2]].virtual)
    BY <1>1, <1>5, <2>5, ChecksStand DEF PairIsRead
  <2>9. PairsAreGrounded'
    <3>1. {i} \in SUBSET Indexes
      OBVIOUS
    <3>2. \A j \in {i} :
            /\ \A o \in {j, NativeOf(j)} \cup ({SecondaryOf(j)} \ {"none"}) : require_sealed(o)'
            /\ MainOf(j) # NoPair => /\ Registered(MainOf(j))'
                                     /\ FileOf[j].main_samples = Pages(pairs'[MainOf(j)[2]].virtual)
      BY <2>7, <2>8
    <3>3. QED
      BY <3>1, <3>2, <1>5, <2>3, <2>5, NewRowsAreGrounded
  <2>10. QED
    BY <1>3, <1>4, <2>4, <2>5, <2>9, RootsStand, MergesStand, GrantsStand DEF ObjectsIInv
<1>7. CASE ~(Sealing(sealing) /\ Agrees(descriptor(i), i))
  <2>1. UNCHANGED <<objects, pairs>>
    BY <1>2, <1>7 DEF FinishPair
  <2>2. ObjectsTypeOK' /\ Advances
    BY <1>3, <1>5, <2>1 DEF ObjectsTypeOK, Advances
  <2>3. QED
    BY <1>3, <1>4, <2>1, <2>2, GroundedStands, RootsStand, MergesStand, GrantsStand DEF ObjectsIInv
<1>8. QED
  BY <1>6, <1>7

----------------------------------------------------------------------------
(* Saves and the hints of completed native merges *)

\* A save roots its pair as it records it.
LEMMA SaveHolds ==
  ASSUME ObjectsIInv, NEW name \in SaveNames, NEW i \in Indexes, save(name, PairOf(i))
  PROVE  ObjectsIInv'
<1> DEFINE pair == PairOf(i)
<1>1. pair \in Natives \X Indexes
  BY RowsDiffer DEF PairOf
<1>2. /\ require_prepared(pair) /\ roots' = roots \cup {<<"save", name, pair>>}
      /\ saves' = [saves EXCEPT ![name] = pair]
      /\ UNCHANGED <<files, objects, pairs, pins, merges, granted, prepared>>
  BY DEF save
<1> HIDE DEF pair
<1>3. ObjectsTypeOK' /\ Advances
  BY <1>1, <1>2 DEF ObjectsIInv, ObjectsTypeOK, Advances
<1>4. RootsAreRegistered'
  <2>1. \A r \in roots' : Registered(r[3])'
    BY <1>2 DEF ObjectsIInv, RootsAreRegistered, require_prepared, Registered
  <2>2. ASSUME NEW n \in SaveNames, saves'[n] # NoPair
        PROVE  require_prepared(saves[n])' /\ <<"save", n, saves'[n]>> \in roots'
    <3>1. CASE n = name
      <4>1. saves'[n] = pair
        BY <1>2, <3>1 DEF ObjectsIInv, ObjectsTypeOK
      <4>2. QED
        BY <4>1, <1>2, <3>1 DEF require_prepared, Registered
    <3>2. CASE n # name
      <4>1. saves'[n] = saves[n]
        BY <1>2, <3>2 DEF ObjectsIInv, ObjectsTypeOK
      <4>2. require_prepared(saves[n]) /\ <<"save", n, saves[n]>> \in roots
        BY <4>1, <2>2 DEF ObjectsIInv, RootsAreRegistered
      <4>3. QED
        BY <4>1, <4>2, <1>2 DEF require_prepared, Registered
    <3>3. QED
      BY <3>1, <3>2
  <2>3. QED
    BY <2>1, <2>2 DEF RootsAreRegistered
<1>5. QED
  BY <1>2, <1>3, <1>4, GroundedStands, MergesStand, GrantsStand, PreparedStands DEF ObjectsIInv

\* A reader roots the pair of a save, which is registered.
LEMMA AcquireSaveHolds ==
  ASSUME ObjectsIInv, NEW name \in SaveNames, NEW reader \in Readers, acquire_save(name, reader)
  PROVE  ObjectsIInv'
<1>1. /\ saves[name] # NoPair /\ roots' = roots \cup {<<"reader", reader, saves[name]>>}
      /\ UNCHANGED <<files, objects, pairs, pins, saves, merges, granted, prepared>>
  BY DEF acquire_save
<1>2. ObjectsTypeOK' /\ Advances
  BY <1>1 DEF ObjectsIInv, ObjectsTypeOK, Advances
<1>3. RootsAreRegistered'
  <2>1. Registered(saves[name])
    BY <1>1 DEF ObjectsIInv, RootsAreRegistered, require_prepared
  <2>2. \A r \in roots' : Registered(r[3])'
    BY <2>1, <1>1 DEF ObjectsIInv, RootsAreRegistered, Registered
  <2>3. \A n \in SaveNames : (saves[n] # NoPair => require_prepared(saves[n]) /\ <<"save", n, saves[n]>> \in roots)'
    BY <1>1 DEF ObjectsIInv, RootsAreRegistered, require_prepared, Registered
  <2>4. QED
    BY <2>2, <2>3 DEF RootsAreRegistered
<1>4. QED
  BY <1>1, <1>2, <1>3, GroundedStands, MergesStand, GrantsStand, PreparedStands DEF ObjectsIInv

\* The first acknowledgment writes the hint and pins it; a later one is told it.
LEMMA RecordMergeHolds ==
  ASSUME ObjectsIInv, NEW key \in MergeKeys, NEW output \in Natives, NEW owner \in Readers,
         record_native_merge(key, output, owner)
  PROVE  ObjectsIInv'
<1>1. /\ output \in MergedAs[key] /\ require_sealed(output)
      /\ UNCHANGED <<files, objects, pairs, roots, saves, prepared>>
  BY DEF record_native_merge
<1>2. CASE merges[key] # NoMerge
  <2>1. /\ UNCHANGED <<merges, pins>>
        /\ granted' = granted \cup {<<key, merges[key].output, "none">>}
    BY <1>2 DEF record_native_merge
  <2>2. merges[key].output \in Natives
    BY <1>2 DEF ObjectsIInv, ObjectsTypeOK, MergeRows
  <2>3. ObjectsTypeOK' /\ Advances
    BY <1>1, <2>1, <2>2 DEF ObjectsIInv, ObjectsTypeOK, Advances
  <2>4. GrantsAreKept'
    <3>1. ASSUME NEW g \in granted'
          PROVE  /\ merges[g[1]] # NoMerge /\ g[2] = merges[g[1]].output
                 /\ g[3] # "none" => <<"reader", g[3], g[2]>> \in pins
      <4>1. CASE g \in granted
        BY <4>1 DEF ObjectsIInv, GrantsAreKept
      <4>2. CASE g = <<key, merges[key].output, "none">>
        BY <4>2, <1>2
      <4>3. QED
        BY <4>1, <4>2, <2>1
    <3>2. QED
      BY <3>1, <2>1 DEF GrantsAreKept
  <2>5. QED
    BY <1>1, <2>1, <2>3, <2>4, GroundedStands, RootsStand, MergesStand, PreparedStands DEF ObjectsIInv
<1>3. CASE merges[key] = NoMerge
  <2> DEFINE row == [output |-> output, owner |-> owner]
  <2>1. /\ pins' = pins \cup {<<"reader", owner, output>>}
        /\ merges' = [merges EXCEPT ![key] = row]
        /\ granted' = granted \cup {<<key, output, owner>>}
    BY <1>3 DEF record_native_merge
  <2>2. row \in MergeRows /\ row.output = output /\ row.owner = owner /\ row # NoMerge
    BY MergesDiffer DEF MergeRows
  <2> HIDE DEF row
  <2>3. merges'[key] = row /\ \A k \in MergeKeys : k # key => merges'[k] = merges[k]
    BY <2>1 DEF ObjectsIInv, ObjectsTypeOK
  <2>4. ObjectsTypeOK' /\ Advances
    <3>1. merges' \in [MergeKeys -> {NoMerge} \cup MergeRows]
      BY <2>1, <2>2 DEF ObjectsIInv, ObjectsTypeOK
    <3>2. granted' \subseteq MergeKeys \X Natives \X (Readers \cup {"none"})
      BY <2>1 DEF ObjectsIInv, ObjectsTypeOK
    <3>3. QED
      BY <3>1, <3>2, <1>1, <1>3, <2>1, <2>3 DEF ObjectsIInv, ObjectsTypeOK, Advances
  <2>5. MergesAreKept'
    <3>1. ASSUME NEW k \in MergeKeys, merges'[k] # NoMerge
          PROVE  /\ merges'[k].output \in MergedAs[k] /\ require_sealed(merges'[k].output)
                 /\ <<"reader", merges'[k].owner, merges'[k].output>> \in pins'
      <4>1. CASE k = key
        BY <4>1, <1>1, <2>1, <2>2, <2>3
      <4>2. CASE k # key
        BY <3>1, <4>2, <2>1, <2>3 DEF ObjectsIInv, MergesAreKept, require_sealed
      <4>3. QED
        BY <4>1, <4>2
    <3>2. QED
      BY <3>1, <1>1 DEF MergesAreKept, require_sealed
  <2>6. GrantsAreKept'
    <3>1. ASSUME NEW g \in granted'
          PROVE  /\ merges'[g[1]] # NoMerge /\ g[2] = merges'[g[1]].output
                 /\ g[3] # "none" => <<"reader", g[3], g[2]>> \in pins'
      <4>1. CASE g \in granted
        <5>1. /\ merges[g[1]] # NoMerge /\ g[2] = merges[g[1]].output /\ g[1] \in MergeKeys
              /\ g[3] # "none" => <<"reader", g[3], g[2]>> \in pins
          BY <4>1 DEF ObjectsIInv, GrantsAreKept, ObjectsTypeOK
        <5>2. merges'[g[1]] = merges[g[1]]
          BY <5>1, <1>3, <2>3
        <5>3. QED
          BY <5>1, <5>2, <2>1
      <4>2. CASE g = <<key, output, owner>>
        BY <4>2, <2>1, <2>2, <2>3
      <4>3. QED
        BY <4>1, <4>2, <2>1
    <3>2. QED
      BY <3>1 DEF GrantsAreKept
  <2>7. QED
    BY <1>1, <2>4, <2>5, <2>6, GroundedStands, RootsStand, PreparedStands DEF ObjectsIInv
<1>4. QED
  BY <1>2, <1>3

\* A hint that was found is there when it is looked up again.
LEMMA FindMergeHolds ==
  ASSUME ObjectsIInv, NEW key \in MergeKeys, NEW owner \in Readers, FindNativeMerge(key, owner)
  PROVE  ObjectsIInv'
<1>1. /\ merges[key] # NoMerge /\ prepared' = MergeRequest(key, owner)
      /\ UNCHANGED <<files, objects, pairs, pins, roots, saves, merges, granted>>
  BY DEF FindNativeMerge, MergeRequest
<1>2. ObjectsTypeOK' /\ Advances
  BY <1>1 DEF ObjectsIInv, ObjectsTypeOK, Advances
<1>3. PreparedIsSound'
  BY <1>1 DEF PreparedIsSound, MergeRequest
<1>4. QED
  BY <1>1, <1>2, <1>3, GroundedStands, RootsStand, MergesStand, GrantsStand DEF ObjectsIInv

\* A hit pins the output before it is told, or tells nothing.
LEMMA AcquireMergeHolds ==
  ASSUME ObjectsIInv, acquire_native_merge
  PROVE  ObjectsIInv'
<1>1. PICK key \in MergeKeys, owner \in Readers : prepared = MergeRequest(key, owner) /\ merges[key] # NoMerge
  <2>1. prepared # Unprepared
    BY DEF acquire_native_merge, Unprepared
  <2>2. \A i \in Indexes : \A sealing \in {{}, {i}, {i, NativeOf(i)}} : prepared # PairRequest(i, sealing)
    BY DEF acquire_native_merge, PairRequest
  <2>3. QED
    BY <2>1, <2>2 DEF ObjectsIInv, PreparedIsSound
<1>2. prepared.key = key /\ prepared.owner = owner
  BY <1>1 DEF MergeRequest
<1>3. /\ UNCHANGED <<files, objects, pairs, roots, saves, merges>> /\ prepared' = Unprepared
      /\ \/ /\ pins' = pins \cup {<<"reader", owner, merges[key].output>>}
            /\ granted' = granted \cup {<<key, merges[key].output, owner>>}
         \/ UNCHANGED <<pins, granted>>
  BY <1>2 DEF acquire_native_merge
<1>4. merges[key].output \in Natives
  BY <1>1 DEF ObjectsIInv, ObjectsTypeOK, MergeRows
<1>5. granted' \subseteq MergeKeys \X Natives \X (Readers \cup {"none"})
  BY <1>3, <1>4 DEF ObjectsIInv, ObjectsTypeOK
<1>6. ObjectsTypeOK' /\ Advances
  BY <1>3, <1>5 DEF ObjectsIInv, ObjectsTypeOK, Advances
<1>7. GrantsAreKept'
  <2>1. ASSUME NEW g \in granted'
        PROVE  /\ merges[g[1]] # NoMerge /\ g[2] = merges[g[1]].output
               /\ g[3] # "none" => <<"reader", g[3], g[2]>> \in pins'
    <3>1. CASE g \in granted
      BY <3>1, <1>3 DEF ObjectsIInv, GrantsAreKept
    <3>2. CASE g = <<key, merges[key].output, owner>> /\ g \notin granted
      BY <3>2, <1>1, <1>3
    <3>3. QED
      BY <3>1, <3>2, <1>3, <2>1
  <2>2. QED
    BY <2>1, <1>3 DEF GrantsAreKept
<1>8. PreparedIsSound'
  BY <1>3 DEF PreparedIsSound, Unprepared
<1>9. QED
  BY <1>3, <1>6, <1>7, <1>8, GroundedStands, RootsStand, MergesStand DEF ObjectsIInv

----------------------------------------------------------------------------
(* Every step *)

\* Every request of every connection keeps the invariant.
LEMMA ObjectsStepHolds == ObjectsIInv /\ [ObjectsNext]_objectVars => ObjectsIInv'
<1> SUFFICES ASSUME ObjectsIInv, [ObjectsNext]_objectVars PROVE ObjectsIInv'
  OBVIOUS
<1>1. ASSUME NEW a \in Attempts, reserve(a) PROVE ObjectsIInv'
  BY <1>1, ReserveHolds
<1>2. ASSUME NEW a \in Attempts, WriteFiles(a) PROVE ObjectsIInv'
  BY <1>2, PinsHold DEF WriteFiles
<1>3. ASSUME NEW s, begin_private_scope(s) \/ release_private_scope(s) PROVE ObjectsIInv'
  BY <1>3, PinsHold DEF begin_private_scope, release_private_scope
<1>4. ASSUME NEW o \in Objects, record_sealed(o) PROVE ObjectsIInv'
  BY <1>4, SealHolds
<1>5. ASSUME NEW heads \in {{i, j} : i, j \in Indexes}, register_graphs(heads) PROVE ObjectsIInv'
  BY <1>5, GraphsHold
<1>6. ASSUME NEW i \in Indexes, NEW sealing \in {{}, {i}, {i, NativeOf(i)}}, prepare_cola_pair(i, sealing)
      PROVE  ObjectsIInv'
  BY <1>6, PrepareHolds
<1>7. ASSUME FinishPair PROVE ObjectsIInv'
  BY <1>7, FinishHolds
<1>8. ASSUME NEW n \in SaveNames, NEW i \in Indexes, save(n, PairOf(i)) PROVE ObjectsIInv'
  BY <1>8, SaveHolds
<1>9. ASSUME NEW n \in SaveNames, NEW r \in Readers, acquire_save(n, r) PROVE ObjectsIInv'
  BY <1>9, AcquireSaveHolds
<1>10. ASSUME NEW k \in MergeKeys, NEW r \in Readers, FindNativeMerge(k, r) PROVE ObjectsIInv'
  BY <1>10, FindMergeHolds
<1>11. ASSUME NEW k \in MergeKeys, NEW r \in Readers, NEW o \in Natives, record_native_merge(k, o, r) PROVE ObjectsIInv'
  BY <1>11, RecordMergeHolds
<1>12. ASSUME acquire_native_merge PROVE ObjectsIInv'
  BY <1>12, AcquireMergeHolds
<1>13. CASE UNCHANGED objectVars
  BY <1>13, PinsHold DEF objectVars
<1>14. CASE \E a \in Attempts : reserve(a) \/ WriteFiles(a)
  BY <1>1, <1>2, <1>14
<1>15. CASE \E s \in {ScopeOf[a] : a \in Attempts} \ {NoScope} : begin_private_scope(s) \/ release_private_scope(s)
  BY <1>3, <1>15
<1>16. CASE \E o \in Objects : record_sealed(o)
  BY <1>4, <1>16
<1>17. CASE \E heads \in {{i, j} : i, j \in Indexes} : register_graphs(heads)
  BY <1>5, <1>17
<1>18. CASE \E i \in Indexes : \E sealing \in {{}, {i}, {i, NativeOf(i)}} : prepare_cola_pair(i, sealing)
  BY <1>6, <1>18
<1>19. CASE \E n \in SaveNames : \E i \in Indexes : save(n, PairOf(i))
  BY <1>8, <1>19
<1>20. CASE \E n \in SaveNames, r \in Readers : acquire_save(n, r)
  BY <1>9, <1>20
<1>21. CASE \E k \in MergeKeys, r \in Readers :
              FindNativeMerge(k, r) \/ \E o \in Natives : record_native_merge(k, o, r)
  BY <1>10, <1>11, <1>21
<1>22. QED
  BY <1>7, <1>12, <1>13, <1>14, <1>15, <1>16, <1>17, <1>18, <1>19, <1>20, <1>21 DEF ObjectsNext

\* What the tables hold says what the run checks.
LEMMA ObjectsFollow == ObjectsIInv => ObjectsAreGrounded
<1> SUFFICES ASSUME ObjectsIInv PROVE ObjectsAreGrounded
  OBVIOUS
<1>1. MergeHintsAgree
  <2> SUFFICES ASSUME NEW g \in granted
               PROVE  /\ merges[g[1]].output = g[2] /\ require_sealed(g[2]) /\ g[2] \in MergedAs[g[1]]
                      /\ g[3] # "none" => <<"reader", g[3], g[2]>> \in live_owner_objects
                      /\ \E p \in live_owner_objects : p[1] = "reader" /\ p[3] = g[2]
    BY DEF MergeHintsAgree
  <2>1. g[1] \in MergeKeys
    BY DEF ObjectsIInv, ObjectsTypeOK
  <2>2. /\ merges[g[1]] # NoMerge /\ g[2] = merges[g[1]].output
        /\ g[3] # "none" => <<"reader", g[3], g[2]>> \in pins
    BY DEF ObjectsIInv, GrantsAreKept
  <2>3. /\ g[2] \in MergedAs[g[1]] /\ require_sealed(g[2])
        /\ <<"reader", merges[g[1]].owner, g[2]>> \in pins
    BY <2>1, <2>2 DEF ObjectsIInv, MergesAreKept, require_sealed
  <2>4. \A x, y : <<"reader", x, y>> \in pins => <<"reader", x, y>> \in live_owner_objects
    BY DEF live_owner_objects
  <2>5. QED
    BY <2>2, <2>3, <2>4
<1>2. GraphsCanBeRegistered
  BY ChainIsClosed DEF GraphsCanBeRegistered, Agrees, ObjectsIInv, ObjectsTypeOK
<1>3. QED
  BY <1>1, <1>2 DEF ObjectsAreGrounded, ObjectsIInv

(* Whatever other connections do between what a request read and its       *)
(* transaction, every registered pair can be walked to its end, what       *)
(* owners hold is registered, and all callers are told one output of a     *)
(* merge, which stays pinned (sqlite_catalog.h, mapped_cola.h).            *)
THEOREM GroundedObjects == ObjectsSpec => []ObjectsAreGrounded
<1>1. ObjectsSpec => []ObjectsIInv
  BY ObjectsInitHolds, ObjectsStepHolds, PTL DEF ObjectsSpec
<1>2. QED
  BY <1>1, ObjectsFollow, PTL
============================================================================
