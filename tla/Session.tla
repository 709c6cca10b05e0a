------------------------------ MODULE Session ------------------------------
(***************************************************************************)
(* everett::session<Engine> (include/everett/session.h): one worker thread *)
(* owns the mutable engine; any number of threads submit contributions to  *)
(* a bounded FIFO, cancel queued ones, read the published world, close the *)
(* session and join its worker.                                            *)
(*                                                                         *)
(* One action is one region under mutex_, or one region that runs outside  *)
(* it and touches shared state once.  Waiting on changed_ is the set       *)
(* asleep; a thread that has left mutex_ but not yet reached its           *)
(* notify_all is in wakers, so a wakeup is late by as much as the          *)
(* scheduler likes.                                                        *)
(***************************************************************************)
EXTENDS Integers, Sequences, FiniteSets, SequencesExt

CONSTANTS Requests,       \* one call of submit, try_submit or apply each
          Closers,        \* threads that call shutdown
          Worker,         \* the session's worker thread
          None,           \* no request
          Charge,         \* Engine::reservation of each request: [work, bytes]
          Limits,         \* session_limits: [work, bytes, contributions]
          EngineStates,   \* the debt and readiness an engine may report
          MaxRevision     \* the last publication revision

Reservation == [work : Nat, bytes : Nat]
EngineState == [debt : Nat, ready : BOOLEAN]

ASSUME SessionAssumption ==
  /\ IsFiniteSet(Requests)
  /\ Worker \notin Requests \cup Closers
  /\ None \notin Requests
  /\ Requests \cap Closers = {}
  /\ Charge \in [Requests -> Reservation]
  /\ Limits \in [work : Nat, bytes : Nat, contributions : Nat \ {0}]
  /\ EngineStates \subseteq EngineState
  /\ MaxRevision \in Nat

VARIABLES
  call,       \* how far each request's submitting call has come
  outcome,    \* the state of each request's promise
  yielded,    \* the generation of the publication a promise was set to
  queue,      \* queue_
  reserved,   \* reserved_
  count,      \* count_
  closing,    \* closing_
  failure,    \* failure_ is set
  current,    \* the publication current_ points to
  worker,     \* where the worker stands in run or failed
  item,       \* the request the worker has claimed
  abandoned,  \* requests failed() has yet to reject
  pending,    \* run's local copy of engine_->pending()
  engine,     \* what *engine_ reports
  cancelling, \* requests a canceller erased from the queue and not settled
  closer,     \* where each closing thread stands
  asleep,     \* threads blocked in changed_.wait
  wakers,     \* threads between leaving mutex_ and changed_.notify_all
  arrivals    \* history: the order of queue_.push_back

ticketVars == <<outcome, yielded>>
budgetVars == <<reserved, count>>
flagVars   == <<closing, failure>>
workVars   == <<worker, item, abandoned, pending, engine>>
vars == <<call, ticketVars, queue, budgetVars, flagVars, current, workVars,
          cancelling, closer, asleep, wakers, arrivals>>

Threads == Requests \cup Closers \cup {Worker}

----------------------------------------------------------------------------
(* Admission arithmetic *)

Oversized(r) == \/ Charge[r].work > Limits.work
                \/ Charge[r].bytes > Limits.bytes

Fits(r) == /\ count < Limits.contributions
           /\ Charge[r].work <= Limits.work - reserved.work
           /\ Charge[r].bytes <= Limits.bytes - reserved.bytes

Unavailable == closing \/ failure

Unreserve(r) ==
  /\ reserved' = [work  |-> reserved.work - Charge[r].work,
                  bytes |-> reserved.bytes - Charge[r].bytes]
  /\ count' = count - 1

\* A promise is set and its request's reservation returned in one region.
Settle(r, how) == /\ outcome' = [outcome EXCEPT ![r] = how]
                  /\ Unreserve(r)

----------------------------------------------------------------------------

Init == /\ call = [r \in Requests |-> "idle"]
        /\ outcome = [r \in Requests |-> "open"]
        /\ yielded = [r \in Requests |-> 0]
        /\ queue = <<>>
        /\ reserved = [work |-> 0, bytes |-> 0]
        /\ count = 0
        /\ closing = FALSE
        /\ failure = FALSE
        /\ current = [generation |-> 0, revision |-> 0, logical |-> None, world |-> <<>>]
        /\ worker = "wait"
        /\ item = None
        /\ abandoned = <<>>
        /\ engine \in EngineStates
        /\ pending = (engine.debt > 0)
        /\ cancelling = {}
        /\ closer = [c \in Closers |-> "idle"]
        /\ asleep = {}
        /\ wakers = {}
        /\ arrivals = <<>>

----------------------------------------------------------------------------
(* The submitting thread: enqueue *)

\* A call at its admission test: entering, or awake in the wait of a submit.
Testing(r) == \/ call[r] = "idle"
              \/ call[r] = "waiting" /\ r \notin asleep

Becomes(r, stage) == call' = [call EXCEPT ![r] = stage]

Full(r) == ~Oversized(r) /\ ~Unavailable /\ ~Fits(r)

\* The charge can never fit (length_error, before any lock), available() throws
\* the failure or session_closed, or a saturated try_submit returns nullopt.
Refuse(r) == /\ \/ call[r] = "idle" /\ (Oversized(r) \/ Full(r))
                \/ Testing(r) /\ ~Oversized(r) /\ Unavailable
             /\ Becomes(r, "refused")
             /\ UNCHANGED <<queue, budgetVars, asleep, wakers, arrivals>>

\* A saturated submit waits on changed_.
Block(r) == /\ Testing(r) /\ Full(r)
            /\ Becomes(r, "waiting")
            /\ asleep' = asleep \cup {r}
            /\ UNCHANGED <<queue, budgetVars, wakers, arrivals>>

Reserve(r) == /\ Testing(r) /\ ~Oversized(r) /\ ~Unavailable /\ Fits(r)
              /\ Becomes(r, "constructing")
              /\ reserved' = [work  |-> reserved.work + Charge[r].work,
                              bytes |-> reserved.bytes + Charge[r].bytes]
              /\ count' = count + 1
              /\ UNCHANGED <<queue, asleep, wakers, arrivals>>

\* Mutant of Push: the failure test before push_back is gone.
Push_afterFailure(r) == /\ call[r] = "constructing"
                        /\ Becomes(r, "accepted")
                        /\ queue' = Append(queue, r)
                        /\ arrivals' = Append(arrivals, r)
                        /\ wakers' = wakers \cup {r}
                        /\ UNCHANGED <<budgetVars, asleep>>

\* The request was constructed outside the lock and is appended; a close since
\* the reservation does not stop it, a failure does.
Push(r) == /\ call[r] = "constructing" /\ ~failure
           /\ Becomes(r, "accepted")
           /\ queue' = Append(queue, r)
           /\ arrivals' = Append(arrivals, r)
           /\ wakers' = wakers \cup {r}
           /\ UNCHANGED <<budgetVars, asleep>>

\* Mutant of PushThrows: the catch block forgets the reservation.
PushThrows_leaks(r) == /\ call[r] = "constructing"
                       /\ Becomes(r, "refused")
                       /\ UNCHANGED <<queue, budgetVars, asleep, wakers, arrivals>>

\* A constructor threw, or the session failed before the push.
PushThrows(r) == /\ call[r] = "constructing"
                 /\ Becomes(r, "undoing")
                 /\ UNCHANGED <<queue, budgetVars, asleep, wakers, arrivals>>

\* Mutant of Undo: no notify_all after the refund.
Undo_silent(r) == /\ call[r] = "undoing"
                  /\ Becomes(r, "refused")
                  /\ Unreserve(r)
                  /\ UNCHANGED <<queue, asleep, wakers, arrivals>>

Undo(r) == /\ call[r] = "undoing"
           /\ Becomes(r, "refused")
           /\ Unreserve(r)
           /\ wakers' = wakers \cup {r}
           /\ UNCHANGED <<queue, asleep, arrivals>>

Submit(r) == /\ Refuse(r) \/ Block(r) \/ Reserve(r) \/ Push(r) \/ PushThrows(r) \/ Undo(r)
             /\ UNCHANGED <<ticketVars, flagVars, current, workVars, cancelling, closer>>

----------------------------------------------------------------------------
(* Cancelling, closing, joining, waking *)

\* Mutant of Erase: the entry is found but left in the queue.
Erase_keeps(r) == /\ call[r] = "accepted" /\ r \notin wakers
                  /\ r \in ToSet(queue)
                  /\ cancelling' = cancelling \cup {r}
                  /\ UNCHANGED <<outcome, budgetVars, queue, wakers>>

\* cancel finds the request still queued and erases it.  A ticket exists once
\* its submit has returned; a cancel that finds nothing changes nothing.
Erase(r) == /\ call[r] = "accepted" /\ r \notin wakers
            /\ \E i \in DOMAIN queue : queue[i] = r /\ queue' = RemoveAt(queue, i)
            /\ cancelling' = cancelling \cup {r}
            /\ UNCHANGED <<outcome, budgetVars, wakers>>

\* Having destroyed the input outside the lock, cancel settles the ticket.
SettleCancelled(r) == /\ r \in cancelling
                      /\ cancelling' = cancelling \ {r}
                      /\ Settle(r, "cancelled")
                      /\ wakers' = wakers \cup {r}
                      /\ UNCHANGED queue

Cancel(r) == /\ Erase(r) \/ SettleCancelled(r)
             /\ UNCHANGED <<call, arrivals, yielded, flagVars, current, workVars,
                            closer, asleep>>

\* Mutant of Close: no notify_all after closing_ is set.
Close_silent(c) == /\ closer[c] = "idle"
                   /\ closing' = TRUE
                   /\ closer' = [closer EXCEPT ![c] = "closed"]
                   /\ UNCHANGED wakers

Close(c) == /\ closer[c] = "idle"
            /\ closing' = TRUE
            /\ closer' = [closer EXCEPT ![c] = "closed"]
            /\ wakers' = wakers \cup {c}

\* shutdown returns once the worker thread has ended; join_mutex_ makes
\* concurrent shutdowns wait for each other, which is a wait for the worker.
Join(c) == /\ closer[c] = "closed" /\ c \notin wakers
           /\ worker = "exited" /\ Worker \notin wakers
           /\ closer' = [closer EXCEPT ![c] = "joined"]
           /\ UNCHANGED <<closing, wakers>>

Shutdown(c) == /\ Close(c) \/ Join(c)
               /\ UNCHANGED <<call, ticketVars, queue, budgetVars, failure, current,
                              workVars, cancelling, asleep, arrivals>>

\* notify_all, or a wakeup for no reason, which condition variables allow.
Wake(t) == /\ \/ t \in wakers /\ wakers' = wakers \ {t} /\ asleep' = {}
              \/ t \in asleep /\ asleep' = asleep \ {t} /\ UNCHANGED wakers
           /\ UNCHANGED <<call, ticketVars, queue, budgetVars, flagVars, current,
                          workVars, cancelling, closer, arrivals>>

----------------------------------------------------------------------------
(* The worker thread: run *)

At(place) == worker = place /\ Worker \notin wakers \cup asleep

WorkToDo == queue # <<>> \/ (IF closing THEN count = 0 ELSE pending)

\* An engine that refuses admission owes service; one that does not is broken.
Serviceable == engine.ready \/ pending

Claimable == engine.ready /\ queue # <<>>

RefuseEngine == /\ ~Serviceable
                /\ worker' = "fail"
                /\ UNCHANGED <<queue, item, asleep>>

Sleep == /\ Serviceable /\ ~WorkToDo
         /\ asleep' = asleep \cup {Worker}
         /\ UNCHANGED <<worker, queue, item>>

Claim == /\ Claimable
         /\ item' = Head(queue)
         /\ queue' = Tail(queue)
         /\ worker' = "contribute"
         /\ UNCHANGED asleep

Exit == /\ Serviceable /\ ~Claimable
        /\ closing /\ count = 0
        /\ worker' = "exited"
        /\ UNCHANGED <<queue, item, asleep>>

\* Maintenance: nothing is queued, or the engine must be served first.
Maintain == /\ Serviceable /\ ~Claimable /\ WorkToDo
            /\ ~(closing /\ count = 0)
            /\ worker' = "advance"
            /\ UNCHANGED <<queue, item, asleep>>

Await == /\ At("wait")
         /\ RefuseEngine \/ Sleep \/ Claim \/ Exit \/ Maintain
         /\ UNCHANGED <<ticketVars, budgetVars, flagVars, current, abandoned, pending,
                        engine, wakers>>

\* next() and the store of current_: only the worker publishes, so the
\* publication it builds on is still the current one.
Publish(world, logical, generations) ==
  /\ current.revision < MaxRevision
  /\ current' = [generation |-> current.generation + generations,
                 revision   |-> current.revision + 1,
                 logical    |-> logical,
                 world      |-> world]

\* Every engine call is followed by pending = engine_->pending().
Observe(e) == engine' = e /\ pending' = (e.debt > 0)

\* Mutant of Applied: the ticket is set before current_ is stored.
Applied_unpublished == /\ \E e \in EngineStates : Observe(e)
                       /\ worker' = "resolve"
                       /\ UNCHANGED current

\* The contribution is applied and its world published before its ticket.
Applied == /\ Publish(Append(current.world, item), item, 1)
           /\ \E e \in EngineStates : Observe(e)
           /\ worker' = "resolve"

\* The engine throws without failing: it certifies an unchanged world.
Rejected == /\ \E e \in EngineStates : Observe(e)
            /\ worker' = "reject"
            /\ UNCHANGED current

\* The engine fails, or the publication sequence is exhausted.
Broken == worker' = "fail" /\ UNCHANGED <<current, engine, pending>>

Contribute == /\ At("contribute")
              /\ Applied \/ Rejected \/ Broken
              /\ UNCHANGED <<ticketVars, queue, budgetVars, flagVars, item, abandoned,
                             asleep, wakers>>

\* The promise is set, in the region that returns the reservation.
Report == /\ \/ /\ At("resolve")
                /\ Settle(item, "value")
                /\ yielded' = [yielded EXCEPT ![item] = current.generation]
             \/ /\ At("reject")
                /\ Settle(item, "rejected")
                /\ UNCHANGED yielded
          /\ item' = None
          /\ worker' = "wait"
          /\ wakers' = wakers \cup {Worker}
          /\ UNCHANGED <<queue, flagVars, current, abandoned, pending, engine, asleep>>

\* advance() does part of the debt and may return an equivalent layout.
Serve == /\ \E e \in EngineStates : e.debt < engine.debt /\ Observe(e)
         /\ \/ UNCHANGED current
            \/ Publish(current.world, current.logical, 0)
         /\ worker' = "wait"

Advance == /\ At("advance")
           /\ Serve \/ Broken
           /\ UNCHANGED <<ticketVars, queue, budgetVars, flagVars, item, abandoned,
                          asleep, wakers>>

----------------------------------------------------------------------------
(* The worker thread: failed *)

\* The failure closes the session and takes the claimed request and the queue;
\* the engine is destroyed before any of them is refunded.
Fail == /\ At("fail")
        /\ failure' = TRUE /\ closing' = TRUE
        /\ abandoned' = IF item = None THEN queue ELSE <<item>> \o queue
        /\ queue' = <<>> /\ item' = None
        /\ worker' = "abandon"
        /\ UNCHANGED <<ticketVars, budgetVars, current, pending, engine, asleep, wakers>>

\* Each abandoned request is rejected in a region of its own, then all are told.
Abandon == /\ At("abandon")
           /\ IF abandoned # <<>>
              THEN /\ Settle(Head(abandoned), "failed")
                   /\ abandoned' = Tail(abandoned)
                   /\ UNCHANGED <<worker, wakers>>
              ELSE /\ worker' = "drain"
                   /\ wakers' = wakers \cup {Worker}
                   /\ UNCHANGED <<outcome, budgetVars, abandoned>>
           /\ UNCHANGED <<yielded, queue, flagVars, current, item, pending, engine, asleep>>

\* Constructors and cancellations in flight must settle before the worker ends.
Drain == /\ At("drain")
         /\ IF count = 0 THEN worker' = "exited" /\ UNCHANGED asleep
                         ELSE asleep' = asleep \cup {Worker} /\ UNCHANGED worker
         /\ UNCHANGED <<ticketVars, queue, budgetVars, flagVars, current, item,
                        abandoned, pending, engine, wakers>>

Work == /\ Await \/ Contribute \/ Report \/ Advance \/ Fail \/ Abandon \/ Drain
        /\ UNCHANGED <<call, arrivals, cancelling, closer>>

----------------------------------------------------------------------------

Next == \/ \E r \in Requests : Submit(r) \/ Cancel(r)
        \/ \E c \in Closers : Shutdown(c)
        \/ \E t \in Threads : Wake(t)
        \/ Work

SafeSpec == Init /\ [][Next]_vars

\* The scheduler runs every thread that can run, mutex_ is handed over, and
\* engine calls and constructors return.  Nobody has to submit, cancel or close.
Fairness ==
  /\ WF_vars(Work)
  /\ \A r \in Requests : /\ WF_vars(call[r] # "idle" /\ Submit(r))
                         /\ WF_vars(r \in cancelling /\ Cancel(r))
  /\ \A c \in Closers : WF_vars(closer[c] # "idle" /\ Shutdown(c))
  /\ \A t \in Threads : WF_vars(t \in wakers /\ Wake(t))

Spec == SafeSpec /\ Fairness

----------------------------------------------------------------------------
(* Properties *)

\* The type invariant: every variable of the session holds a value of its C++
\* type, and count_, an unsigned counter, never passes below zero
\* (session.h, the data members and unreserve).
TypeOK ==
  /\ call \in [Requests -> {"idle", "waiting", "constructing", "undoing",
                           "accepted", "refused"}]
  /\ outcome \in [Requests -> {"open", "value", "rejected", "cancelled", "failed"}]
  /\ yielded \in [Requests -> Nat]
  /\ queue \in Seq(Requests)
  /\ reserved \in [work : Int, bytes : Int]
  /\ count \in Nat
  /\ closing \in BOOLEAN
  /\ failure \in BOOLEAN
  /\ current \in [generation : Nat, revision : Nat,
                  logical : Requests \cup {None}, world : Seq(Requests)]
  /\ worker \in {"wait", "contribute", "resolve", "reject", "advance",
                 "fail", "abandon", "drain", "exited"}
  /\ item \in Requests \cup {None}
  /\ abandoned \in Seq(Requests)
  /\ pending \in BOOLEAN
  /\ engine \in EngineStates
  /\ cancelling \in SUBSET Requests
  /\ closer \in [Closers -> {"idle", "closed", "joined"}]
  /\ asleep \in SUBSET (Requests \cup {Worker})
  /\ wakers \in SUBSET Threads
  /\ arrivals \in Seq(Requests)

\* Accepted requests whose promise is not yet set.
Unsettled == {r \in Requests : call[r] = "accepted" /\ outcome[r] = "open"}

\* Requests that hold a reservation: being built, being undone, or unsettled.
Outstanding == Unsettled \cup {r \in Requests : call[r] \in {"constructing", "undoing"}}

\* reserved_ and count_ are exactly what the outstanding requests hold, through
\* every cancel, exception, rejection and failure, and never exceed the limits
\* (the unsigned subtractions of fits and unreserve therefore never wrap).
ReservationsExact ==
  /\ count = Cardinality(Outstanding)
  /\ reserved.work = MapThenSumSet(LAMBDA r : Charge[r].work, Outstanding)
  /\ reserved.bytes = MapThenSumSet(LAMBDA r : Charge[r].bytes, Outstanding)
  /\ count <= Limits.contributions
  /\ reserved.work <= Limits.work /\ reserved.bytes <= Limits.bytes

\* A ticket yields a world that ends in its own contribution and that every
\* later snapshot() contains; a ticket that yields an error was never applied.
TicketsTellTheTruth ==
  \A r \in Requests :
    /\ outcome[r] = "value" =>
         /\ yielded[r] \in 1..current.generation
         /\ current.world[yielded[r]] = r
    /\ r \in ToSet(current.world) =>
         outcome[r] = "value" \/ (r = item /\ worker = "resolve")

\* Once the worker has ended, by close or by failure, the session is empty:
\* nothing is reserved, queued or unsettled, and nothing can come in.
EndedEmpty ==
  worker = "exited" =>
    /\ closing /\ count = 0
    /\ queue = <<>> /\ abandoned = <<>> /\ cancelling = {} /\ Outstanding = {}

\* Nobody sleeps on a condition that holds unless a notify_all is on its way
\* (failed() sends its own after it has rejected everything): no wakeup of
\* changed_ is lost.
NoLostWakeup ==
  wakers = {} /\ worker # "abandon" =>
    /\ \A r \in asleep \ {Worker} : ~Unavailable /\ ~Fits(r)
    /\ Worker \in asleep => /\ worker = "wait" => ~WorkToDo
                            /\ worker = "drain" => count > 0

\* Nobody is forgotten: not by the worker when it ends, and not asleep while what
\* they wait for is already so.
NobodyIsForgotten == EndedEmpty /\ NoLostWakeup

\* A ticket's promise, once set, and the world it was set to never change.
TicketsSettleOnce ==
  [][\A r \in Requests : outcome[r] # "open" =>
       outcome'[r] = outcome[r] /\ yielded'[r] = yielded[r]]_vars

\* Every shutdown returns, whatever was queued, being built or being cancelled.
ShutdownReturns ==
  \A c \in Closers : closer[c] = "closed" ~> closer[c] = "joined"

\* A submit blocked when the session closes or fails comes back with an error.
CloseReleasesSubmitters ==
  \A r \in Requests : (call[r] = "waiting" /\ Unavailable) ~> call[r] = "refused"

\* An open session pays its engine's debt off in its idle time.
MaintenanceConverges == (engine.debt > 0) ~> (engine.debt = 0 \/ Unavailable)

\* What the session's callers wait for happens: the end of a shutdown, the answer
\* to a blocked submission, and the idle service of an engine in debt.
EveryoneReturns == ShutdownReturns /\ CloseReleasesSubmitters /\ MaintenanceConverges

\* The life of a request as the promise the session makes about it.
LifeOf(r) ==
  CASE call[r] \in {"idle", "waiting"} -> "new"
    [] call[r] \in {"constructing", "undoing"} -> "reserved"
    [] call[r] = "refused" -> "refused"
    [] call[r] = "accepted" /\ outcome[r] = "open" ->
         IF r \in cancelling THEN "doomed"
         ELSE IF r = item /\ worker = "resolve" THEN "applied" ELSE "accepted"
    [] call[r] = "accepted" /\ outcome[r] = "value" -> "value"
    [] OTHER -> "error"

Promise == INSTANCE SerialSession
             WITH world <- current.world,
                  ticket <- [r \in Requests |-> LifeOf(r)],
                  open <- ~closing,
                  Contributions <- Limits.contributions

\* The threaded session implements the serial one, its progress included.
ImplementsPromise == Promise!Spec
============================================================================
