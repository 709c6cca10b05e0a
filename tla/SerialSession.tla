--------------------------- MODULE SerialSession ---------------------------
(***************************************************************************)
(* What everett::session promises its callers, with no threads in it.      *)
(*                                                                         *)
(* A session is a bounded pool of admissions around one growing world.  A  *)
(* caller's contribution is admitted or refused; once accepted it is       *)
(* settled exactly once: either it is applied to the world, in acceptance  *)
(* order, and its ticket then yields a value, or its ticket yields an      *)
(* error and the world never contains it.  Closing stops admission and     *)
(* nothing else: whatever was admitted is still settled.                   *)
(*                                                                         *)
(* Module Session is the program; it implements this specification.        *)
(***************************************************************************)
EXTENDS Naturals, Sequences, FiniteSets, SequencesExt

CONSTANTS Requests,       \* the contributions callers may submit
          Contributions   \* session_limits.contributions

VARIABLES world,     \* the contributions applied, oldest first
          arrivals,  \* the contributions accepted, oldest first
          ticket,    \* the life of each contribution
          open       \* the session still admits contributions

vars == <<world, arrivals, ticket, open>>

Life == {"new", "refused", "reserved", "accepted", "applied",
         "doomed", "value", "error"}

\* Contributions that hold a share of the admission limit.
Admitted == {r \in Requests : ticket[r] \in {"reserved", "accepted", "applied", "doomed"}}

Move(r, from, to) == /\ ticket[r] = from
                     /\ ticket' = [ticket EXCEPT ![r] = to]

----------------------------------------------------------------------------

Init == /\ world = <<>>
        /\ arrivals = <<>>
        /\ ticket = [r \in Requests |-> "new"]
        /\ open = TRUE

\* Refusal needs no reason: closed, failed, saturated or oversized.
Refuse(r) == /\ Move(r, "new", "refused")
             /\ UNCHANGED <<world, arrivals, open>>

Reserve(r) == /\ open
              /\ Cardinality(Admitted) < Contributions
              /\ Move(r, "new", "reserved")
              /\ UNCHANGED <<world, arrivals, open>>

\* The private copy of the contribution could not be made.
Withdraw(r) == /\ Move(r, "reserved", "refused")
               /\ UNCHANGED <<world, arrivals, open>>

Accept(r) == /\ Move(r, "reserved", "accepted")
             /\ arrivals' = Append(arrivals, r)
             /\ UNCHANGED <<world, open>>

\* Contributions are applied in acceptance order, skipping those in error.
Apply(r) == /\ Move(r, "accepted", "applied")
            /\ \E i \in DOMAIN arrivals :
                 /\ arrivals[i] = r
                 /\ \A j \in 1..(i - 1) : ticket[arrivals[j]] # "accepted"
            /\ world' = Append(world, r)
            /\ UNCHANGED <<arrivals, open>>

Yield(r) == /\ Move(r, "applied", "value")
            /\ UNCHANGED <<world, arrivals, open>>

\* A cancellation takes the contribution out of the order before it settles.
Cancel(r) == /\ Move(r, "accepted", "doomed")
             /\ UNCHANGED <<world, arrivals, open>>

\* Cancelled, rejected by the engine, or lost to the session's failure.
Reject(r) == /\ Move(r, "accepted", "error") \/ Move(r, "doomed", "error")
             /\ UNCHANGED <<world, arrivals, open>>

Close == /\ open
         /\ open' = FALSE
         /\ UNCHANGED <<world, arrivals, ticket>>

Next == \/ \E r \in Requests : \/ Refuse(r) \/ Reserve(r) \/ Withdraw(r)
                               \/ Accept(r) \/ Apply(r) \/ Yield(r)
                               \/ Cancel(r) \/ Reject(r)
        \/ Close

\* Whatever was admitted moves on until it is settled.
Progress(r) == Withdraw(r) \/ Accept(r) \/ Apply(r) \/ Yield(r) \/ Reject(r)

SafeSpec == Init /\ [][Next]_vars
Spec == SafeSpec /\ \A r \in Requests : WF_vars(Progress(r))
============================================================================
