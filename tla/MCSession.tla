----------------------------- MODULE MCSession -----------------------------
(***************************************************************************)
(* Small sessions for TLC: three contributions that compete for the        *)
(* admission limits, one or two closing threads, and an engine that may    *)
(* owe service, refuse admission while it does, or refuse wrongly.         *)
(***************************************************************************)
EXTENDS Session

CONSTANTS r1, r2, r3, c1, c2

\* r3 needs all the work and r1 half of it; with two contributions at most,
\* each of the three limits is the one that saturates in some state.
MCCharge == [r \in Requests |->
               CASE r = r1 -> [work |-> 1, bytes |-> 2]
                 [] r = r2 -> [work |-> 1, bytes |-> 0]
                 [] OTHER  -> [work |-> 2, bytes |-> 1]]

MCLimits == [work |-> 2, bytes |-> 2, contributions |-> 2]

\* One contribution at a time.
MCNarrowLimits == [work |-> 1, bytes |-> 2, contributions |-> 1]

MCEngines == {[debt |-> 0, ready |-> TRUE], [debt |-> 1, ready |-> TRUE],
              [debt |-> 1, ready |-> FALSE], [debt |-> 0, ready |-> FALSE]}

\* An engine that keeps its contract and may owe two units of service.
MCSoundEngines == {[debt |-> 0, ready |-> TRUE], [debt |-> 1, ready |-> TRUE],
                   [debt |-> 2, ready |-> FALSE]}
============================================================================
