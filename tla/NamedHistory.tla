---------------------------- MODULE NamedHistory ----------------------------
(***************************************************************************)
(* What a directory of named sessions promises its users, whoever is       *)
(* connected and whatever fails: each name has one history of changes that *)
(* only grows at its end, a new name starts empty or as a copy of a prefix *)
(* of another, and no history holds a change twice.  Maintenance, restarts *)
(* and lost answers are stuttering.                                        *)
(***************************************************************************)
EXTENDS Naturals, Sequences, SequencesExt

CONSTANTS
  Names,     \* session names
  Changes,   \* batches of edits
  Unborn     \* the history of a name nobody has created

VARIABLE history

HistoryInit == history = [n \in Names |-> Unborn]

IsBorn(n) == history[n] # Unborn

\* Connecting to an unknown name.
Found(n) == ~IsBorn(n) /\ history' = [history EXCEPT ![n] = <<>>]

\* One publication: a contribution, or all the flushes of one transaction.
Extend(n) ==
  /\ IsBorn(n)
  /\ IsStrictPrefix(history[n], history'[n])
  /\ history'[n] \in Seq(Changes) /\ IsInjective(history'[n])
  /\ history' = [history EXCEPT ![n] = history'[n]]

\* Forking any generation of a name, the latest or an earlier one.
Copy(n, source) ==
  /\ ~IsBorn(n)
  /\ IsBorn(source)
  /\ \E k \in 0..Len(history[source]) :
       history' = [history EXCEPT ![n] = SubSeq(history[source], 1, k)]

HistoryNext ==
  \E n \in Names : Found(n) \/ Extend(n) \/ \E source \in Names : Copy(n, source)

HistorySpec == HistoryInit /\ [][HistoryNext]_history
=============================================================================
