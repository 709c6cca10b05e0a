----------------------------- MODULE AtomicTable -----------------------------
(***************************************************************************)
(* What a typed table promises its readers: a contribution is a batch of   *)
(* changes to distinct keys, and the table they read either has the whole  *)
(* batch or none of it.  Nothing else ever changes the table: neither the  *)
(* maintenance of its history, nor a failure, nor a restart.               *)
(*                                                                         *)
(* Module ReplacementRebuild is the executor; it implements this.          *)
(***************************************************************************)
EXTENDS Naturals, Sequences, FiniteSets

CONSTANTS
  Keys, Values,
  NoValue,     \* an absent key's value: the erasing arrow, and the initial state
  MaxBatch     \* records in one contribution (a bound of the model)

Table == [Keys -> Values \cup {NoValue}]
Change == [key : Keys, value : Values \cup {NoValue}]

\* One change per key, as a contribution's records are.
Batch == {b \in UNION {[1..n -> Change] : n \in 1..MaxBatch} :
            \A i, j \in DOMAIN b : b[i].key = b[j].key => i = j}
NoBatch == <<>>

\* Deleting an absent key is refused before anything is changed.
Admissible(b, t) == \A i \in DOMAIN b : b[i].value = NoValue => t[b[i].key] # NoValue

Apply(b, t) == [k \in Keys |->
  IF \E i \in DOMAIN b : b[i].key = k
  THEN b[CHOOSE i \in DOMAIN b : b[i].key = k].value
  ELSE t[k]]

VARIABLES
  table,   \* what readers see
  asked    \* the batch whose contribution has not returned

vars == <<table, asked>>

Init == /\ table \in Table
        /\ asked = NoBatch

Ask == /\ asked = NoBatch
       /\ asked' \in Batch
       /\ Admissible(asked', table)
       /\ UNCHANGED table

Answer == /\ asked # NoBatch
          /\ table' = Apply(asked, table)
          /\ asked' = NoBatch

\* The contribution threw, or the process stopped.
Drop == /\ asked # NoBatch
        /\ asked' = NoBatch
        /\ UNCHANGED table

Next == \/ Ask
        \/ Answer
        \/ Drop

Spec == Init /\ [][Next]_vars
=============================================================================
