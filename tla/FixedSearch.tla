---------------------------- MODULE FixedSearch -----------------------------
(***************************************************************************)
(* fixed_search.h: bounds of a query in a window of sorted keys of one, two  *)
(* or four words, by a branchless binary search and by three pivots at once  *)
(* whose lanes are compared word by word.                                  *)
(***************************************************************************)
EXTENDS Integers, Sequences, FiniteSets, FiniteSetsExt, SequencesExt

CONSTANTS
  Words,        \* 1, 2 or 4 words to a key, the first the most significant
  FixedKeys,    \* keys that occur
  MaxKeys       \* the longest window (a bound of the model)

VARIABLE keys   \* a fixed_key_view, in order
searchVars == <<keys>>

WordIndex == 1..Words
-----------------------------------------------------------------------------
\* precedes: less while equal, word by word; with upper, equal keys too.
precedes(key, query, upper) ==
  LET after == FoldLeft(LAMBDA s, i : [less |-> s.less \/ (s.equal /\ key[i] < query[i]), equal |-> s.equal /\ key[i] = query[i]],
                        [less |-> FALSE, equal |-> TRUE], [i \in WordIndex |-> i])
  IN  after.less \/ (upper /\ after.equal)

\* population: the keys at hand that precede, by masks of word lanes.
Starts(count) == {Words * i : i \in 0..(count - 1)}
Lanes(window, query) ==
  [less |-> {i \in 0..(Words * Len(window) - 1) : window[i \div Words + 1][(i % Words) + 1] < query[(i % Words) + 1]},
   equal |-> {i \in 0..(Words * Len(window) - 1) : window[i \div Words + 1][(i % Words) + 1] = query[(i % Words) + 1]}]
ByLanes(lanes, count, upper) ==
  LET m == FoldLeft(LAMBDA s, w : [result |-> s.result \cup {i \in s.matches : i + w \in lanes.less},
                                   matches |-> {i \in s.matches : i + w \in lanes.equal}],
                    [result |-> {}, matches |-> Starts(count)], [w \in WordIndex |-> w - 1])
  IN  Cardinality(IF upper THEN m.result \cup m.matches ELSE m.result)
population(window, query, upper) == ByLanes(Lanes(window, query), Len(window), upper)

-----------------------------------------------------------------------------
\* The steps of a search: the powers of two up to the window's size, halving.
Powers == {2 ^ i : i \in 0..6}
StepsOf(n) == SetToSortSeq({p \in Powers : p <= n}, LAMBDA p, q : p > q)
IsComplete(n) == n + 1 \in Powers

Below(i, query, upper) == precedes(keys[i + 1], query, upper)

\* A window of 2^m - 1 keys needs no clamp; another probes its last key for those beyond it.
binary_bound(query, upper) ==
  FoldLeft(LAMBDA first, step :
             IF IsComplete(Len(keys))
             THEN IF Below(first + step - 1, query, upper) THEN first + step ELSE first
             ELSE IF first + step <= Len(keys) /\ Below(Min({first + step, Len(keys)}) - 1, query, upper)
                  THEN first + step ELSE first,
           0, StepsOf(Len(keys)))

\* Mutant of StartAfter: the first quarter loses its first key too.
StartAfter_always(rank, count) == (rank * count) \div 4 + 1

\* Where the keys after a pivot begin.
StartAfter(rank, count) == (rank * count) \div 4 + (IF rank = 0 THEN 0 ELSE 1)

Pivots(s) == <<keys[s.first + s.count \div 4 + 1], keys[s.first + s.count \div 2 + 1], keys[s.first + (3 * s.count) \div 4 + 1]>>
Narrowed(s, rank) ==
  [first |-> s.first + StartAfter(rank, s.count), count |-> ((rank + 1) * s.count) \div 4 - StartAfter(rank, s.count)]
pivot_step(s, query, upper) == Narrowed(s, population(Pivots(s), query, upper))

Remaining(s, query, upper) ==
  s.first + (IF s.count = 0 THEN 0 ELSE population(SubSeq(keys, s.first + 1, s.first + s.count), query, upper))
Whole == [first |-> 0, count |-> Len(keys)]
Once(query, upper) == pivot_step(Whole, query, upper)
Twice(query, upper) == pivot_step(Once(query, upper), query, upper)
simd_bound(query, upper) ==
  CASE Len(keys) <= 4 -> Remaining(Whole, query, upper)
    [] Len(keys) \in 5..16 -> Remaining(Once(query, upper), query, upper)
    [] Len(keys) \in 17..32 -> Remaining(Twice(query, upper), query, upper)
    [] OTHER -> binary_bound(query, upper)

-----------------------------------------------------------------------------
KeyUpTo(a, b) == ~precedes(b, a, FALSE)
SearchInit == keys = <<>>
SearchNext ==
  /\ Len(keys) < MaxKeys
  /\ \E key \in FixedKeys : (keys # <<>> => KeyUpTo(Last(keys), key)) /\ keys' = Append(keys, key)

(* Both searches return the number of keys before the query, or not after it,
   for every size of window and run of equal keys, and look only at keys of the
   window (binary_bound, pivot_step, small_bound, population).  *)
BoundsAreExact ==
  \A query \in FixedKeys, upper \in BOOLEAN :
    LET bound == Cardinality({i \in DOMAIN keys : precedes(keys[i], query, upper)}) IN
    /\ binary_bound(query, upper) = bound
    /\ simd_bound(query, upper) = bound
=============================================================================
