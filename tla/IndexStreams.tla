---------------------------- MODULE IndexStreams ----------------------------
(***************************************************************************)
(* The streams an index merges and samples: sorted keys, each with the     *)
(* units it keeps of the one before it, and the windows of them that a     *)
(* query looks at.  Places are 0-based.                                    *)
(***************************************************************************)
EXTENDS Keys, FiniteSets

CONSTANT GroupSize   \* P::group_size

groups(n) == (n + GroupSize - 1) \div GroupSize

Stream(keys) ==
  [i \in DOMAIN keys |->
     [key |-> keys[i], retained |-> IF i = 1 THEN 0 ELSE CommonBits(keys[i - 1], keys[i]) \div UnitBits]]
Native(set) == Stream(SetToSortSeq(set, Precedes))

\* A key at a 0-based place, none past the end.
At(stream, n) == IF n < Len(stream) THEN <<stream[n + 1].key>> ELSE <<>>
\* LCP of the keys at two neighbouring places; 0 past the end.
NextCommon(stream, n) ==
  IF n + 1 < Len(stream) THEN CommonBits(stream[n + 1].key, stream[n + 2].key) ELSE 0

Sum(counts) == FoldLeft(LAMBDA a, n : a + n, 0, counts)

compare_window(stream, window, context) ==
  Tail(FoldLeft(LAMBDA cs, i : Append(cs, advance(Last(cs), stream[i].retained,
                                                  From(stream[i].key, Bits(stream[i].retained)))),
                <<context>>, [j \in 1..(window[2] - window[1]) |-> window[1] + j]))
Having(contexts, orders) == {i \in DOMAIN contexts : contexts[i].order \in orders}

-----------------------------------------------------------------------------
\* What a search should find.

Place(stream, key) ==
  LET at == {i \in DOMAIN stream : stream[i].key = key} IN IF at = {} THEN -1 ELSE Min(at) - 1
Below(stream, key) == Cardinality({i \in DOMAIN stream : Precedes(stream[i].key, key)})
=============================================================================
