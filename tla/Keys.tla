-------------------------------- MODULE Keys --------------------------------
(***************************************************************************)
(* Keys as sequences of bits, whole numbers of units of UnitBits bits, and  *)
(* profile_query_context: what a search knows of the key it stands at, its  *)
(* order against the query and how many bits they share, without the key.  *)
(***************************************************************************)
EXTENDS Integers, Sequences, SequencesExt, FiniteSetsExt

CONSTANT UnitBits   \* P::bits_per_unit

Bit == {0, 1}
Units(key) == Len(key) \div UnitBits
Bits(units) == units * UnitBits
Prefix(key, n) == SubSeq(key, 1, n)
From(key, n) == SubSeq(key, n + 1, Len(key))
Least(a, b) == IF a < b THEN a ELSE b

\* compare_common_bits: how many bits agree, and which key is smaller.
CommonBits(a, b) ==
  LET n == Least(Len(a), Len(b))
      differ == {i \in 1..n : a[i] # b[i]}
  IN  IF differ = {} THEN n ELSE Min(differ) - 1
Comparison(a, b) ==
  LET n == CommonBits(a, b)
  IN  [common |-> n,
       order |-> IF n < Len(a) /\ n < Len(b) THEN (IF a[n + 1] < b[n + 1] THEN -1 ELSE 1)
                 ELSE IF Len(a) < Len(b) THEN -1 ELSE IF Len(a) > Len(b) THEN 1 ELSE 0]
Precedes(a, b) == Comparison(a, b).order < 0
UpTo(a, b) == Comparison(a, b).order <= 0

-----------------------------------------------------------------------------
\* profile_query_context.  units is the length of the key stood at, if known.

Context(query) ==
  [query |-> query, common |-> 0, units |-> 0, known |-> TRUE, order |-> IF query = <<>> THEN 0 ELSE -1]

with_key(context, key) ==
  LET c == Comparison(key, context.query)
  IN  [context EXCEPT !.common = c.common, !.order = c.order, !.units = Units(key), !.known = TRUE]

\* advance_parts, and advance for a literal in one piece: the key keeps retained
\* units of the one before it and goes on with the literal.  If the query parts
\* from that key within the kept prefix, order and agreement stay.
advance(context, retained, literal) ==
  LET kept == Bits(retained)
      c == Comparison(literal, From(context.query, kept))
      stands == [context EXCEPT !.units = retained + Units(literal), !.known = TRUE]
  IN  IF context.common >= kept
      THEN [stands EXCEPT !.common = kept + c.common, !.order = c.order] ELSE stands

\* From a boundary not after the query back to the key before it, which shares
\* lcp bits with the boundary.
predecessor(context, lcp) ==
  LET common == Least(lcp, context.common)
      whole == common = Len(context.query)
  IN  [context EXCEPT !.common = common, !.known = whole, !.units = IF whole THEN Units(context.query) ELSE 0,
                      !.order = IF whole THEN 0 ELSE -1]
=============================================================================
