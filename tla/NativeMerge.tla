---------------------------- MODULE NativeMerge -----------------------------
(***************************************************************************)
(* native_merge_builder: two front-coded streams of one history, older and  *)
(* newer, merged into a third without rebuilding a key, unless a tombstone  *)
(* must keep less than its source did.  Each side tracks how much its head  *)
(* shares with the key emitted last.  The output is FrontCoding's stream,   *)
(* and records what was emitted.                                           *)
(***************************************************************************)
EXTENDS FrontCoding

CONSTANTS
  SourceMaps,          \* what a source may hold: functions from keys to values
  SourceLimits(_, _),  \* the limit on kept bits a source's key and value were appended with
  Compose(_, _),       \* of an older and a newer value
  IsTombstone(_)

VARIABLES
  source,   \* each side's view
  head,     \* its ordinal, frame and literal spans
  prefix    \* units its head shares with the key emitted last
mergeVars == <<source, head, prefix>>
Side == {"older", "newer"}

-----------------------------------------------------------------------------
\* encoded_source: the key at hand as spans of the literals it came from.

Begin(spans) == IF spans = <<>> THEN 0 ELSE Last(spans).end

retain(spans, r) ==
  LET kept == SelectSeq(spans, LAMBDA s : s.end <= r.retained)
      cut == IF Len(kept) < Len(spans) /\ Begin(kept) < r.retained
             THEN Append(kept, [spans[Len(kept) + 1] EXCEPT !.end = r.retained]) ELSE kept
  IN  IF r.suffix = <<>> THEN cut ELSE Append(cut, [literal |-> r.suffix, end |-> r.units])

materialize(spans) ==
  FoldLeft(LAMBDA k, s : k \o Prefix(s.literal, Bits(s.end) - Len(k)), <<>>, spans)

compare_successor(spans, r) ==
  LET c == Comparison(From(materialize(spans), Bits(r.retained)), r.suffix)
  IN  [common |-> Bits(r.retained) + c.common, order |-> c.order]

AtEnd == [ordinal |-> -1, record |-> Malformed, spans |-> <<>>]
HeadOf(v) ==
  IF Size(v) = 0 THEN AtEnd
  ELSE [ordinal |-> 0, record |-> encoded_at(v, 0), spans |-> retain(<<>>, encoded_at(v, 0))]
NextHead(v, h) ==
  LET r == next_record(v, h.record, h.ordinal + 1)
  IN  IF h.ordinal + 1 = Size(v) THEN AtEnd
      ELSE [ordinal |-> h.ordinal + 1, record |-> r, spans |-> retain(h.spans, r)]
AdvancedPrefix(v, h) ==
  IF h.ordinal + 1 = Size(v) THEN 0
  ELSE compare_successor(h.spans, next_record(v, h.record, h.ordinal + 1)).common \div UnitBits

-----------------------------------------------------------------------------
\* The builder.

done(s) == head[s] = AtEnd
Sorted(set) == SetToSortSeq(set, Precedes)
SourceStream(map, common) ==
  finish(FoldLeft(LAMBDA w, k : append(w, k, map[k], SourceLimits(k, map[k])), Stream(common), Sorted(DOMAIN map)))

MergeInit ==
  /\ \E older, newer \in SourceMaps :
       source = [s \in Side |-> SourceStream(IF s = "older" THEN older ELSE newer, -1)]
  /\ head = [s \in Side |-> HeadOf(source[s])]
  /\ prefix = [s \in Side |-> 0]
  /\ stream = Stream(-1) /\ records = <<>>

SuffixOf(s) == From(head[s].record.suffix, Bits(prefix[s] - head[s].record.retained))

\* Both heads follow the last key: the one that shares more of it comes first.
compare_heads ==
  LET c == Comparison(SuffixOf("older"), SuffixOf("newer"))
      least == Least(prefix["older"], prefix["newer"])
  IN  CASE done("older") -> [common |-> 0, order |-> 1]
        [] ~done("older") /\ done("newer") -> [common |-> 0, order |-> -1]
        [] ~done("older") /\ ~done("newer") /\ prefix["older"] # prefix["newer"] ->
             [common |-> Bits(least), order |-> IF prefix["older"] > prefix["newer"] THEN -1 ELSE 1]
        [] OTHER -> [common |-> Bits(least) + c.common, order |-> c.order]

Kept(s) == head[s].record.retained

\* Mutant of Keeps: a tombstone keeps all it shares, like any other record.
Keeps_shared(value, retained, limit) == retained

\* A tombstone keeps no more than its sources do.
Keeps(value, retained, limit) == IF IsTombstone(value) THEN Least(retained, limit) ELSE retained

\* One frame, from a side's literal unless it must keep less.
Emit(s, value, retained, limit) ==
  LET keeps == Keeps(value, retained, limit)
      key == materialize(head[s].spans)
      literal == IF keeps < Kept(s) THEN From(key, Bits(keeps))
                 ELSE From(head[s].record.suffix, Bits(keeps - Kept(s)))
  IN  /\ stream' = stored(stream, Prefix(stream.previous, Bits(keeps)) \o literal, value, keeps)
      /\ records' = Append(records, [key |-> key, value |-> value])

Moves(sides) ==
  head' = [s \in Side |-> IF s \in sides THEN NextHead(source[s], head[s]) ELSE head[s]]

Other(s) == IF s = "older" THEN "newer" ELSE "older"
TakeOne(s) ==
  /\ ~done(s) /\ compare_heads.order = IF s = "older" THEN -1 ELSE 1
  /\ Emit(s, head[s].record.value, prefix[s], Kept(s))
  /\ Moves({s})
  /\ prefix' = [t \in Side |-> IF t = s THEN AdvancedPrefix(source[s], head[s])
                               ELSE compare_heads.common \div UnitBits]

TakeBoth ==
  LET donor == IF Kept("newer") < Kept("older") THEN "newer" ELSE "older" IN
  /\ ~done("older") /\ ~done("newer") /\ compare_heads.order = 0
  /\ Emit(donor, Compose(head["older"].record.value, head["newer"].record.value), prefix["older"],
          Least(Kept("older"), Kept("newer")))
  /\ Moves(Side)
  /\ prefix' = [s \in Side |-> AdvancedPrefix(source[s], head[s])]

MergeNext == (TakeBoth \/ \E s \in Side : TakeOne(s)) /\ UNCHANGED source

-----------------------------------------------------------------------------
Held(s) ==
  LET v == source[s]
      keys == Decoded(Records(v, 0, Size(v)), <<>>)
  IN  [k \in {keys[i] : i \in DOMAIN keys} |-> encoded_at(v, (CHOOSE i \in DOMAIN keys : keys[i] = k) - 1)]
Carriers(k) == {s \in Side : k \in DOMAIN Held(s)}
ValueOf(k) ==
  IF Carriers(k) = Side THEN Compose(Held("older")[k].value, Held("newer")[k].value)
  ELSE Held(CHOOSE s \in Carriers(k) : TRUE)[k].value

Emitted == Decoded(Records(view, 0, Size(view)), <<>>)

(* At every step the output spells the first keys of both sources together, in
   order and each once, composed where both have it; no tombstone keeps more of
   the key before it than its sources do, though it follows another key now; and
   the shared prefixes stay what the keys really share with the last key emitted
   (step, compare_heads, encoded_source).  *)
MergeIsExact ==
  LET all == Sorted(DOMAIN Held("older") \cup DOMAIN Held("newer"))
      n == Len(records)
  IN  /\ Emitted = Prefix(all, n) /\ Keys = Emitted
      /\ \A i \in 1..n :
           LET r == encoded_at(view, i - 1) IN
           /\ r.value = ValueOf(all[i])
           /\ IsTombstone(r.value) => \A s \in Carriers(all[i]) : r.retained <= Held(s)[all[i]].retained
      /\ \A s \in Side : ~done(s) =>
           /\ prefix[s] = CommonBits(stream.previous, materialize(head[s].spans)) \div UnitBits
           /\ prefix[s] >= Kept(s)
      /\ done("older") /\ done("newer") <=> n = Len(all)
=============================================================================
