---------------------------- MODULE FrontCoding -----------------------------
(***************************************************************************)
(* Front-coded streams of records (profile.h, native_writer.h): a writer    *)
(* that appends one frame per key, and the reader's ways through a finished *)
(* stream: by ordinal, by sequential cursors, and by windows that compare   *)
(* every key with a query without rebuilding it.                           *)
(*                                                                         *)
(* A frame holds how its key continues the one before it: the first frame   *)
(* of a block names the units it keeps, any other the units it drops.  How *)
(* controls are spelled is BitCodes' subject; here they only have a length. *)
(***************************************************************************)
EXTENDS Keys, FiniteSets

CONSTANTS
  BlockSize,       \* P::codec_block_size
  GroupSize,       \* P::group_size, the longest window
  CodeUnits(_),    \* units a count or a backspace takes
  RestartFactor,   \* of profile_array::build; 0 never restarts
  AllKeys,         \* keys records and queries have
  Values,          \* values records have
  Limits,          \* limits on kept bits a caller may set
  MaxRecords       \* records appended to a stream (a bound of the model)

VARIABLES
  stream,    \* the writer's state
  records    \* what was appended (history)
streamVars == <<stream, records>>

\* The frame at a place where none starts.
NoFrame == [at |-> -1, control |-> 0, suffix |-> <<>>, value |-> <<>>]
Malformed == [retained |-> 0, units |-> 0, suffix |-> <<>>, value |-> <<>>, next |-> -1]

\* A stream whose values have the width common, or widths of their own if common is -1.
Stream(common) ==
  [frames |-> <<>>, offsets |-> <<>>, common |-> common, extent |-> 0, previous |-> <<>>, anchor |-> 0]
Stride(w, count) == IF w.common < 0 THEN 0 ELSE count * w.common
StartsBlock(count) == count % BlockSize = 0

FrameUnits(w, frame) ==
  CodeUnits(frame.control) + CodeUnits(Units(frame.suffix)) + Units(frame.suffix) + Units(frame.value)
  + IF w.common < 0 THEN CodeUnits(Units(frame.value)) ELSE 0

\* Mutant of stored: a block's first frame drops units like the others.
stored_relative(w, key, value, retained) ==
  LET n == Len(w.frames)
      frame == [at |-> w.extent, control |-> Units(w.previous) - retained,
                suffix |-> From(key, Bits(retained)), value |-> value]
  IN  [w EXCEPT !.frames = Append(@, frame),
                     !.offsets = IF StartsBlock(n) THEN Append(@, w.extent - Stride(w, n)) ELSE @,
                     !.extent = @ + FrameUnits(w, frame), !.previous = key]

\* native_output::append, append_known and the loop of build: one frame.  Block
\* starts are remembered less what fixed-width values would take.
stored(w, key, value, retained) ==
  LET n == Len(w.frames)
      frame == [at |-> w.extent,
                control |-> IF StartsBlock(n) THEN retained ELSE Units(w.previous) - retained,
                suffix |-> From(key, Bits(retained)), value |-> value]
  IN  [w EXCEPT !.frames = Append(@, frame),
                     !.offsets = IF StartsBlock(n) THEN Append(@, w.extent - Stride(w, n)) ELSE @,
                     !.extent = @ + FrameUnits(w, frame), !.previous = key]

\* append: at most limit bits are kept, whatever is shared.
Retained(w, key, limit) == Least(CommonBits(w.previous, key), limit) \div UnitBits
append(w, key, value, limit) == stored(w, key, value, Retained(w, key, limit))

\* append_known: the LCP is told, and whole units below a ceiling are kept.
append_known(w, key, common, ceiling) == stored(w, key, <<>>, Least(common \div UnitBits, ceiling))
append_borrowed(w, key, value, ceiling) == append_known(w, key, CommonBits(w.previous, key), ceiling)

\* build: a literal key whenever the last one is too far behind.
build_next(w, key, value, limit) ==
  LET shared == Retained(w, key, limit)
      restarts == shared > 0 /\ RestartFactor > 0 /\ w.extent - w.anchor > RestartFactor * Units(key)
      retained == IF restarts THEN 0 ELSE shared
  IN  [stored(w, key, value, retained) EXCEPT !.anchor = IF retained = 0 THEN w.extent ELSE @]

finish(w) ==
  [w EXCEPT !.offsets = Append(@, w.extent - Stride(w, Len(w.frames)))]

-----------------------------------------------------------------------------
\* Reading a finished stream.  Places are units from its start.

Size(v) == Len(v.frames)
block_count(v) == (Size(v) + BlockSize - 1) \div BlockSize
block_offset(v, block) ==
  v.offsets[block + 1] + Stride(v, IF block = block_count(v) THEN Size(v) ELSE block * BlockSize)

FrameAt(v, at) ==
  LET here == {i \in DOMAIN v.frames : v.frames[i].at = at}
  IN  IF here = {} THEN NoFrame ELSE v.frames[Min(here)]

parse_payload(v, at, retained) ==
  LET f == FrameAt(v, at) IN
  IF f = NoFrame \/ retained < 0 THEN Malformed
  ELSE [retained |-> retained, units |-> retained + Units(f.suffix), suffix |-> f.suffix, value |-> f.value,
        next |-> at + FrameUnits(v, f)]

\* Every unit kept appeared in an earlier literal.
parse_absolute(v, at) ==
  LET f == FrameAt(v, at) IN IF f.control > at THEN Malformed ELSE parse_payload(v, at, f.control)
parse_relative(v, at, previous) ==
  LET f == FrameAt(v, at) IN
  IF f.control > previous THEN Malformed ELSE parse_payload(v, at, previous - f.control)

next_record(v, record, ordinal) ==
  IF ~StartsBlock(ordinal) THEN parse_relative(v, record.next, record.units)
  ELSE LET r == parse_absolute(v, record.next)
       IN  IF block_offset(v, ordinal \div BlockSize) # record.next \/ r.retained > record.units
           THEN Malformed ELSE r

\* locate and encoded_at: the controls of one block are replayed.
encoded_at(v, ordinal) ==
  LET block == ordinal \div BlockSize
      first == parse_absolute(v, block_offset(v, block))
  IN  FoldLeft(LAMBDA r, i : parse_relative(v, r.next, r.units), first,
               [i \in 1..(ordinal - block * BlockSize) |-> i])

predecessor_units(v, ordinal) ==
  CASE ordinal = 0 -> 0
    [] ordinal = Size(v) -> Units(v.previous)
    [] OTHER -> encoded_at(v, ordinal - 1).units

\* A traversal in frames: visit_all's, and the encoded cursor's.
Records(v, first, last) ==
  IF first = last THEN <<>>
  ELSE FoldLeft(LAMBDA rs, i : Append(rs, next_record(v, Last(rs), i)), <<encoded_at(v, first)>>,
                [j \in 1..(last - first - 1) |-> first + j])

\* decode_into: the key in hand becomes the frame's.
decode_into(record, key) == Prefix(key, Bits(record.retained)) \o record.suffix

\* The keys of a traversal that holds key before its first frame.
Decoded(sequence, key) ==
  FoldLeft(LAMBDA ks, r : Append(ks, decode_into(r, IF ks = <<>> THEN key ELSE Last(ks))), <<>>, sequence)

\* reconstruct_at: backwards, from each frame the part of the prefix it spells.
reconstruct_at(v, ordinal, limit) ==
  LET record == encoded_at(v, ordinal)
      want == Least(record.units, limit)
      Take(s, i) ==
        LET r == encoded_at(v, i)
        IN  IF r.retained >= s.need THEN s
            ELSE [key |-> Prefix(r.suffix, Bits(s.need - r.retained)) \o s.key, need |-> r.retained]
  IN  FoldLeft(LAMBDA s, j : Take(s, ordinal - j), [key |-> <<>>, need |-> want], [j \in 1..(ordinal + 1) |-> j - 1]).key

\* compare_window: the contexts its callback sees.
compare_window(v, first, last, context) ==
  Tail(FoldLeft(LAMBDA cs, r : Append(cs, advance(Last(cs), r.retained, r.suffix)), <<context>>,
                Records(v, first, last)))

\* advance_comparison of the key cursor: the first unit past the kept prefix
\* decides, if it differs.
advance_comparison(key, record) ==
  LET kept == Bits(record.retained)
      rest == From(key, kept)
      unit == CommonBits(Prefix(rest, UnitBits), Prefix(record.suffix, UnitBits))
      c == Comparison(rest, record.suffix)
  IN  CASE rest = <<>> \/ record.suffix = <<>> ->
             [common |-> kept, order |-> IF rest # <<>> THEN 1 ELSE IF record.suffix = <<>> THEN 0 ELSE -1]
        [] rest # <<>> /\ record.suffix # <<>> /\ unit < UnitBits ->
             [common |-> kept + unit, order |-> IF rest[unit + 1] < record.suffix[unit + 1] THEN -1 ELSE 1]
        [] OTHER -> [common |-> kept + c.common, order |-> c.order]

\* A cursor set up at a query's lower bound borrows the kept prefix from the query.
cursor_at(v, ordinal, query) ==
  Decoded(Records(v, ordinal, Size(v)), query)

-----------------------------------------------------------------------------
\* A writer at work: strict for natives, while build and borrowed streams take
\* a key again.
Appends(key, value, appended) ==
  /\ stream.common >= 0 => Units(value) = stream.common
  /\ stream' = appended
  /\ records' = Append(records, [key |-> key, value |-> value])

StreamInit == stream \in {Stream(c) : c \in {-1} \cup {Units(v) : v \in Values}} /\ records = <<>>
StreamNext ==
  /\ Len(records) < MaxRecords
  /\ \E key \in AllKeys, value \in Values, limit \in Limits :
       LET first == stream.frames = <<>> IN
       \/ /\ first \/ Precedes(stream.previous, key)
          /\ Appends(key, value, append(stream, key, value, limit))
       \/ /\ first \/ UpTo(stream.previous, key)
          /\ Appends(key, value, build_next(stream, key, value, limit))
       \/ /\ stream.common = 0 /\ (first \/ UpTo(stream.previous, key))
          /\ Appends(key, value, append_borrowed(stream, key, value, limit))

view == finish(stream)
KeyOf(i) == records[i].key
Keys == [i \in DOMAIN records |-> KeyOf(i)]

FoundByOrdinal ==
  LET all == Records(view, 0, Size(view)) IN
  /\ Decoded(all, <<>>) = Keys
  /\ \A i \in DOMAIN records :
       /\ all[i] = encoded_at(view, i - 1) /\ all[i].value = records[i].value
       /\ predecessor_units(view, i) = Units(KeyOf(i))
       /\ \A n \in 0..Units(KeyOf(i)) : reconstruct_at(view, i - 1, n) = Prefix(KeyOf(i), Bits(n))
       /\ i > 1 => advance_comparison(KeyOf(i - 1), all[i]) = Comparison(KeyOf(i - 1), KeyOf(i))

\* The keys at which a window may start: from the key before it to its first.
Boundary(key, first) ==
  /\ first > 0 => UpTo(KeyOf(first), key)
  /\ first < Len(records) => UpTo(key, KeyOf(first + 1))
FoundByQuery(query) ==
  LET below == Cardinality({i \in DOMAIN records : Precedes(KeyOf(i), query)}) IN
  /\ cursor_at(view, below, query) = From(Keys, below)
  /\ \A first \in 0..Len(records) : \A key \in {k \in AllKeys : Boundary(k, first) /\ UpTo(k, query)} :
       LET lower == with_key(Context(query), key)
           last == Least(Len(records), first + GroupSize)
           back == predecessor(lower, CommonBits(KeyOf(first), key))
       IN  /\ compare_window(view, first, last, lower)
                = [i \in 1..(last - first) |-> with_key(lower, KeyOf(first + i))]
           /\ first > 0 => /\ [common |-> back.common, order |-> back.order] = Comparison(KeyOf(first), query)
                           /\ back.known => back.units = Units(KeyOf(first))

(* Whatever was kept, dropped or restarted, a finished stream gives back every
   record by its place and in sequence, any prefix of a key, and the order of
   neighbours; and a search that knows only how the query compares with some key
   at the window's edge learns of every key in the window, and of the one before
   it, exactly what comparing the whole keys would tell (encoded_at, the cursors,
   reconstruct_at, compare_window, predecessor).  *)
StreamDenotesTheRecords == FoundByOrdinal /\ \A query \in AllKeys : FoundByQuery(query)
=============================================================================
