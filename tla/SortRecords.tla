---------------------------- MODULE SortRecords -----------------------------
(***************************************************************************)
(* Streams of typed records (sort_codec.h): each begins with how its sort's *)
(* code in the registry's tree continues the code before it, and goes on    *)
(* with a key and a value in grammars of that sort's own.  Bits are written  *)
(* one by one here, since every grammar must find its own end.             *)
(***************************************************************************)
EXTENDS BitCodes, Keys

CONSTANTS
  Sorts,            \* the registry's leaves
  Path,             \* [Sorts -> bits], its tree: no code begins another
  KeyCodec,         \* [Sorts -> {"fc_bit", "fc_string", "raw_string", "unsigned"}]
  ValueCodec,       \* [Sorts -> {"none", "unsigned", "string", "bit", "tombstone", "niche"}]
  FieldBits,        \* the width of unsigned fields
  Sentinel,         \* the value that a niche keeps for tombstones
  KeysOf, ValuesOf, \* [Sorts -> keys that occur], and values, a niche's never its sentinel
  MaxRecords        \* records written to a stream (a bound of the model)

VARIABLES
  stream,    \* the writer: data_, state_.path, state_.previous
  records    \* history: what was written, with the controls and the state before each
sortVars == <<stream, records>>

Absent == <<"absent">>   \* std::nullopt
NoKey == [sort |-> "none", key |-> <<>>]
Wrong == [value |-> <<>>, at |-> -1]
Got(value, at) == [value |-> value, at |-> at]
Bytes(bits) == Len(bits) \div ByteBits
-----------------------------------------------------------------------------
\* A number of bits, and the bits.
take_bits(data, at, count) ==
  IF ~IsGood(count) \/ count.value > Len(data) - count.at THEN Wrong
  ELSE Got(SubSeq(data, count.at + 1, count.at + count.value), count.at + count.value)

\* Mutant of InBytes: a length in bytes is taken for one in bits.
InBytes_bits(count) == count

InBytes(count) == IF IsGood(count) THEN [count EXCEPT !.value = @ * ByteBits] ELSE count
take_fixed(data, at, width) == take_bits(data, at, [value |-> width, at |-> at])

\* Key grammars.  Keys are the bits of their order: a string's bytes, a number's field.
FrontCoded(codec) == codec \in {"fc_bit", "fc_string"}
write_key(codec, key, previous) ==
  LET retained == CommonBits(previous, key) IN
  CASE FrontCoded(codec) -> write_backspace(Len(previous) - retained) \o write_backspace(Len(key) - retained) \o From(key, retained)
    [] codec = "raw_string" -> write_backspace(Bytes(key)) \o key
    [] codec = "unsigned" -> key

KeyFrame(codec, previous, retained, literal) ==
  IF ~IsGood(literal) \/ (codec = "fc_string" /\ (retained + Len(literal.value)) % ByteBits # 0) THEN Wrong
  ELSE Got(Prefix(previous, retained) \o literal.value, literal.at)
read_frame(codec, data, previous, backspace) ==
  IF ~IsGood(backspace) \/ backspace.value > Len(previous) THEN Wrong
  ELSE KeyFrame(codec, previous, Len(previous) - backspace.value, take_bits(data, backspace.at, read_backspace(data, backspace.at)))
read_key(codec, data, at, previous) ==
  CASE FrontCoded(codec) -> read_frame(codec, data, previous, read_backspace(data, at))
    [] codec = "raw_string" -> take_bits(data, at, InBytes(read_backspace(data, at)))
    [] codec = "unsigned" -> take_fixed(data, at, FieldBits)

\* Value grammars.
write_value(codec, value) ==
  CASE codec = "none" -> <<>>
    [] codec = "unsigned" -> value
    [] codec = "string" -> write_backspace(Bytes(value)) \o value
    [] codec = "bit" -> write_backspace(Len(value)) \o value
    [] codec = "tombstone" -> IF value = Absent THEN <<0>> ELSE <<1>> \o write_backspace(Bytes(value)) \o value
    [] codec = "niche" -> IF value = Absent THEN Sentinel ELSE value
OfNiche(field) == IF field.value = Sentinel THEN [field EXCEPT !.value = Absent] ELSE field
OfFlag(data, flag) ==
  IF ~IsGood(flag) THEN Wrong
  ELSE IF flag.value = <<0>> THEN Got(Absent, flag.at)
  ELSE take_bits(data, flag.at, InBytes(read_backspace(data, flag.at)))
read_value(codec, data, at) ==
  CASE codec = "none" -> Got(<<>>, at)
    [] codec = "unsigned" -> take_fixed(data, at, FieldBits)
    [] codec = "string" -> take_bits(data, at, InBytes(read_backspace(data, at)))
    [] codec = "bit" -> take_bits(data, at, read_backspace(data, at))
    [] codec = "tombstone" -> OfFlag(data, take_fixed(data, at, 1))
    [] codec = "niche" -> OfNiche(take_fixed(data, at, FieldBits))

-----------------------------------------------------------------------------
\* sort_record_writer::append

Control(w, path, key, value, retained) ==
  LET tree == write_count(Len(w.path) - retained) \o From(path, retained)
      start == Len(w.data)
  IN  [start |-> start, sort_retained |-> retained, sort_bits |-> Len(path), key_start |-> start + Len(tree),
       value_start |-> start + Len(tree) + Len(key), end |-> start + Len(tree) + Len(key) + Len(value)]

PreviousOf(w, s) == IF w.previous.sort = s THEN w.previous.key ELSE <<>>

Retained(w, s) == IF w.previous.sort = s THEN Len(w.path) ELSE CommonBits(w.path, Path[s])

\* Records come in the order of their codes, and of their keys within a sort.
Follows(w, s, key) ==
  /\ w.previous # NoKey => UpTo(w.path, Path[s])
  /\ w.previous.sort = s => Precedes(w.previous.key, key)

Written(w, s, key, encoded, value) ==
  [data |-> w.data \o write_count(Len(w.path) - Retained(w, s)) \o From(Path[s], Retained(w, s)) \o encoded \o value,
   path |-> Path[s], previous |-> [sort |-> s, key |-> key]]
append(s, key, value) ==
  /\ Follows(stream, s, key)
  /\ LET encoded == write_key(KeyCodec[s], key, PreviousOf(stream, s))
         bits == write_value(ValueCodec[s], value)
     IN  /\ stream' = Written(stream, s, key, encoded, bits)
         /\ records' = Append(records,
              [sort |-> s, key |-> key, value |-> value, control |-> Control(stream, Path[s], encoded, bits, Retained(stream, s)),
               anchor |-> [path |-> stream.path, previous |-> stream.previous]])

SortInit == stream = [data |-> <<>>, path |-> <<>>, previous |-> NoKey] /\ records = <<>>
SortNext ==
  /\ Len(records) < MaxRecords
  /\ \E s \in Sorts : \E key \in KeysOf[s], value \in ValuesOf[s] : append(s, key, value)

-----------------------------------------------------------------------------
\* sort_record_reader::next, from a state and a place; Stuck when it refuses.

Stuck == [at |-> -1, path |-> <<>>, previous |-> NoKey, record |-> <<>>]

\* prefix_reader and dispatch_sort: retained bits are replayed, then bits are read to a leaf.
Reached(data, at, retained) ==
  {s \in Sorts : \E n \in 0..(Len(data) - at) : Path[s] = retained \o SubSeq(data, at + 1, at + n)}

ReadRecord(r, s, retained, start, keyStart, key, value) ==
  IF \/ ~IsGood(key) \/ ~IsGood(value)
     \/ r.previous # NoKey /\ ~UpTo(r.path, Path[s])
     \/ r.previous.sort = s /\ ~Precedes(r.previous.key, key.value)
  THEN Stuck
  ELSE [at |-> value.at, path |-> Path[s], previous |-> [sort |-> s, key |-> key.value],
        record |-> [sort |-> s, key |-> key.value, value |-> value.value,
                    control |-> [start |-> start, sort_retained |-> retained, sort_bits |-> Len(Path[s]), key_start |-> keyStart,
                                 value_start |-> key.at, end |-> value.at],
                    anchor |-> [path |-> r.path, previous |-> r.previous]]]
WithKey(data, r, s, retained, keyStart, key) ==
  ReadRecord(r, s, retained, r.at, keyStart, key, IF IsGood(key) THEN read_value(ValueCodec[s], data, key.at) ELSE Wrong)
decode(data, r, s, retained, keyStart) ==
  WithKey(data, r, s, retained, keyStart, read_key(KeyCodec[s], data, keyStart, PreviousOf(r, s)))

\* Nothing dropped names the leaf at hand again.
Dispatched(data, r, retained, at) ==
  LET reached == Reached(data, at, Prefix(r.path, retained)) IN
  IF reached = {} THEN Stuck
  ELSE LET s == CHOOSE s \in reached : TRUE IN decode(data, r, s, retained, at + Len(Path[s]) - retained)
AfterBackspace(data, r, backspace) ==
  IF ~IsGood(backspace) \/ backspace.value > Len(r.path) THEN Stuck
  ELSE IF backspace.value = 0 /\ r.previous # NoKey
       THEN decode(data, r, r.previous.sort, Len(r.path), backspace.at)
  ELSE Dispatched(data, r, Len(r.path) - backspace.value, backspace.at)
next(data, r) == AfterBackspace(data, r, read_count(data, r.at))

\* The records read from the i-th one's anchor on.
ReadFrom(data, i, anchor, start) ==
  FoldLeft(LAMBDA rs, n : IF Last(rs).at \in {-1, Len(data)} THEN rs ELSE Append(rs, next(data, Last(rs))),
           <<[at |-> start, path |-> anchor.path, previous |-> anchor.previous, record |-> <<>>]>>,
           [n \in 1..(MaxRecords + 1) |-> n])

-----------------------------------------------------------------------------
\* Ordered spellings: zero bytes escaped and a terminator, or a flag before every
\* bit; what comes before a key's own end is never another key's whole spelling.

ByteAt(key, i) == SubSeq(key, ByteBits * (i - 1) + 1, ByteBits * i)
Ones(n) == [i \in 1..n |-> 1]

EscapedByte(byte) == IF Number(byte) = 0 THEN byte \o Ones(ByteBits) ELSE byte
write_ordered(codec, key) ==
  CASE codec \in {"fc_string", "raw_string"} ->
         FoldLeft(LAMBDA out, i : out \o EscapedByte(ByteAt(key, i)), <<>>, [i \in 1..Bytes(key) |-> i]) \o Zeros(2 * ByteBits)
    [] codec = "fc_bit" -> FoldLeft(LAMBDA out, bit : out \o <<1, bit>>, <<>>, key) \o <<0>>
    [] codec = "unsigned" -> key

Refuses(r) == [r EXCEPT !.at = -1, !.open = FALSE]

\* Mutant of IsEscape: any other byte than a terminator's is taken for an escape.
IsEscape_any(byte) == Len(byte) = ByteBits

\* A zero byte goes on with one spelling of itself.
IsEscape(byte) == byte = Ones(ByteBits)

ReadByte(r, byte, escape) ==
  IF Len(byte) = ByteBits /\ Number(byte) # 0 THEN [r EXCEPT !.key = @ \o byte, !.at = @ + ByteBits]
  ELSE IF escape = Zeros(ByteBits) THEN [r EXCEPT !.at = @ + 2 * ByteBits, !.open = FALSE]
  ELSE IF IsEscape(escape) THEN [r EXCEPT !.key = @ \o byte, !.at = @ + 2 * ByteBits]
  ELSE Refuses(r)
ReadFlag(r, bits) ==
  IF bits # <<>> /\ bits[1] = 0 THEN [r EXCEPT !.at = @ + 1, !.open = FALSE]
  ELSE IF Len(bits) = 2 THEN [r EXCEPT !.key = Append(@, bits[2]), !.at = @ + 2]
  ELSE Refuses(r)
BitsAt(data, at, n) == SubSeq(data, at + 1, Least(at + n, Len(data)))
ReadPart(codec, data, r) ==
  IF codec = "fc_bit" THEN ReadFlag(r, BitsAt(data, r.at, 2))
  ELSE ReadByte(r, BitsAt(data, r.at, ByteBits), BitsAt(data, r.at + ByteBits, ByteBits))
read_ordered(codec, data) ==
  IF codec = "unsigned"
  THEN IF Len(data) < FieldBits THEN Wrong ELSE Got(Prefix(data, FieldBits), FieldBits)
  ELSE LET r == FoldLeft(LAMBDA r, n : IF r.open THEN ReadPart(codec, data, r) ELSE r,
                         [key |-> <<>>, at |-> 0, open |-> TRUE], [n \in 1..(Len(data) + 1) |-> n])
       IN  IF IsGood(r) THEN Got(r.key, r.at) ELSE Wrong

-----------------------------------------------------------------------------
(* A reader that starts at any record with the state kept there reads the rest
   of the stream: every sort by the bits its code adds, every key from what the
   one before it of that sort gives, every value to its own end, with the places
   of all three; and the ordered spellings of keys sort as the keys do, each
   with its own end and the only one of its key, whatever bits are read
   (sort_record_reader::next, read_ordered).  *)
RecordsReadBack ==
  \A i \in 1..(Len(records) + 1) :
    \A rs \in {ReadFrom(stream.data, i, IF i > Len(records) THEN [path |-> stream.path, previous |-> stream.previous]
                                        ELSE records[i].anchor,
                        IF i > Len(records) THEN Len(stream.data) ELSE records[i].control.start)} :
      /\ [n \in 1..(Len(rs) - 1) |-> rs[n + 1].record] = From(records, i - 1)
      /\ Last(rs).path = stream.path /\ Last(rs).previous = stream.previous
OrderedKeysSort ==
  \A s \in Sorts : \A a, b \in KeysOf[s] :
    \A x \in {write_ordered(KeyCodec[s], a)}, y \in {write_ordered(KeyCodec[s], b)} :
      /\ read_ordered(KeyCodec[s], x \o y) = Got(a, Len(x))
      /\ Precedes(a, b) <=> Precedes(x, y)
      /\ a # b => CommonBits(x, y) < Least(Len(x), Len(y))
OrderedKeysHaveOneSpelling ==
  \A s \in Sorts : \A n \in 0..(4 * ByteBits) : \A data \in [1..n -> {0, 1}] :
    \A r \in {read_ordered(KeyCodec[s], data)} :
      IsGood(r) => write_ordered(KeyCodec[s], r.value) = Prefix(data, r.at)
SortedRecordsReadBack ==
  RecordsReadBack /\ (records = <<>> => OrderedKeysSort /\ OrderedKeysHaveOneSpelling)
=============================================================================
