------------------------------ MODULE BitCodes ------------------------------
(***************************************************************************)
(* The bit and byte codes of profile.h: counts in exponential-Golomb code   *)
(* or as base-128 varints, backspaces in either Golomb code.  A word has    *)
(* WordBits bits and a byte ByteBits, so that the largest word and the     *)
(* codes that overflow are within reach.                                   *)
(*                                                                         *)
(* A reader returns [value |-> ..., at |-> the position after the code],   *)
(* or Malformed.                                                           *)
(***************************************************************************)
EXTENDS Integers, Sequences, SequencesExt, FiniteSetsExt

CONSTANTS
  WordBits,           \* of std::uint64_t
  ByteBits,           \* meaningful bits of a varint byte
  BackspaceCode,      \* "exponential_golomb" or "golomb"
  BackspaceParameter  \* shift of the one, modulus of the other

MaxWord == 2^WordBits - 1
Malformed == [value |-> MaxWord, at |-> -1]
IsGood(r) == r.at >= 0

BitWidth(n) == IF n = 0 THEN 0 ELSE Max({w \in 1..(WordBits + 1) : 2^(w - 1) <= n})

\* Fixed-width fields, most significant bit first (put_fixed, read_fixed, load_bits).
Fixed(value, width) == [i \in 1..width |-> (value \div 2^(width - i)) % 2]
Number(bits) == FoldLeft(LAMBDA n, b : 2 * n + b, 0, bits)
read_fixed(data, at, width) ==
  IF width > Len(data) - at THEN Malformed
  ELSE [value |-> Number(SubSeq(data, at + 1, at + width)), at |-> at + width]

Zeros(n) == [i \in 1..n |-> 0]

\* read_zero_run: the zeros before the next one, at most limit.
ZerosUpTo(one, at, limit) == IF one - 1 - at > limit THEN Malformed ELSE [value |-> one - 1 - at, at |-> one]
ZeroRunBefore(ones, at, limit) == IF ones = {} THEN Malformed ELSE ZerosUpTo(Min(ones), at, limit)
read_zero_run(data, at, limit) == ZeroRunBefore({i \in (at + 1)..Len(data) : data[i] = 1}, at, limit)

-----------------------------------------------------------------------------
\* Counts of the bit unit: one more than the value, after as many zeros as it
\* has further bits.  The largest word has no successor and a code of its own.

write_count(value) ==
  LET width == BitWidth(value + 1) IN
  IF value = MaxWord THEN Zeros(WordBits) \o <<1>> \o Zeros(WordBits)
  ELSE Zeros(width - 1) \o Fixed(value + 1, width)

\* Mutant of CountBy: the code of the largest word is read like the others.
CountBy_plain(run, suffix) ==
  IF IsGood(suffix) THEN [value |-> (2^run.value - 1 + suffix.value) % (MaxWord + 1), at |-> suffix.at] ELSE Malformed

\* The count after a run of zeros and the suffix it announces.
CountBy(run, suffix) ==
  IF ~IsGood(suffix) THEN Malformed
  ELSE IF run.value = WordBits
       THEN IF suffix.value # 0 THEN Malformed ELSE [value |-> MaxWord, at |-> suffix.at]
  ELSE [value |-> 2^run.value - 1 + suffix.value, at |-> suffix.at]
CountAfter(data, run) == IF IsGood(run) THEN CountBy(run, read_fixed(data, run.at, run.value)) ELSE Malformed
read_count(data, at) == CountAfter(data, read_zero_run(data, at, WordBits))

\* Counts of the byte unit, as bytes with a continuation flag; read back only in
\* the shortest form and within a word.
Low(value) == value % 2^ByteBits
MaxBytes == (WordBits + ByteBits - 1) \div ByteBits
write_varint(value) ==
  LET n == Max({1} \cup {k \in 1..MaxBytes : value >= 2^(ByteBits * (k - 1))})
  IN  [i \in 1..n |-> [low |-> Low(value \div 2^(ByteBits * (i - 1))), more |-> i < n]]

\* Mutant of VarintOf: a last byte that adds nothing is accepted.
VarintOf_padded(bytes, value) ==
  IF Len(bytes) > MaxBytes \/ value > MaxWord THEN Malformed ELSE [value |-> value, at |-> Len(bytes)]

VarintOf(bytes, value) ==
  IF Len(bytes) > MaxBytes \/ value > MaxWord \/ (Len(bytes) > 1 /\ Last(bytes).low = 0) THEN Malformed
  ELSE [value |-> value, at |-> Len(bytes)]
Varint(bytes) == VarintOf(bytes, FoldRight(LAMBDA b, v : v * 2^ByteBits + b.low, bytes, 0))
read_varint(bytes) ==
  LET ends == {i \in 1..Len(bytes) : ~bytes[i].more}
  IN  IF ends = {} THEN Malformed ELSE Varint(SubSeq(bytes, 1, Min(ends)))

-----------------------------------------------------------------------------
\* Backspaces: a quotient in count code and a remainder of fixed width, or a
\* unary quotient and a truncated binary remainder.

golomb_cutoff == 2^BitWidth(BackspaceParameter - 1) - BackspaceParameter

write_backspace(value) ==
  IF BackspaceCode = "exponential_golomb"
  THEN write_count(value \div 2^BackspaceParameter) \o Fixed(value % 2^BackspaceParameter, BackspaceParameter)
  ELSE LET width == BitWidth(BackspaceParameter - 1)
           remainder == value % BackspaceParameter
       IN  Zeros(value \div BackspaceParameter) \o <<1>>
           \o (IF remainder < golomb_cutoff THEN Fixed(remainder, width - 1)
               ELSE Fixed(remainder + golomb_cutoff, width))

\* backspace_bits: the length of that code, by arithmetic.
backspace_bits(value) ==
  IF BackspaceCode = "exponential_golomb"
  THEN (IF value \div 2^BackspaceParameter = MaxWord THEN 2 * WordBits + 1
        ELSE 2 * BitWidth(value \div 2^BackspaceParameter + 1) - 1) + BackspaceParameter
  ELSE value \div BackspaceParameter + 1 + BitWidth(BackspaceParameter - 1)
       - (IF value % BackspaceParameter < golomb_cutoff THEN 1 ELSE 0)

\* The remainder in the shorter width, or if that is past the cutoff in the longer.
RemainderBy(short, long) ==
  IF ~IsGood(short) THEN Malformed
  ELSE IF short.value < golomb_cutoff THEN short
  ELSE IF ~IsGood(long) THEN Malformed
  ELSE [value |-> long.value - golomb_cutoff, at |-> long.at]
GolombRemainder(data, at, width) ==
  IF width = 0 THEN [value |-> 0, at |-> at]
  ELSE RemainderBy(read_fixed(data, at, width - 1), read_fixed(data, at, width))

Combined(quotient, remainder, scale) ==
  IF ~IsGood(remainder) \/ remainder.value > MaxWord - quotient.value * scale THEN Malformed
  ELSE [value |-> quotient.value * scale + remainder.value, at |-> remainder.at]
ExponentialAfter(data, quotient) ==
  IF ~IsGood(quotient) \/ quotient.value > MaxWord \div 2^BackspaceParameter THEN Malformed
  ELSE Combined(quotient, read_fixed(data, quotient.at, BackspaceParameter), 2^BackspaceParameter)
GolombAfter(data, quotient) ==
  IF ~IsGood(quotient) THEN Malformed
  ELSE Combined(quotient, GolombRemainder(data, quotient.at, BitWidth(BackspaceParameter - 1)), BackspaceParameter)
read_backspace(data, at) ==
  IF BackspaceCode = "exponential_golomb" THEN ExponentialAfter(data, read_count(data, at))
  ELSE GolombAfter(data, read_zero_run(data, at, MaxWord \div BackspaceParameter))

-----------------------------------------------------------------------------
ReadAs(kind, data) ==
  CASE kind = "count" -> read_count(data, 0)
    [] kind = "backspace" -> read_backspace(data, 0)
    [] kind = "varint" -> read_varint(data)
WrittenAs(kind, value) ==
  CASE kind = "count" -> write_count(value)
    [] kind = "backspace" -> write_backspace(value)
    [] kind = "varint" -> write_varint(value)
Codes == {"count", "backspace", "varint"}

VarintBytes == [low : 0..(2^ByteBits - 1), more : BOOLEAN]

(* Every word is read back from its code, from no proper prefix of it, and takes
   the number of bits the writer allows for; and what a reader accepts of any
   string of bits or bytes is the code the writer writes for it: no code has two
   spellings, and none stands for more than a word (write_count, read_count, write_backspace, read_backspace, backspace_bits).  *)
CodesAreUnambiguous(data) ==
  /\ \A kind \in Codes \ {"varint"} : \A r \in {ReadAs(kind, data)} :
       IsGood(r) => /\ WrittenAs(kind, r.value) = SubSeq(data, 1, r.at)
                    /\ kind = "backspace" => backspace_bits(r.value) = r.at
  /\ data = <<>> => \A kind \in Codes : \A value \in 0..MaxWord : \A code \in {WrittenAs(kind, value)} :
       /\ ReadAs(kind, code) = [value |-> value, at |-> Len(code)]
       /\ \A part \in Prefixes(code) \ {code} : ~IsGood(ReadAs(kind, part))
       /\ kind = "backspace" => backspace_bits(value) = Len(code)
  /\ data = <<>> => \A n \in 1..(MaxBytes + 1) : \A bytes \in [1..n -> VarintBytes] : \A r \in {read_varint(bytes)} :
       IsGood(r) => write_varint(r.value) = SubSeq(bytes, 1, r.at)
=============================================================================
