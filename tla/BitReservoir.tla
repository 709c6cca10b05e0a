---------------------------- MODULE BitReservoir ----------------------------
(***************************************************************************)
(* sort_bit_reader of sort_codec.h: fields, counts and payloads read from a  *)
(* bit string at any offset through a word of bits loaded ahead, which a     *)
(* field may straddle and a payload may skip past.                         *)
(***************************************************************************)
EXTENDS BitCodes

CONSTANT Inputs     \* bit strings to read

VARIABLES
  input,     \* data_
  offset,    \* data_.offset(): where it begins in its first byte
  reader,    \* at_, reservoir_ and cached_
  answer     \* what the last call returned, and what the stateless reader returns
reservoirVars == <<input, offset, reader, answer>>

NoAnswer == [got |-> 0, wanted |-> 0]
Truncated == [value |-> -1, state |-> [at |-> -1, cached |-> 0, reservoir |-> Zeros(WordBits)]]
Success(value, state) == [value |-> value, state |-> state]
Failed(r) == r.state.at < 0

remaining(s) == Len(input) - s.at

\* refill: to the end of the word that starts with the byte at hand, or of the input.
Loaded(s, cached) ==
  [s EXCEPT !.cached = cached, !.reservoir = SubSeq(input, s.at + 1, s.at + cached) \o Zeros(WordBits - cached)]
refill(s) == Loaded(s, Min({remaining(s), WordBits - ((offset + s.at) % ByteBits)}))
Filled(s) == IF s.cached = 0 THEN refill(s) ELSE s

consume(s, count) ==
  [at |-> s.at + count, cached |-> s.cached - count,
   reservoir |-> SubSeq(s.reservoir, count + 1, WordBits) \o Zeros(count)]

\* Mutant of skip: what was loaded is kept for the bits after the payload.
skip_stale(s, count) ==
  IF count <= s.cached THEN consume(s, count)
  ELSE [s EXCEPT !.at = @ + count, !.cached = Min({@, remaining(s) - count})]

skip(s, count) ==
  IF count <= s.cached THEN consume(s, count)
  ELSE [at |-> s.at + count, cached |-> 0, reservoir |-> Zeros(WordBits)]

Top(s, width) == Number(SubSeq(s.reservoir, 1, width))
SecondFragment(first, s, width) == Success(first * 2 ^ width + Top(s, width), consume(s, width))
FromReservoir(s, width) ==
  IF width <= s.cached THEN Success(Top(s, width), consume(s, width))
  ELSE SecondFragment(Top(s, s.cached), refill(consume(s, s.cached)), width - s.cached)
read_bits(s, width) ==
  IF width > remaining(s) THEN Truncated
  ELSE IF width = 0 THEN Success(0, s)
  ELSE FromReservoir(Filled(s), width)

take_bits(s, count) == IF count > remaining(s) THEN Truncated ELSE Success(count, skip(s, count))

\* read_zero_run: word by word, until one that is not all zeros.
Leading(s) == Cardinality({n \in 1..s.cached : \A i \in 1..n : s.reservoir[i] = 0})
ZeroRunIn(run, s, leading, limit) ==
  IF leading > limit - run.value THEN [run EXCEPT !.ends = "overflow"]
  ELSE IF leading < s.cached THEN [value |-> run.value + leading, state |-> consume(s, leading + 1), ends |-> "one"]
  ELSE [run EXCEPT !.value = @ + leading, !.state = consume(s, leading)]
ZeroRunNext(run, limit) ==
  IF run.ends # "open" THEN run
  ELSE IF remaining(run.state) = 0 THEN [run EXCEPT !.ends = "truncated"]
  ELSE ZeroRunIn(run, Filled(run.state), Leading(Filled(run.state)), limit)
RunEnded(run) == IF run.ends = "one" THEN Success(run.value, run.state) ELSE Truncated
reservoir_zero_run(s, limit) ==
  RunEnded(FoldLeft(LAMBDA run, i : ZeroRunNext(run, limit), [value |-> 0, state |-> s, ends |-> "open"],
                    [i \in 1..(remaining(s) + 1) |-> i]))

\* read_exponential: a short code lies in the word at hand; a longer one is read in parts.
SlowSuffix(zeros, suffix) ==
  IF Failed(suffix) THEN Truncated
  ELSE IF zeros = WordBits THEN IF suffix.value # 0 THEN Truncated ELSE Success(MaxWord, suffix.state)
  ELSE Success(2 ^ zeros - 1 + suffix.value, suffix.state)
SlowAfter(run) == IF Failed(run) THEN Truncated ELSE SlowSuffix(run.value, read_bits(run.state, run.value))
ReadExponential(s, zeros) ==
  IF zeros < WordBits \div 2 /\ 2 * zeros + 1 <= s.cached
  THEN Success(Top(s, 2 * zeros + 1) - 1, consume(s, 2 * zeros + 1))
  ELSE SlowAfter(reservoir_zero_run(s, WordBits))
LeadingZeros(s) == Cardinality({n \in 1..WordBits : \A i \in 1..n : s.reservoir[i] = 0})
ReadFilled(s) == ReadExponential(s, LeadingZeros(s))
read_exponential(s) == ReadFilled(IF remaining(s) # 0 THEN Filled(s) ELSE s)

Scaled(quotient, remainder, scale) ==
  IF Failed(remainder) \/ remainder.value > MaxWord - quotient * scale THEN Truncated
  ELSE Success(quotient * scale + remainder.value, remainder.state)
LongRemainder(short, last) ==
  IF Failed(last) THEN Truncated ELSE Success(2 * short + last.value - golomb_cutoff, last.state)
RemainderAfter(short) ==
  IF Failed(short) THEN Truncated
  ELSE IF short.value < golomb_cutoff THEN short ELSE LongRemainder(short.value, read_bits(short.state, 1))
Remainder(s) ==
  IF BackspaceParameter = 1 THEN Success(0, s) ELSE RemainderAfter(read_bits(s, BitWidth(BackspaceParameter - 1) - 1))
CountFrom(quotient) ==
  IF Failed(quotient) THEN Truncated
  ELSE IF BackspaceCode = "golomb" THEN Scaled(quotient.value, Remainder(quotient.state), BackspaceParameter)
  ELSE IF quotient.value > MaxWord \div 2 ^ BackspaceParameter THEN Truncated
  ELSE Scaled(quotient.value, read_bits(quotient.state, BackspaceParameter), 2 ^ BackspaceParameter)
reservoir_count(s) ==
  CountFrom(IF BackspaceCode = "golomb" THEN reservoir_zero_run(s, MaxWord \div BackspaceParameter) ELSE read_exponential(s))

-----------------------------------------------------------------------------
ReservoirInit ==
  /\ input \in Inputs /\ offset \in 0..(ByteBits - 1)
  /\ reader = [at |-> 0, reservoir |-> Zeros(WordBits), cached |-> 0] /\ answer = NoAnswer

\* A call's outcome against the stateless reader's; a failed reader is not used again.
Answers(r, wanted) ==
  /\ answer' = [got |-> IF Failed(r) THEN Malformed ELSE [value |-> r.value, at |-> r.state.at],
                wanted |-> IF IsGood(wanted) THEN wanted ELSE Malformed]
  /\ reader' = IF Failed(r) THEN [reader EXCEPT !.at = Len(input), !.cached = 0, !.reservoir = Zeros(WordBits)] ELSE r.state
  /\ UNCHANGED <<input, offset>>
Field == \E width \in 1..WordBits : Answers(read_bits(reader, width), read_fixed(input, reader.at, width))
Payload ==
  \E count \in 0..(WordBits + 2) :
    Answers(take_bits(reader, count),
            IF count > Len(input) - reader.at THEN Malformed ELSE [value |-> count, at |-> reader.at + count])
Count == Answers(reservoir_count(reader), read_backspace(input, reader.at))
ReservoirNext == reader.at < Len(input) /\ (Field \/ Payload \/ Count)

(* However reads, counts and skips follow each other, the word loaded ahead holds
   the input's next bits and nothing after them, and every call returns what
   reading the input directly would, or fails when that fails (read_bits,
   take_bits, read_count, read_exponential's shortcut).  *)
ReservoirIsExact ==
  /\ reader.reservoir = SubSeq(input, reader.at + 1, reader.at + reader.cached) \o Zeros(WordBits - reader.cached)
  /\ answer.got = answer.wanted
=============================================================================
