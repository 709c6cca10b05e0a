----------------------------- MODULE EliasFano ------------------------------
(***************************************************************************)
(* elias_fano.h: a nondecreasing sequence as packed low bits and a bit for   *)
(* every value's high part, found through a sample of every 256th one: from  *)
(* it by scanning words where 256 ones lie close together, and by a list of  *)
(* positions where they do not.  A cursor keeps the rest of its word.        *)
(***************************************************************************)
EXTENDS PackedWords

CONSTANTS
  SampleEvery,   \* 256
  DenseBits,     \* 4096, a whole number of words
  Values,        \* values that occur
  MaxValues      \* the longest sequence (a bound of the model)

VARIABLES
  residuals,     \* the sequence
  cursor         \* a cursor over it, or NoCursor
eliasVars == <<residuals, cursor>>

NoCursor == [given |-> <<>>]
Dense == -1      \* a sample without a list of positions
-----------------------------------------------------------------------------
\* build

LowWidth(universe, size) ==
  IF universe \div size = 0 THEN 0 ELSE CHOOSE n \in 0..WordBits : 2 ^ n <= universe \div size /\ universe \div size < 2 ^ (n + 1)

\* Fields return to a word's start after as many as a tile takes: each word of a
\* complete tile is gathered from the fields that reach it, the rest field by field.
TileSize(width) == Min({n \in 1..WordBits : (n * width) % WordBits = 0})
low_component(value, first, bit) ==
  IF bit < first THEN value \div 2 ^ (first - bit) ELSE (value * 2 ^ (bit - first)) % WordSize
low_word(tile, o, width) ==
  MapThenSumSet(LAMBDA i : low_component(Masked(tile[i + 1], width), o * WordBits, i * width),
                ((o * WordBits) \div width)..((o * WordBits + WordBits - 1) \div width))
low_tile(tile, width) == [o \in 1..words(Len(tile) * width) |-> low_word(tile, o - 1, width)]
LowTail(rest, width) ==
  FoldLeft(LAMBDA low, i : Stored(low, (i - 1) * width, Masked(rest[i], width), width),
           Zeroed(words(Len(rest) * width)), [i \in DOMAIN rest |-> i])
pack_low(sequence, width) ==
  LET inputs == TileSize(width)
      tiles == Len(sequence) \div inputs
  IN  IF width = 0 THEN <<>>
      ELSE FoldLeft(LAMBDA low, t : low \o low_tile(SubSeq(sequence, (t - 1) * inputs + 1, t * inputs), width),
                    <<>>, [t \in 1..tiles |-> t])
             \o LowTail(SubSeq(sequence, tiles * inputs + 1, Len(sequence)), width)

Position(sequence, width, i) == sequence[i + 1] \div 2 ^ width + i

\* Words gathered until the next position lies in another.
write_high(sequence, width, size) ==
  LET positions == {Position(sequence, width, i) : i \in 0..(Len(sequence) - 1)}
  IN  [w \in 1..size |-> MapThenSumSet(LAMBDA p : 2 ^ (p % WordBits), {p \in positions : p \div WordBits = w - 1})]

\* Mutant of IsSparse: a group that fills the span exactly is scanned.
IsSparse_wide(first, last) == last - first > DenseBits

IsSparse(first, last) == last - first >= DenseBits

\* The samples, and positions where a group's ones lie too far apart.
Directory(sequence, width) ==
  FoldLeft(LAMBDA d, begin :
             LET end == Min({begin + SampleEvery, Len(sequence)})
                 first == Position(sequence, width, begin)
             IN  IF IsSparse(first, Position(sequence, width, end - 1))
                 THEN [samples |-> Append(d.samples, [first |-> first, sparse |-> Len(d.sparse)]),
                       sparse |-> d.sparse \o [i \in 1..(end - begin) |-> Position(sequence, width, begin + i - 1)]]
                 ELSE [d EXCEPT !.samples = Append(@, [first |-> first, sparse |-> Dense])],
           [samples |-> <<>>, sparse |-> <<>>],
           [g \in 1..((Len(sequence) + SampleEvery - 1) \div SampleEvery) |-> (g - 1) * SampleEvery])

Sections(sequence, universe, width) ==
  [low |-> pack_low(sequence, width),
   high |-> write_high(sequence, width, words(universe \div 2 ^ width + Len(sequence))),
   directory |-> Directory(sequence, width), entry_count |-> Len(sequence), universe |-> universe,
   high_bits |-> universe \div 2 ^ width + Len(sequence), low_width |-> width]
build(sequence) ==
  IF sequence = <<>>
  THEN [low |-> <<>>, high |-> <<>>, directory |-> [samples |-> <<>>, sparse |-> <<>>],
        entry_count |-> 0, universe |-> 0, high_bits |-> 0, low_width |-> 0]
  ELSE Sections(sequence, Last(sequence), LowWidth(Last(sequence), Len(sequence)))

-----------------------------------------------------------------------------
\* elias_fano_view: values, or Invalid for what the view refuses.

Invalid == -1
SampleOf(ef, ordinal) == ef.directory.samples[ordinal \div SampleEvery + 1]

\* The position of a group's listed one.
Listed(ef, sample, remaining) ==
  IF remaining >= Len(ef.directory.sparse) - sample.sparse THEN Invalid ELSE ef.directory.sparse[sample.sparse + remaining + 1]

\* From the first one of the group on: the words it may span, by their populations.
FromBit(value, bit) == value - Masked(value, bit)
Scanned(ef, sample, remaining) ==
  FoldLeft(LAMBDA s, w :
             LET value == IF s.scanned = 0 THEN FromBit(WordAt(ef.high, w), sample.first % WordBits) ELSE WordAt(ef.high, w)
             IN  IF s.position # Invalid THEN s
                 ELSE IF s.remaining < popcount(value) THEN [s EXCEPT !.position = w * WordBits + select_word(value, s.remaining)]
                 ELSE [s EXCEPT !.remaining = @ - popcount(value), !.scanned = @ + 1],
           [position |-> Invalid, remaining |-> remaining, scanned |-> 0],
           [i \in 1..Min({DenseBits \div WordBits + 1, Len(ef.high) - sample.first \div WordBits}) |->
              sample.first \div WordBits + i - 1]).position

select_high(ef, sample, remaining) ==
  IF sample.sparse # Dense THEN Listed(ef, sample, remaining)
  ELSE IF sample.first >= ef.high_bits THEN Invalid
  ELSE Scanned(ef, sample, remaining)

\* A listed position must be a one, and a scanned one near its sample.
Checked(ef, sample, position) ==
  IF \/ position = Invalid \/ position >= ef.high_bits
     \/ sample.sparse # Dense /\ Lane(WordAt(ef.high, position \div WordBits), position % WordBits, 1) = 0
     \/ sample.sparse = Dense /\ position - sample.first >= DenseBits
  THEN Invalid ELSE position

decode(ef, ordinal, position) ==
  LET hi == position - ordinal
      value == hi * 2 ^ ef.low_width
                 + (IF ef.low_width = 0 THEN 0 ELSE Loaded(ef.low, ordinal * ef.low_width, ef.low_width))
  IN  IF position < ordinal \/ hi > ef.universe \div 2 ^ ef.low_width \/ value > ef.universe THEN Invalid ELSE value

select(ef, ordinal) ==
  decode(ef, ordinal, Checked(ef, SampleOf(ef, ordinal), select_high(ef, SampleOf(ef, ordinal), ordinal % SampleEvery)))

-----------------------------------------------------------------------------
\* elias_fano_cursor: the sample of its group, its word and the ones left in it.

NoSample == [first |-> 0, sparse |-> Dense]
EntersGroup(ef, c) ==
  IF c.ordinal % SampleEvery # 0 THEN c
  ELSE [c EXCEPT !.sample = SampleOf(ef, c.ordinal),
                 !.word = IF SampleOf(ef, c.ordinal).sparse = Dense THEN SampleOf(ef, c.ordinal).first \div WordBits ELSE @,
                 !.remaining = IF SampleOf(ef, c.ordinal).sparse = Dense
                               THEN FromBit(WordAt(ef.high, SampleOf(ef, c.ordinal).first \div WordBits),
                                            SampleOf(ef, c.ordinal).first % WordBits)
                               ELSE @]

\* A start inside a dense group selects once.
StartedAt(ef, c, position) ==
  [c EXCEPT !.word = position \div WordBits, !.remaining = FromBit(WordAt(ef.high, position \div WordBits), position % WordBits)]
Started(ef, c) ==
  IF c.sample.sparse # Dense THEN c ELSE StartedAt(ef, c, select_high(ef, c.sample, c.ordinal % SampleEvery))
CursorAt(ef, ordinal) ==
  IF ordinal = ef.entry_count \/ ordinal % SampleEvery = 0
  THEN [ordinal |-> ordinal, sample |-> NoSample, word |-> 0, remaining |-> 0]
  ELSE Started(ef, [ordinal |-> ordinal, sample |-> SampleOf(ef, ordinal), word |-> 0, remaining |-> 0])

\* The first word with a one left, within the span.
NextWord(ef, c) ==
  IF c.remaining # 0 THEN c
  ELSE LET ahead == {w \in (c.word + 1)..(Len(ef.high) - 1) :
                       w - c.sample.first \div WordBits < DenseBits \div WordBits + 1 /\ WordAt(ef.high, w) # 0}
       IN  IF ahead = {} THEN c ELSE [c EXCEPT !.word = Min(ahead), !.remaining = WordAt(ef.high, Min(ahead))]
LowestOne(value) == Min(OnesOf(value))
CursorPosition(ef, c) ==
  IF c.sample.sparse # Dense THEN Listed(ef, c.sample, c.ordinal % SampleEvery)
  ELSE IF c.remaining = 0 THEN Invalid ELSE c.word * WordBits + LowestOne(c.remaining)

\* The value at hand, and the cursor after it.
Given(ef, c) == decode(ef, c.ordinal, Checked(ef, c.sample, CursorPosition(ef, c)))
Passed(c) ==
  [c EXCEPT !.ordinal = @ + 1, !.remaining = IF @ = 0 THEN 0 ELSE @ - 2 ^ LowestOne(@)]
Ready(ef, c) == NextWord(ef, EntersGroup(ef, c))

-----------------------------------------------------------------------------
EliasInit == residuals = <<>> /\ cursor = NoCursor

Extend ==
  /\ cursor = NoCursor /\ Len(residuals) < MaxValues
  /\ \E v \in Values : (residuals # <<>> => v >= Last(residuals)) /\ residuals' = Append(residuals, v)
  /\ UNCHANGED cursor
Start ==
  /\ cursor = NoCursor
  /\ \E ordinal \in 0..Len(residuals) : cursor' = [at |-> CursorAt(build(residuals), ordinal), given |-> <<>>]
  /\ UNCHANGED residuals
Advance ==
  /\ cursor # NoCursor /\ cursor.at.ordinal < Len(residuals)
  /\ \E ef \in {build(residuals)} : \E c \in {Ready(ef, cursor.at)} :
       cursor' = [at |-> Passed(c), given |-> <<Given(ef, c)>>]
  /\ UNCHANGED residuals
EliasNext == Extend \/ Start \/ Advance

-----------------------------------------------------------------------------
(* Whatever the spacing of its values, a built sequence gives each one back by
   its ordinal, and a cursor started anywhere gives the same, one after another
   across words, samples and listed groups; no check of the view refuses what
   build has written (elias_fano_view::select, elias_fano_cursor::next).  *)
SelectsAreExact ==
  /\ cursor = NoCursor =>
       \A ef \in {build(residuals)} : \A i \in 0..(Len(residuals) - 1) : select(ef, i) = residuals[i + 1]
  /\ cursor.given # <<>> => cursor.given = <<residuals[cursor.at.ordinal]>>
=============================================================================
