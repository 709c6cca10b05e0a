---------------------------- MODULE RankSections ----------------------------
(***************************************************************************)
(* rank_groups.h and rank15.h: a population for every group of K virtual    *)
(* entries, packed into words, with a checkpoint every so many; and rank.h, *)
(* ranks of single bits by epochs, blocks and runs.                        *)
(***************************************************************************)
EXTENDS PackedWords

CONSTANTS
  ClassBits,     \* groups are of 2^ClassBits - 1 entries
  RunBits,       \* 512
  EpochBlocks    \* 2^21

VARIABLES
  sections,      \* the builder's classes, checkpoints and counts
  populations,   \* history: the populations it accepted
  rank_bits      \* the bits a rank_index is built from
rankVars == <<sections, populations, rank_bits>>

K == 2 ^ ClassBits - 1
\* 128 classes of 64-bit words: a checkpoint comes at a word's start.
CheckpointEvery == 2 * WordBits
-----------------------------------------------------------------------------
\* rank_groups_builder

group_count(count) == count \div K + (IF count % K = 0 THEN 0 ELSE 1)

RankInit ==
  /\ sections = [classes |-> <<>>, checkpoints |-> <<>>, virtual_count |-> 0, groups |-> 0, population |-> 0,
                 partial |-> FALSE, finished |-> FALSE]
  /\ populations = <<>> /\ rank_bits = <<>>

\* A word for the class where it does not fit those there are, and its bits in one or two.
Grown(section, bits) == section \o Zeroed(words(bits) - Len(section))

append(population, width) ==
  /\ ~sections.finished /\ ~sections.partial /\ width \in 1..K /\ population <= width
  /\ LET s == sections
         bit == s.groups * ClassBits
     IN  sections' = [s EXCEPT
           !.classes = Stored(Grown(@, bit + ClassBits), bit, population, ClassBits),
           !.checkpoints = IF s.groups % CheckpointEvery = 0 THEN Append(@, s.population) ELSE @,
           !.virtual_count = @ + width, !.population = @ + population, !.groups = @ + 1, !.partial = width # K]
  /\ populations' = Append(populations, population)
  /\ UNCHANGED rank_bits

finish == ~sections.finished /\ sections' = [sections EXCEPT !.finished = TRUE] /\ UNCHANGED <<populations, rank_bits>>

\* rank_groups::build takes all of them at once.
build ==
  [classes |-> FoldLeft(LAMBDA c, i : Stored(c, (i - 1) * ClassBits, populations[i], ClassBits),
                         Zeroed(words(Len(populations) * ClassBits)), [i \in DOMAIN populations |-> i]),
   checkpoints |-> [c \in 1..((Len(populations) + CheckpointEvery - 1) \div CheckpointEvery) |->
                      FoldLeft(+, 0, SubSeq(populations, 1, (c - 1) * CheckpointEvery))]]

-----------------------------------------------------------------------------
\* rank_groups_view and rank15_view

class_at(s, group) == Loaded(s.classes, group * ClassBits, ClassBits)

\* The words of count classes after a checkpoint, the last one masked.
PrefixWords(s, first, count) ==
  [w \in 1..words(count * ClassBits) |->
     LET remaining == count * ClassBits - (w - 1) * WordBits
     IN  IF remaining < WordBits THEN Masked(WordAt(s.classes, first + w - 1), remaining) ELSE WordAt(s.classes, first + w - 1)]

\* A word's lanes of 8 bits summed in lanes of 16.
sum_bytes(value) == ((Folded(value, 8) * Repeated(1, 16)) % WordSize) \div 2 ^ (WordBits - 16)

\* Mutant of Widened: lanes of 8 bits are kept narrow one word too long.
Widened_late(value) == Folded(value, 2)

\* Classes of 2 bits: lanes of 8 per word, which four words fit.
Widened(value) == Folded(Folded(value, 2), 4)
PairsPrefix(value) == sum_bytes(FoldLeft(LAMBDA pairs, v : (pairs + Widened(v)) % WordSize, 0, value))

\* Classes of 4 bits: eight words fit, where the lanes hold at most 30 of each.
NibblesPrefix(value) == sum_bytes(FoldLeft(LAMBDA pairs, v : (pairs + Folded(v, 4)) % WordSize, 0, value))

\* Other widths: each plane of bits weighted by its place in a field.
Plane(w, plane) == {b \in 0..(WordBits - 1) : (w * WordBits + b) % ClassBits = plane}
PlanesPrefix(value) ==
  FoldLeft(LAMBDA total, w :
             total + MapThenSumSet(LAMBDA p : Cardinality(OnesOf(value[w]) \cap Plane((w - 1) % ClassBits, p)) * 2 ^ p, 0..(ClassBits - 1)),
           0, [w \in DOMAIN value |-> w])

LoopPrefix(s, group) ==
  FoldLeft(LAMBDA total, i : total + class_at(s, group - i), 0, [i \in 1..(group % CheckpointEvery) |-> i])

\* The reduction each width takes.
PrefixOf(s, group, value) ==
  CASE ClassBits = 2 -> PairsPrefix(value) [] ClassBits = 4 -> NibblesPrefix(value)
    [] ClassBits \in {3, 5} -> PlanesPrefix(value) [] OTHER -> LoopPrefix(s, group)
rank(s, group) ==
  WordAt(s.checkpoints, group \div CheckpointEvery)
    + (IF group % CheckpointEvery = 0 THEN 0
       ELSE PrefixOf(s, group, PrefixWords(s, (group \div CheckpointEvery) * 2 * ClassBits, group % CheckpointEvery)))

\* count: the last group's rank and population.
count(s) == IF s.groups = 0 THEN 0 ELSE rank(s, s.groups - 1) + class_at(s, s.groups - 1)

-----------------------------------------------------------------------------
\* rank.h: a directory of bits.

BlockBits == 4 * RunBits
\* Three populations of up to RunBits and spacers that let a multiplication sum them.
LaneBits == CHOOSE n \in 1..RunBits + 2 : 2 ^ (n - 1) <= 3 * RunBits /\ 3 * RunBits < 2 ^ n
NoBits == [blocks |-> <<>>, supers |-> <<>>]
RunPopulation(bits, run) ==
  Cardinality({i \in 1..Len(bits) : (i - 1) \div RunBits = run /\ bits[i] = 1})

\* directory_cursor and build: counts relative to the epoch, an epoch's total when it starts.
Block(bits, d, block, total) ==
  LET base == IF block % EpochBlocks = 0 THEN total ELSE Last(d.supers)
      runs == [r \in 0..2 |-> RunPopulation(bits, 4 * block + r)]
  IN  [blocks |-> Append(d.blocks, [before |-> total - base,
                                    runs |-> runs[0] + runs[1] * 2 ^ LaneBits + runs[2] * 2 ^ (2 * LaneBits)]),
       supers |-> IF block % EpochBlocks = 0 THEN Append(d.supers, base) ELSE d.supers]
rank_index(bits) ==
  FoldLeft(LAMBDA d, block : Block(bits, d, block, FoldLeft(+, 0, SubSeq(bits, 1, block * BlockBits))),
           NoBits, [b \in 1..((Len(bits) + BlockBits - 1) \div BlockBits) |-> b - 1])

run_prefix(packed, run) ==
  ((Masked(packed, LaneBits * run) * (1 + 2 ^ LaneBits + 2 ^ (2 * LaneBits))) \div 2 ^ (2 * LaneBits)) % 2 ^ LaneBits
bit_rank(index, bits, position) ==
  LET block == index.blocks[position \div BlockBits + 1]
      first == (position \div RunBits) * RunBits
  IN  index.supers[position \div (BlockBits * EpochBlocks) + 1] + block.before
        + run_prefix(block.runs, (position \div RunBits) % 4)
        + FoldLeft(+, 0, SubSeq(bits, first + 1, position))
bit_count(index, bits) == IF bits = <<>> THEN 0 ELSE bit_rank(index, bits, Len(bits) - 1) + Last(bits)

-----------------------------------------------------------------------------
TotalOf(counts, n) == FoldLeft(+, 0, SubSeq(counts, 1, n))

(* However its classes lie across words, a group's population reads back and its
   rank is the number of entries before it; packing groups as they come gives the
   sections of a whole build, and every bit's rank is exact across runs, blocks
   and epochs, without a relative count ever reaching an epoch's size
   (rank_groups.h, rank15.h, rank.h).  *)
GroupsAreExact(s) ==
  /\ s.groups = group_count(s.virtual_count) /\ [classes |-> s.classes, checkpoints |-> s.checkpoints] = build
  /\ \A g \in 0..(s.groups - 1) : class_at(s, g) = populations[g + 1] /\ rank(s, g) = TotalOf(populations, g)
  /\ count(s) = s.population
BitsAreExact(index) ==
  /\ \A p \in 0..(Len(rank_bits) - 1) : bit_rank(index, rank_bits, p) = TotalOf(rank_bits, p)
  /\ bit_count(index, rank_bits) = TotalOf(rank_bits, Len(rank_bits))
  /\ \A b \in DOMAIN index.blocks : index.blocks[b].before < BlockBits * EpochBlocks
RanksAreExact == GroupsAreExact(sections) /\ \A index \in {rank_index(rank_bits)} : BitsAreExact(index)
=============================================================================
