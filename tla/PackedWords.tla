---------------------------- MODULE PackedWords -----------------------------
(***************************************************************************)
(* Sections of machine words: fields packed across their ends (profile.h,   *)
(* rank_groups.h and elias_fano.h spell the same shifts), sums of lanes      *)
(* within a word, selection of a word's n-th one, and the byte orders        *)
(* word_view.h reads.                                                      *)
(***************************************************************************)
EXTENDS Integers, Sequences, FiniteSets, FiniteSetsExt, SequencesExt

CONSTANT WordBits   \* 64

WordSize == 2 ^ WordBits
words(bits) == (bits + WordBits - 1) \div WordBits
Zeroed(n) == [i \in 1..n |-> 0]
WordAt(section, i) == section[i + 1]

\* A field shifted into its word, and the bits that leave it into the next.
Stored(section, bit, value, width) ==
  LET word == bit \div WordBits + 1
      shift == bit % WordBits
  IN  [i \in DOMAIN section |->
         section[i] + IF i = word THEN (value * 2 ^ shift) % WordSize
                      ELSE IF i = word + 1 /\ shift + width > WordBits THEN value \div 2 ^ (WordBits - shift)
                      ELSE 0]

\* Mutant of Loaded: what lies in the next word is lost.
Loaded_first(section, bit, width) == (WordAt(section, bit \div WordBits) \div 2 ^ (bit % WordBits)) % 2 ^ width

Loaded(section, bit, width) ==
  LET word == bit \div WordBits
      shift == bit % WordBits
      next == IF shift + width > WordBits THEN (WordAt(section, word + 1) * 2 ^ (WordBits - shift)) % WordSize ELSE 0
  IN  (WordAt(section, word) \div 2 ^ shift + next) % 2 ^ width

-----------------------------------------------------------------------------
\* Lanes: adjacent ones added in place, as a mask, a shift and an addition do.
Lane(value, i, width) == (value \div 2 ^ (i * width)) % 2 ^ width
Folded(value, width) ==
  MapThenSumSet(LAMBDA i : (Lane(value, 2 * i, width) + Lane(value, 2 * i + 1, width)) * 2 ^ (2 * i * width),
                0..(WordBits \div (2 * width) - 1)) % WordSize
Repeated(value, width) == MapThenSumSet(LAMBDA i : value * 2 ^ (i * width), 0..(WordBits \div width - 1))

\* A mask of a word's low bits, and its population.
Masked(value, bits) == value % 2 ^ bits
OnesOf(value) == {b \in 0..(WordBits - 1) : Lane(value, b, 1) = 1}
popcount(value) == Cardinality(OnesOf(value))

-----------------------------------------------------------------------------
\* select_word: the byte by its prefix, then the nibble, the pair and the bit.

\* Lanes of 8 bits of a word's bytes' populations, each with those before it.
PrefixesOf(nibbles) == (Folded(nibbles, 4) * Repeated(1, 8)) % WordSize
Halved(s, lower, width) ==
  IF s.ordinal >= lower THEN [shift |-> s.shift + width, ordinal |-> s.ordinal - lower] ELSE s

InByte(prefixes, ordinal, marked) ==
  LET byte == Min({j \in 0..(WordBits \div 8 - 1) : Lane(marked, j, 8) >= 128})
  IN  [shift |-> 8 * byte, ordinal |-> ordinal - (IF byte = 0 THEN 0 ELSE Lane(prefixes, byte - 1, 8))]
InNibble(nibbles, s) == Halved(s, (nibbles \div 2 ^ s.shift) % 16, 4)
InPair(value, s) == Halved(s, Lane(value, s.shift, 1) + Lane(value, s.shift + 1, 1), 2)
InBit(value, s) == s.shift + s.ordinal + (IF Lane(value, s.shift, 1) = 0 THEN 1 ELSE 0)
SelectIn(value, nibbles, prefixes, ordinal) ==
  InBit(value, InPair(value, InNibble(nibbles,
    InByte(prefixes, ordinal, (prefixes + Repeated(128, 8)) - (ordinal + 1) * Repeated(1, 8)))))
SelectBy(value, nibbles, ordinal) == SelectIn(value, nibbles, PrefixesOf(nibbles), ordinal)
select_word(value, ordinal) == SelectBy(value, Folded(Folded(value, 1), 2), ordinal)

-----------------------------------------------------------------------------
\* word_view: eight bytes in the host's order, turned round where the section is
\* little-endian and the host is not.

WordBytes == 8
ByteBits == WordBits \div WordBytes
NativeWord(bytes, host) ==
  MapThenSumSet(LAMBDA i : bytes[i + 1] * 2 ^ (ByteBits * (IF host = "little" THEN i ELSE WordBytes - 1 - i)), 0..(WordBytes - 1))
Swapped(value, width) ==
  MapThenSumSet(LAMBDA i : Lane(value, IF i % 2 = 0 THEN i + 1 ELSE i - 1, width) * 2 ^ (i * width), 0..(WordBits \div width - 1))
ViewedWord(bytes, little, host) ==
  IF little /\ host = "big"
  THEN Swapped(Swapped(Swapped(NativeWord(bytes, host), ByteBits), 2 * ByteBits), 4 * ByteBits)
  ELSE NativeWord(bytes, host)
LittleBytes(value) == [i \in 1..WordBytes |-> Lane(value, i - 1, ByteBits)]

-----------------------------------------------------------------------------
(* A word's n-th one has n ones below it, whichever byte, nibble or pair it ends,
   and a little-endian section reads as written on either host (select_word,
   word_view).  *)
WordsAreExact(value) ==
  /\ \A ordinal \in 0..(popcount(value) - 1) :
       /\ select_word(value, ordinal) \in OnesOf(value)
       /\ Cardinality({b \in OnesOf(value) : b < select_word(value, ordinal)}) = ordinal
  /\ \A host \in {"little", "big"} : ViewedWord(LittleBytes(value), TRUE, host) = value
=============================================================================
