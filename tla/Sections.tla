------------------------------ MODULE Sections ------------------------------
(***************************************************************************)
(* Profiles as files (sections.h, cola_sections.h, file.h): a header, a     *)
(* directory and the sections it places, written from finished streams, and  *)
(* what opening and scanning check before a file's bytes are believed.      *)
(*                                                                         *)
(* A file is of one of three formats: "native", "index" with one borrowed    *)
(* stream and where it interleaves with the natives, "cola" with two, its    *)
(* routes to a main and a secondary target.  A byte of the model is a number *)
(* below ByteValues, a word is two of them, and every count is one byte.     *)
(* Checksums tell all contents apart.                                      *)
(***************************************************************************)
EXTENDS FrontCoding

CONSTANTS
  WordBits,      \* of two bytes
  SampleEvery,   \* 256
  DenseBits,     \* 4096
  ClassBits,     \* groups are of GroupSize = 2^ClassBits - 1 entries
  PolicyWidth,   \* the width that native values of a fixed policy have
  Natives        \* how many native entries an index may have beside the borrowed

EF == INSTANCE EliasFano WITH Values <- {}, MaxValues <- 0, residuals <- records, cursor <- stream
Ranks(populations) == INSTANCE RankSections WITH RunBits <- 1, EpochBlocks <- 1, sections <- stream, rank_bits <- records

WordBytes == 2
ByteBits == WordBits \div WordBytes
ByteValues == 2 ^ ByteBits
Unknown == -1    \* no common or no policy width
Widest == 2 ^ WordBits - 1
ceiling(n, d) == (n + d - 1) \div d
align(n) == ceiling(n, WordBytes) * WordBytes
DirectoryBytes(format) == CASE format = "native" -> WordBytes [] format = "index" -> 2 * WordBytes [] format = "cola" -> 3 * WordBytes
SectionCount(format) == CASE format = "native" -> 5 [] format = "index" -> 9 [] format = "cola" -> 18
KindOf(format) == IF format = "native" THEN "native" ELSE "index"
Routes(format) == IF format = "cola" THEN {1, 2} ELSE {1}

\* Where a route's stream, and its navigation, have their sections.
profile_slot(route, n) == 5 * (route - 1) + n
rank_slot(format, route) == IF format = "cola" THEN 9 + 2 * route ELSE 6
flags_slot(format, route) == IF format = "cola" THEN 14 + route ELSE 8
cuts_slot(format, route) == IF format = "cola" THEN 16 + route ELSE 9
HeaderBytes == 6 * WordBytes
Concatenated(parts) == FoldLeft(LAMBDA all, p : all \o p, <<>>, parts)
Zeros(n) == [i \in 1..n |-> 0]
-----------------------------------------------------------------------------
\* encoded_sections

Words(values) == Concatenated([i \in DOMAIN values |-> <<values[i] % ByteValues, values[i] \div ByteValues>>])
Spelled(w, f) ==
  <<f.control, Units(f.suffix)>> \o (IF w.common < 0 THEN <<Units(f.value)>> ELSE <<>>) \o f.suffix \o f.value
SampleWords(s) == <<s.first, IF s.sparse = EF!Dense THEN Widest ELSE s.sparse>>
Offsets(ef) ==
  <<Words(ef.low), Words(ef.high), Words(Concatenated([i \in DOMAIN ef.directory.samples |-> SampleWords(ef.directory.samples[i])])),
    Words(ef.directory.sparse)>>
profile_parts(w) == <<Concatenated([i \in DOMAIN w.frames |-> Spelled(w, w.frames[i])])>> \o Offsets(EF!build(w.offsets))

\* Where streams of counts[r] borrowed entries lie among natives that come last.
Navigation(counts, natives) ==
  LET total == FoldLeft(LAMBDA a, n : a + n, natives, counts)
      After(r) == FoldLeft(LAMBDA a, n : a + n, 0, SubSeq(counts, 1, r - 1))
      groups == 1..ceiling(total, GroupSize)
  IN  [virtual_count |-> total, flags |-> [r \in DOMAIN counts |-> Zeros(counts[r])],
       populations |-> [r \in DOMAIN counts |-> [g \in groups |->
         Cardinality(((g - 1) * GroupSize + 1)..(g * GroupSize) \cap (After(r) + 1)..(After(r) + counts[r]))]],
       cuts |-> [r \in DOMAIN counts |-> [g \in groups |-> g]]]
FlagBytes(flags) ==
  [b \in 1..ceiling(Len(flags), ByteBits) |->
     MapThenSumSet(LAMBDA i : flags[(b - 1) * ByteBits + i + 1] * 2 ^ i, 0..(Least(ByteBits, Len(flags) - (b - 1) * ByteBits) - 1))]
rank_parts(populations) == <<Words(Ranks(populations)!build.classes), Words(Ranks(populations)!build.checkpoints)>>
index_parts(w, nav) ==
  profile_parts(w) \o rank_parts(nav.populations[1]) \o <<FlagBytes(nav.flags[1]), Words(nav.cuts[1])>>
cola_parts(main, secondary, nav) ==
  profile_parts(main) \o profile_parts(secondary) \o rank_parts(nav.populations[1]) \o rank_parts(nav.populations[2])
  \o <<FlagBytes(nav.flags[1]), FlagBytes(nav.flags[2]), Words(nav.cuts[1]), Words(nav.cuts[2])>>

\* finish: each section at the next aligned place; chunks: zeros between them.
EndOf(first, parts) == IF parts = <<>> THEN first ELSE Last(parts).offset + Last(parts).length
Descriptors(first, parts) ==
  FoldLeft(LAMBDA ds, p : Append(ds, [offset |-> align(EndOf(first, ds)), length |-> Len(p)]), <<>>, parts)
chunks(first, parts) ==
  FoldLeft(LAMBDA bytes, p : bytes \o Zeros(align(first + Len(bytes)) - first - Len(bytes)) \o p, <<>>, parts)

\* A stream's numbers in the directory; a target for every route that borrows.
RouteOf(w) ==
  LET ef == EF!build(w.offsets)
  IN  [count |-> Len(w.frames), extent |-> w.extent, terminal |-> Units(w.previous), universe |-> ef.universe, low_width |-> ef.low_width]
DirectoryOf(format, streams, nav, parts) ==
  [magic |-> format, count |-> Len(parts), reserved |-> 0, virtual_count |-> nav.virtual_count,
   routes |-> [r \in DOMAIN streams |-> RouteOf(streams[r])],
   targets |-> [r \in DOMAIN streams |-> IF format = "native" \/ streams[r].frames = <<>> THEN 0 ELSE 1],
   sections |-> Descriptors(DirectoryBytes(format), parts)]
HeaderOf(format, streams, bytes) ==
  [kind |-> KindOf(format), extent |-> DirectoryBytes(format) + Len(bytes),
   count |-> FoldLeft(LAMBDA n, w : n + Len(w.frames), 0, streams), common |-> streams[1].common,
   policy |-> IF streams[1].common = PolicyWidth THEN PolicyWidth ELSE Unknown]
total_bytes(extent) == HeaderBytes + extent
encode_file(format, header, total, directory, bytes) ==
  [format |-> format, header |-> header, total |-> total, directory |-> directory, bytes |-> bytes,
   header_crc |-> <<header, total>>, body_crc |-> <<directory, bytes>>]
encode(format, streams, nav, parts) ==
  LET bytes == chunks(DirectoryBytes(format), parts)
      header == HeaderOf(format, streams, bytes)
  IN  encode_file(format, header, total_bytes(header.extent), DirectoryOf(format, streams, nav, parts), bytes)
encode_native_sections(w) == encode("native", <<w>>, Navigation(<<>>, 0), profile_parts(w))
encode_index_sections(w, nav) == encode("index", <<w>>, nav, index_parts(w, nav))
encode_cola_sections(main, secondary, nav) == encode("cola", <<main, secondary>>, nav, cola_parts(main, secondary, nav))

-----------------------------------------------------------------------------
\* file.h: decode_file_header and validate_file.

validate_metadata(h) ==
  IF h.kind = "index" THEN h.common = 0
  ELSE LET width == IF h.common = Unknown THEN h.policy ELSE h.common IN
       /\ h.policy # Unknown /\ h.common # Unknown => h.common = h.policy
       /\ width > 0 => h.count <= h.extent \div width
BodyBytes(f) == DirectoryBytes(f.format) + Len(f.bytes)
decode_file_header(f) ==
  f.header_crc = <<f.header, f.total>> /\ validate_metadata(f.header) /\ f.total = total_bytes(f.header.extent)
checked_header(f) == decode_file_header(f) /\ f.total = HeaderBytes + BodyBytes(f)
validate_file(f) == checked_header(f) /\ f.header.extent = BodyBytes(f) /\ f.body_crc = <<f.directory, f.bytes>>

-----------------------------------------------------------------------------
\* section_detail::parse and the views it leads to.

Part(f, slot) ==
  LET d == f.directory.sections[slot]
      first == d.offset - DirectoryBytes(f.format)
  IN  SubSeq(f.bytes, first + 1, first + d.length)
Canonical(f, i) ==
  LET d == f.directory.sections IN
  /\ d[i].offset = align(EndOf(DirectoryBytes(f.format), SubSeq(d, 1, i - 1)))
  /\ d[i].length >= 0 /\ d[i].offset + d[i].length <= BodyBytes(f)

\* What a stream has beside its bytes: the header counts the only one there is.
Route(f, r) ==
  IF f.format = "cola" THEN f.directory.routes[r] ELSE [f.directory.routes[r] EXCEPT !.count = f.header.count]
IsRouted(f) ==
  LET d == f.directory IN
  CASE f.format = "native" -> d.targets[1] = 0 /\ d.virtual_count = 0
    [] f.format = "index" -> d.targets[1] \in {0, 1} /\ d.virtual_count >= f.header.count
    [] f.format = "cola" ->
         /\ d.targets[1] \in {0, 1} /\ d.targets[2] \in {0, 1}
         /\ d.routes[1].count + d.routes[2].count \in {f.header.count} \cap 0..d.virtual_count
         /\ \A r \in {1, 2} : d.targets[r] = 0 => d.routes[r].count = 0
parse(f) ==
  LET d == f.directory IN
  /\ f.header.extent = BodyBytes(f) /\ d.magic = f.format /\ d.count = SectionCount(f.format) /\ d.reserved = 0
  /\ IsRouted(f)
  /\ \A i \in 1..d.count : Canonical(f, i)
  /\ EndOf(0, d.sections) = BodyBytes(f)
validate_gaps(f) ==
  \A i \in 1..f.directory.count :
    LET d == f.directory.sections
        first == DirectoryBytes(f.format)
    IN  \A at \in EndOf(first, SubSeq(d, 1, i - 1))..(d[i].offset - 1) : f.bytes[at - first + 1] = 0

\* word_view::little_endian, of whole words.
WordsOf(bytes) == [i \in 1..(Len(bytes) \div WordBytes) |-> bytes[2 * i - 1] + bytes[2 * i] * ByteValues]
SamplesOf(values) ==
  [i \in 1..(Len(values) \div 2) |->
     [first |-> values[2 * i - 1], sparse |-> IF values[2 * i] = Widest THEN EF!Dense ELSE values[2 * i]]]
WordSlots(format, r) ==
  {profile_slot(r, 2), profile_slot(r, 3), profile_slot(r, 5)}
  \cup (IF format = "native" THEN {} ELSE {rank_slot(format, r), rank_slot(format, r) + 1, cuts_slot(format, r)})
WholeWords(f, r) ==
  /\ \A slot \in WordSlots(f.format, r) : Len(Part(f, slot)) % WordBytes = 0
  /\ Len(Part(f, profile_slot(r, 4))) % (2 * WordBytes) = 0

Blocks(count) == ceiling(count, BlockSize)
StrideOf(h, count) == IF h.common = Unknown THEN 0 ELSE h.common * count
OffsetsOf(f, r) ==
  LET route == Route(f, r)
      entries == Blocks(route.count) + 1
  IN  [low |-> WordsOf(Part(f, profile_slot(r, 2))), high |-> WordsOf(Part(f, profile_slot(r, 3))),
       directory |-> [samples |-> SamplesOf(WordsOf(Part(f, profile_slot(r, 4)))), sparse |-> WordsOf(Part(f, profile_slot(r, 5)))],
       entry_count |-> entries, universe |-> route.universe, high_bits |-> route.universe \div 2 ^ route.low_width + entries,
       low_width |-> route.low_width]
ViewShape(ef) ==
  /\ ef.low_width < WordBits
  /\ Len(ef.low) = EF!words(ef.entry_count * ef.low_width) /\ Len(ef.high) = EF!words(ef.high_bits)
  /\ Len(ef.directory.samples) = ceiling(ef.entry_count, SampleEvery)

\* profile_view::from_sections and validate_offset_metadata.
ProfileShape(f, r) ==
  LET h == f.header
      route == Route(f, r)
  IN  /\ IF h.kind = "index" THEN h.common = 0 ELSE h.policy # Unknown => h.common = h.policy
      /\ route.count = 0 => route.extent = 0 /\ route.terminal = 0
      /\ Len(Part(f, profile_slot(r, 1))) = route.extent
      /\ StrideOf(h, route.count) <= route.extent /\ route.universe = route.extent - StrideOf(h, route.count)

\* mapped_profile::open, mapped_index::open and mapped_cola_index::open.
Groups(f) == ceiling(f.directory.virtual_count, GroupSize)
ClassWords(f, r) == WordsOf(Part(f, rank_slot(f.format, r)))
CheckpointWords(f, r) == WordsOf(Part(f, rank_slot(f.format, r) + 1))
IndexShape(f, r) ==
  /\ Len(ClassWords(f, r)) = EF!words(Groups(f) * ClassBits)
  /\ Len(CheckpointWords(f, r)) = ceiling(Groups(f), Ranks(<<>>)!CheckpointEvery)
  /\ Len(WordsOf(Part(f, cuts_slot(f.format, r)))) = Groups(f)
  /\ Len(Part(f, flags_slot(f.format, r))) = ceiling(Route(f, r).count, ByteBits)
opens(f) ==
  /\ checked_header(f) /\ f.header.kind = KindOf(f.format) /\ parse(f)
  /\ \A r \in Routes(f.format) :
       /\ WholeWords(f, r) /\ ViewShape(OffsetsOf(f, r)) /\ ProfileShape(f, r)
       /\ f.format # "native" => IndexShape(f, r)

-----------------------------------------------------------------------------
\* scan_profile: the frames one after another.

Scan == [at |-> 0, units |-> 0, key |-> <<>>, residuals |-> <<>>, keys |-> <<>>, widths |-> <<>>, valid |-> TRUE]
Invalid(s) == [s EXCEPT !.valid = FALSE]

\* Mutant of InOrder: a key may come again in any file.
InOrder_repeating(s, role, retained, suffix) ==
  IF retained < s.units THEN suffix # <<>> /\ Comparison(From(s.key, retained), suffix).order <= 0 ELSE TRUE

\* The retained prefix is equal already; only the tails are compared.
InOrder(s, role, retained, suffix) ==
  IF retained < s.units
  THEN /\ suffix # <<>>
       /\ IF role = "native" THEN Comparison(From(s.key, retained), suffix).order < 0
          ELSE Comparison(From(s.key, retained), suffix).order <= 0
  ELSE s.keys # <<>> /\ role = "native" => suffix # <<>>

Accept(s, role, retained, suffix, width, start, residuals) ==
  IF ~InOrder(s, role, retained, suffix) THEN Invalid(s)
  ELSE [s EXCEPT !.at = start + Len(suffix) + width, !.units = retained + Len(suffix),
                 !.key = Prefix(@, retained) \o suffix, !.keys = Append(@, Prefix(s.key, retained) \o suffix),
                 !.widths = Append(@, width), !.residuals = residuals]

\* A frame: its control, the suffix's count, the value's if widths differ, and both.
ScanFrame(h, bytes, s, ordinal, start, residuals) ==
  IF start > Len(bytes) THEN Invalid(s)
  ELSE LET retained == IF StartsBlock(ordinal) THEN bytes[s.at + 1] ELSE s.units - bytes[s.at + 1]
           suffix == bytes[s.at + 2]
           width == IF h.common = Unknown THEN bytes[s.at + 3] ELSE h.common
       IN  IF retained < 0 \/ retained > s.units \/ start + suffix + width > Len(bytes) THEN Invalid(s)
           ELSE Accept(s, h.kind, retained, SubSeq(bytes, start + 1, start + suffix), width, start, residuals)
ScanNext(h, bytes, s, ordinal) ==
  IF ~s.valid \/ (StartsBlock(ordinal) /\ StrideOf(h, ordinal) > s.at) THEN Invalid(s)
  ELSE ScanFrame(h, bytes, s, ordinal, s.at + (IF h.common = Unknown THEN 3 ELSE 2),
                 IF StartsBlock(ordinal) THEN Append(s.residuals, s.at - StrideOf(h, ordinal)) ELSE s.residuals)
Scanned(f, r) ==
  FoldLeft(LAMBDA s, i : ScanNext(f.header, Part(f, profile_slot(r, 1)), s, i - 1), Scan, [i \in 1..Route(f, r).count |-> i])

offset_of(f, r, b) ==
  EF!select(OffsetsOf(f, r), b) + StrideOf(f.header, IF b = Blocks(Route(f, r).count) THEN Route(f, r).count ELSE b * BlockSize)
validate_contents(f, r) == offset_of(f, r, 0) = 0 /\ offset_of(f, r, Blocks(Route(f, r).count)) = Route(f, r).extent

\* Mutant of SameOffsets: the words are taken for the samples' word.
SameOffsets_partly(actual, expected) == actual.directory.samples = expected.directory.samples

\* The one Elias-Fano spelling of the offsets that were met.
SameOffsets(actual, expected) ==
  /\ actual.universe = expected.universe /\ actual.low_width = expected.low_width
  /\ actual.low = expected.low /\ actual.high = expected.high /\ actual.directory = expected.directory
scan_profile(f, r) ==
  /\ validate_contents(f, r)
  /\ \A s \in {Scanned(f, r)} :
       /\ s.valid /\ s.at = Route(f, r).extent /\ s.units = Route(f, r).terminal
       /\ StrideOf(f.header, Route(f, r).count) <= s.at
       /\ SameOffsets(OffsetsOf(f, r), EF!build(Append(s.residuals, s.at - StrideOf(f.header, Route(f, r).count))))

\* A class for every group: no more entries than it has, none of them twice.
ClassesOf(f, r) == [g \in 1..Groups(f) |-> Ranks(<<>>)!class_at([classes |-> ClassWords(f, r)], g - 1)]
TotalOf(counts) == FoldLeft(LAMBDA a, n : a + n, 0, counts)
WidthOf(f, g) == Least(GroupSize, f.directory.virtual_count - (g - 1) * GroupSize)

\* Mutant of Fits: each route fits a group, the two together need not.
Fits_alone(f, g) == \A r \in Routes(f.format) : ClassesOf(f, r)[g] <= WidthOf(f, g)

Fits(f, g) == MapThenSumSet(LAMBDA r : ClassesOf(f, r)[g], Routes(f.format)) <= WidthOf(f, g)
scan_ranks(f, r) ==
  /\ \A g \in 1..Groups(f) : Fits(f, g)
  /\ TotalOf(ClassesOf(f, r)) = Route(f, r).count
  /\ ClassWords(f, r) = Ranks(ClassesOf(f, r))!build.classes
  /\ CheckpointWords(f, r) = Ranks(ClassesOf(f, r))!build.checkpoints
  /\ Route(f, r).count % ByteBits # 0 => Last(Part(f, flags_slot(f.format, r))) < 2 ^ (Route(f, r).count % ByteBits)
scan(f) ==
  /\ validate_file(f) /\ validate_gaps(f)
  /\ \A r \in Routes(f.format) : scan_profile(f, r) /\ (f.format # "native" => scan_ranks(f, r))

-----------------------------------------------------------------------------
\* Bytes that are not as written: a byte, a number of the header or directory, a
\* border between sections, or the body's end.

Near(n) == {n - 1, n + 1} \ {-2, -1}
HeaderFields == {"extent", "count", "common", "policy"}
Other(x, n) == Near(n) \cup (IF x \in {"common", "policy"} THEN {Unknown} ELSE {})
DirectoryFields == {"count", "reserved", "virtual_count"}
RouteFields == {"count", "extent", "terminal", "universe", "low_width"}
Moved(ds, i, n) ==
  [j \in DOMAIN ds |->
     IF j = i THEN [ds[j] EXCEPT !.length = @ + n]
     ELSE IF j = i + 1 THEN [offset |-> ds[j].offset + n, length |-> ds[j].length - n] ELSE ds[j]]
Changes(f) ==
  {[f EXCEPT !.bytes[i] = b] : i \in DOMAIN f.bytes, b \in 0..2}
  \cup {[f EXCEPT !.bytes = SubSeq(@, 1, Len(@) - 1)], [f EXCEPT !.bytes = Append(@, 0)]}
  \cup {[f EXCEPT !.total = n] : n \in Near(f.total)}
  \cup {[f EXCEPT !.header.kind = k] : k \in {"native", "index"}}
  \cup UNION {{[f EXCEPT !.header[x] = n] : n \in Other(x, f.header[x])} : x \in HeaderFields}
  \cup UNION {{[f EXCEPT !.directory[x] = n] : n \in Near(f.directory[x])} : x \in DirectoryFields}
  \cup UNION {{[f EXCEPT !.directory.routes[r][x] = n] : n \in Near(f.directory.routes[r][x])} :
                r \in Routes(f.format), x \in RouteFields}
  \cup {[f EXCEPT !.directory.targets[r] = n] : r \in Routes(f.format), n \in 0..2}
  \cup {[f EXCEPT !.directory.magic = m] : m \in {"native", "index", "cola"}}
  \cup UNION {{[f EXCEPT !.directory.sections[i].length = n] : n \in Near(f.directory.sections[i].length)} :
                i \in DOMAIN f.directory.sections}
  \cup {[f EXCEPT !.directory.sections = Moved(@, i, n)] : i \in 1..(Len(f.directory.sections) - 1), n \in {-WordBytes, WordBytes}}
Resealed(f) == encode_file(f.format, f.header, f.total, f.directory, f.bytes)

-----------------------------------------------------------------------------
PartsOf(f) == [slot \in 1..f.directory.count |-> Part(f, slot)]
Ascending(keys, kind) ==
  \A i \in 2..Len(keys) : IF kind = "native" THEN Precedes(keys[i - 1], keys[i]) ELSE UpTo(keys[i - 1], keys[i])
PlaceOf(s, h, count, b) == IF b = Blocks(count) THEN s.at ELSE s.residuals[b + 1] + StrideOf(h, b * BlockSize)

\* What may be relied on in a file that opened and scanned.
StreamIsSound(f, r) ==
  \A s \in {Scanned(f, r)} :
    /\ Len(s.keys) = Route(f, r).count /\ Ascending(s.keys, f.header.kind)
    /\ \A b \in 0..Blocks(Len(s.keys)) : offset_of(f, r, b) = PlaceOf(s, f.header, Len(s.keys), b)
    /\ f.header.policy # Unknown /\ f.format = "native" => \A i \in DOMAIN s.widths : s.widths[i] = f.header.policy
    /\ f.format # "native" =>
         /\ TotalOf(ClassesOf(f, r)) = Len(s.keys)
         /\ \A c \in DOMAIN CheckpointWords(f, r) :
              CheckpointWords(f, r)[c] = TotalOf(SubSeq(ClassesOf(f, r), 1, (c - 1) * Ranks(<<>>)!CheckpointEvery))
NativesOf(f, g) == WidthOf(f, g) - MapThenSumSet(LAMBDA r : ClassesOf(f, r)[g], Routes(f.format))
Sound(f) ==
  /\ \A r \in Routes(f.format) : StreamIsSound(f, r)
  /\ f.format # "native" => \A g \in 1..Groups(f) : NativesOf(f, g) >= 0
  /\ f.bytes = chunks(DirectoryBytes(f.format), PartsOf(f))

IsStrict == \A i \in 2..Len(records) : Precedes(records[i - 1].key, records[i].key)
Files ==
  LET n == Len(records) IN
  (IF IsStrict THEN {encode_native_sections(view)} ELSE {})
  \cup (IF stream.common # 0 THEN {}
        ELSE {encode_index_sections(view, Navigation(<<n>>, natives)) : natives \in Natives}
             \cup {encode_cola_sections(view, view, Navigation(<<n, n>>, natives)) : natives \in Natives}
             \cup {encode_cola_sections(finish(Stream(0)), view, Navigation(<<0, n>>, natives)) : natives \in Natives})
Written(f) == \A r \in Routes(f.format) : Scanned(f, r).keys = IF Route(f, r).count = 0 THEN <<>> ELSE Keys

(* A written file opens and scans as the records it was written from.  Once any
   byte, number or border of it differs, a scan refuses it by its checksums; and
   if those were made for the changed bytes, what still opens and scans has its
   keys in order, every block where its offsets say, values of the declared
   width, ranks that add up without two routes claiming one place, and no byte
   outside its sections (parse, validate_gaps, scan_profile, mapped_index::scan,
   mapped_cola_index::scan, validate_file).  *)
ScansAreSound ==
  \A f \in Files :
    /\ opens(f) /\ scan(f) /\ Written(f) /\ Sound(f)
    /\ \A changed \in Changes(f) \ {f} :
         /\ ~(opens(changed) /\ scan(changed))
         /\ \A g \in {Resealed(changed)} : opens(g) /\ scan(g) => Sound(g)
=============================================================================
