---------------------------- MODULE MCAlgorithms ----------------------------
(***************************************************************************)
(* Small instances of the codecs, merges, indexes and sections.  A behaviour *)
(* is one of the algorithm `subject` names; the others stay idle.           *)
(***************************************************************************)
EXTENDS Integers, Sequences, FiniteSets

VARIABLES
  subject,
  data,
  stream, records, source, head, prefix,
  builder, chain, plan,
  pairs, stages, sampler,
  input, offset, reader, answer,
  sorted_stream, sorted_records,
  profile, profile_records,
  sections, populations, rank_bits,
  residuals, cursor, keys

streamVars == <<stream, records>>
mergeVars == <<source, head, prefix>>
indexVars == <<builder, chain, plan>>
pipelineVars == <<pairs, stages, sampler>>
reservoirVars == <<input, offset, reader, answer>>
sortedVars == <<sorted_stream, sorted_records, profile, profile_records>>
rankVars == <<sections, populations, rank_bits>>
sequenceVars == <<residuals, cursor, keys>>

KeysUpTo(n) == UNION {[1..m -> {0, 1}] : m \in 0..n}

\* Words of 4 bits and bytes of 2, so that codes overflow within 11 bits.
Exponential == INSTANCE BitCodes
  WITH WordBits <- 4, ByteBits <- 2, BackspaceCode <- "exponential_golomb", BackspaceParameter <- 2
Golomb == INSTANCE BitCodes
  WITH WordBits <- 4, ByteBits <- 2, BackspaceCode <- "golomb", BackspaceParameter <- 3

\* Two records to a block.  A dead record may keep one bit less than its key has;
\* sources hold two or three keys of at most two bits.
Dead == <<0>>
Live == <<1>>
CodeUnits(n) == IF n < 2 THEN 1 ELSE 2
ControlBits(n) == IF n = 0 THEN 1 ELSE IF n < 3 THEN 3 ELSE 5
SourceLimits(key, value) == IF value = Live THEN 1000 ELSE IF key = <<>> THEN 0 ELSE Len(key) - 1
Newer(older, newer) == newer
IsDead(value) == value = Dead
SourceKeys ==
  {{<<0>>, <<0, 1>>, <<1>>}, {<<>>, <<0, 0>>, <<0, 1>>}, {<<1, 0>>, <<1, 1>>}, {<<0, 0>>, <<1, 0>>, <<1, 1>>}}
Merge == INSTANCE NativeMerge
  WITH UnitBits <- 1, BlockSize <- 2, GroupSize <- 3, RestartFactor <- 3, AllKeys <- KeysUpTo(2),
       Values <- {<<>>, Dead}, Limits <- {1, 1000}, MaxRecords <- 4,
       SourceMaps <- UNION {[S -> {Dead, Live}] : S \in SourceKeys}, Compose <- Newer, IsTombstone <- IsDead

\* Groups of two, three nodes and as many above them as a root needs.
FirstRuns == {{<<>>, <<0>>, <<1>>}, {<<0>>, <<0, 0>>, <<0, 1>>, <<1>>, <<1, 1>>}, KeysUpTo(2)}
OtherRuns == {{}, {<<0>>}, {<<0, 0>>, <<1>>, <<1, 0>>}}
Leaves == {{}, {<<0>>, <<0, 1>>, <<1>>}, {<<>>, <<1>>}}
Index == INSTANCE FractionalIndex
  WITH UnitBits <- 1, GroupSize <- 2, IndexKeys <- KeysUpTo(2),
       Plans <- {<<[native |-> S, secondary |-> {}], [native |-> T, secondary |-> L], [native |-> U, secondary |-> {}]>> :
                   S \in FirstRuns, T \in OtherRuns, L \in Leaves, U \in OtherRuns}

\* Groups of three, the least query.h allows, and two stages at once.
Pipeline == INSTANCE IndexPipeline
  WITH UnitBits <- 1, GroupSize <- 3, QueryKeys <- KeysUpTo(2),
       Chains <- {<<S, T, U>> : S \in {{}} \cup FirstRuns, T \in {K \in SUBSET KeysUpTo(2) : Cardinality(K) = 2}, U \in OtherRuns}

\* Inputs within a word, a bit more than one, and two words.
BitStrings == UNION {[1..n -> {0, 1}] : n \in {0, 3, 5, 8}}
ExponentialReservoir == INSTANCE BitReservoir
  WITH WordBits <- 4, ByteBits <- 2, BackspaceCode <- "exponential_golomb", BackspaceParameter <- 1, Inputs <- BitStrings
GolombReservoir == INSTANCE BitReservoir
  WITH WordBits <- 4, ByteBits <- 2, BackspaceCode <- "golomb", BackspaceParameter <- 3, Inputs <- BitStrings

\* A sort for every key grammar; strings with bytes that ordered spellings escape.
Codes == [front |-> <<0>>, text |-> <<1, 0, 0>>, raw |-> <<1, 0, 1>>, number |-> <<1, 1>>]
Strings == {<<>>} \cup [1..2 -> {0, 1}] \cup {<<0, 0, 0, 1>>, <<0, 0, 1, 1>>, <<0, 1, 0, 0>>}
Sorted == INSTANCE SortRecords
  WITH stream <- sorted_stream, records <- sorted_records,
       UnitBits <- 1, WordBits <- 4, ByteBits <- 2, BackspaceCode <- "exponential_golomb", BackspaceParameter <- 0,
       Sorts <- DOMAIN Codes, Path <- Codes, FieldBits <- 2, Sentinel <- <<1, 1>>, MaxRecords <- 3,
       KeyCodec <- [front |-> "fc_bit", text |-> "fc_string", raw |-> "raw_string", number |-> "unsigned"],
       ValueCodec <- [front |-> "tombstone", text |-> "string", raw |-> "niche", number |-> "bit"],
       KeysOf <- [front |-> {<<>>, <<0>>, <<0, 1>>, <<1>>, <<1, 0, 1>>}, text |-> Strings, raw |-> Strings, number |-> [1..2 -> {0, 1}]],
       ValuesOf <- [front |-> {<<"absent">>, <<0, 1>>}, text |-> {<<>>, <<1, 0>>}, raw |-> {<<"absent">>, <<0, 1>>}, number |-> {<<>>, <<1>>}]

\* Three records to a block, so that a sort may change at, before and after its start;
\* records without a value are dead.
IsEmpty(value) == value = <<>>
Profiled == INSTANCE SortProfile
  WITH records <- profile_records,
       UnitBits <- 1, Sorts <- {"a", "b", "c"}, Path <- [a |-> <<0>>, b |-> <<1, 0>>, c |-> <<1, 1>>],
       FrontCoded <- {"a", "c"}, Uncounted <- {"b"}, BlockSize <- 3, GroupSize <- 3, CodeBits <- ControlBits,
       KeysOf <- [a |-> {<<>>, <<0>>, <<0, 1>>, <<1, 0>>}, b |-> {<<0, 1>>, <<1, 0>>}, c |-> {<<>>, <<0, 0>>, <<0, 1, 1>>}],
       ValuesOf <- [a |-> {<<>>, <<1>>}, b |-> {<<1>>}, c |-> {<<1>>}],
       Limits <- {0, 3, 99}, NoLimit <- 99, IsTombstone <- IsEmpty, MaxRecords <- 5, MaxMerged <- 3

\* Classes of 2, 3, 4 and 6 bits, one for each way to sum them; epochs of two blocks.
ClassBitsOf == [ranks2 |-> 2, ranks3 |-> 3, ranks4 |-> 4, ranks6 |-> 6]
WordBitsOf == [ranks2 |-> 16, ranks3 |-> 4, ranks4 |-> 16, ranks6 |-> 8]
Pairs == INSTANCE RankSections WITH ClassBits <- 2, WordBits <- 16, RunBits <- 4, EpochBlocks <- 2
Planes == INSTANCE RankSections WITH ClassBits <- 3, WordBits <- 4, RunBits <- 4, EpochBlocks <- 2
Nibbles == INSTANCE RankSections WITH ClassBits <- 4, WordBits <- 16, RunBits <- 4, EpochBlocks <- 2
Loops == INSTANCE RankSections WITH ClassBits <- 6, WordBits <- 8, RunBits <- 4, EpochBlocks <- 2

\* Full groups and nearly empty ones, and a partial one at a few places.
Groups ==
  LET k == 2 ^ ClassBitsOf[subject] - 1 IN
  {<<k, k>>, <<2, 2>>} \cup (IF Len(populations) \in {0, 1, 2, 15, 30} THEN {<<1, k>>} ELSE {})
AppendGroup ==
  /\ Len(populations) < 2 * WordBitsOf[subject] + 2
  /\ \E g \in Groups :
       CASE subject = "ranks2" -> Pairs!append(g[1], g[2])
         [] subject = "ranks3" -> Planes!append(g[1], g[2])
         [] subject = "ranks4" -> Nibbles!append(g[1], g[2])
         [] subject = "ranks6" -> Loops!append(g[1], g[2])
AppendRun ==
  /\ Len(rank_bits) < 36 /\ Len(rank_bits) % 4 = 0
  /\ \E run \in {<<1, 1, 1, 1>>, <<0, 1, 0, 0>>, <<1>>, <<0, 1, 1>>} : rank_bits' = rank_bits \o run
  /\ UNCHANGED <<sections, populations>>

\* Spans of a group below, at and above the one that is scanned; eight values whose
\* low parts make a whole tile of three words.
Elias == INSTANCE EliasFano
  WITH WordBits <- 8, SampleEvery <- 2, DenseBits <- 8, Values <- {0, 1, 58, 67}, MaxValues <- 9

\* Every size of window up to one past the largest that pivots divide.
Search == INSTANCE FixedSearch WITH Words <- 2, FixedKeys <- {<<0, 1>>, <<1, 0>>, <<1, 1>>}, MaxKeys <- 33

\* Two bytes to a word and two frames to a block, so that three records make two
\* blocks and two samples; every byte of a key is 0 or 1.
OneByte(n) == 1
Filed == INSTANCE Sections
  WITH UnitBits <- 1, BlockSize <- 2, GroupSize <- 3, CodeUnits <- OneByte, RestartFactor <- 3, AllKeys <- {<<>>, <<0>>, <<0, 1>>, <<1, 1>>},
       Values <- {<<>>, <<1>>}, Limits <- {1, 1000}, MaxRecords <- 3,
       WordBits <- 8, SampleEvery <- 2, DenseBits <- 8, ClassBits <- 2, PolicyWidth <- 1, Natives <- {2}

Sixteen == INSTANCE PackedWords WITH WordBits <- 16
SomeBytes == {0, 1, 2, 8, 15, 16, 37, 64, 85, 128, 129, 170, 240, 254, 255}

Subjects ==
  {"codes", "stream", "merge", "index", "pipeline", "exponential_reservoir", "golomb_reservoir", "sorted", "profile",
   "bits", "elias", "search", "filed"} \cup DOMAIN ClassBitsOf

Init ==
  /\ subject \in Subjects
  /\ data = <<>>
  /\ CASE subject = "stream" -> Merge!StreamInit
       [] subject = "filed" -> Filed!StreamInit
       [] subject = "merge" -> TRUE
       [] OTHER -> stream = <<>> /\ records = <<>>
  /\ IF subject = "merge" THEN Merge!MergeInit ELSE source = <<>> /\ head = <<>> /\ prefix = <<>>
  /\ IF subject = "index" THEN Index!Init ELSE builder = <<>> /\ chain = <<>> /\ plan = <<>>
  /\ IF subject = "pipeline" THEN Pipeline!PipelineInit ELSE pairs = <<>> /\ stages = <<>> /\ sampler = <<>>
  /\ CASE subject = "exponential_reservoir" -> ExponentialReservoir!ReservoirInit
       [] subject = "golomb_reservoir" -> GolombReservoir!ReservoirInit
       [] OTHER -> input = <<>> /\ offset = 0 /\ reader = <<>> /\ answer = <<>>
  /\ Sorted!SortInit /\ Profiled!ProfileInit /\ Pairs!RankInit /\ Elias!EliasInit /\ Search!SearchInit

Next ==
  /\ UNCHANGED subject
  /\ IF subject = "codes" THEN Len(data) < 11 /\ \E bit \in {0, 1} : data' = Append(data, bit) ELSE UNCHANGED data
  /\ CASE subject = "stream" -> Merge!StreamNext /\ UNCHANGED mergeVars
       [] subject = "filed" -> Filed!StreamNext /\ UNCHANGED mergeVars
       [] subject = "merge" -> Merge!MergeNext
       [] OTHER -> UNCHANGED streamVars /\ UNCHANGED mergeVars
  /\ IF subject = "index" THEN Index!Next ELSE UNCHANGED indexVars
  /\ IF subject = "pipeline" THEN Pipeline!PipelineNext ELSE UNCHANGED pipelineVars
  /\ CASE subject = "exponential_reservoir" -> ExponentialReservoir!ReservoirNext
       [] subject = "golomb_reservoir" -> GolombReservoir!ReservoirNext
       [] OTHER -> UNCHANGED reservoirVars
  /\ IF subject = "sorted" THEN Sorted!SortNext ELSE UNCHANGED <<sorted_stream, sorted_records>>
  /\ IF subject = "profile" THEN Profiled!ProfileNext ELSE UNCHANGED <<profile, profile_records>>
  /\ IF subject \in DOMAIN ClassBitsOf THEN AppendGroup \/ Pairs!finish
     ELSE IF subject = "bits" THEN AppendRun ELSE UNCHANGED rankVars
  /\ IF subject = "elias" THEN Elias!EliasNext ELSE UNCHANGED <<residuals, cursor>>
  /\ IF subject = "search" THEN Search!SearchNext ELSE UNCHANGED keys

Spec ==
  Init /\ [][Next]_<<subject, data, streamVars, mergeVars, indexVars, pipelineVars, reservoirVars, sortedVars,
                     rankVars, sequenceVars>>

-----------------------------------------------------------------------------
\* Properties.

(* profile.h, sort_codec.h: counts and backspaces are read back exactly and have one
   spelling, also through a reader that loads a word ahead.                  *)
CodesAreUnambiguous ==
  /\ subject = "codes" => Exponential!CodesAreUnambiguous(data) /\ Golomb!CodesAreUnambiguous(data)
  /\ subject = "exponential_reservoir" => ExponentialReservoir!ReservoirIsExact
  /\ subject = "golomb_reservoir" => GolombReservoir!ReservoirIsExact

(* profile.h, native_writer.h: every way to read a stream finds its records. *)
StreamDenotesTheRecords == subject = "stream" => Merge!StreamDenotesTheRecords

(* sort_codec.h, sort_profile.h: so does every way to read a stream of several sorts. *)
SortsReadBack ==
  /\ subject = "sorted" => Sorted!SortedRecordsReadBack
  /\ subject = "profile" => Profiled!ProfilesReadBack

(* native_merge.h: the output is the sources' merge, frame by frame. *)
MergeIsExact == subject = "merge" => Merge!MergeIsExact

(* cola_index.h, cola_query.h: one window for each node finds every match, and the
   builder knows what its sources' heads share with its last key.            *)
QueriesFindEveryMatch == subject = "index" => Index!QueriesFindEveryMatch /\ Index!FrontierIsExact

(* index_pipeline_detail.h, query.h: pipelines finish, with the index of a whole build. *)
PipelinesBuildTheIndex == subject = "pipeline" => Pipeline!PipelinesBuildTheIndex

(* rank_groups.h, rank15.h, rank.h, elias_fano.h, fixed_search.h, word_view.h: what
   packed sections answer is what they were built from, wherever a field straddles
   words, a group is sparse, a window has equal keys or the host's bytes are turned;
   and sections.h, file.h: what scans as a file is what its sections say.   *)
SectionsAreExact ==
  /\ CASE subject = "ranks2" -> Pairs!RanksAreExact
       [] subject \in {"ranks3", "bits"} -> Planes!RanksAreExact
       [] subject = "ranks4" -> Nibbles!RanksAreExact
       [] subject = "ranks6" -> Loops!RanksAreExact
       [] OTHER -> TRUE
  /\ subject = "elias" => Elias!SelectsAreExact
  /\ subject = "search" => Search!BoundsAreExact
  /\ subject = "filed" => Filed!ScansAreSound
  /\ subject = "bits" /\ rank_bits = <<>> =>
       \A low, high \in SomeBytes : \A value \in {low + 256 * high} : Sixteen!WordsAreExact(value)
=============================================================================
