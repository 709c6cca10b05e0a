---------------------------- MODULE SortProfile -----------------------------
(***************************************************************************)
(* Front-coded streams of several sorts (sort_profile.h).  A key is its     *)
(* sort's code and the bits of its order; the code is written where the     *)
(* sort changes, and a block that is entered on its own finds it in a       *)
(* dictionary by the block's seed.  Sorts whose keys are not front-coded     *)
(* keep no more than their code of the key before.                         *)
(* A merge of two profiles (sort_profile_merge.h) hands frames to the same  *)
(* encoder with the bits each key shares with the one written before it.    *)
(***************************************************************************)
EXTENDS Keys, FiniteSets

CONSTANTS
  Sorts,           \* the registry's leaves
  Path,            \* [Sorts -> bits]: no code begins another
  FrontCoded,      \* the sorts whose keys are front-coded
  Uncounted,       \* the sorts of raw integers, whose width needs no count
  BlockSize,       \* P::codec_block_size
  GroupSize,       \* P::group_size
  CodeBits(_),     \* bits a count or a backspace takes
  KeysOf,          \* [Sorts -> keys that occur]
  ValuesOf,        \* [Sorts -> values that occur]
  Limits,          \* limits on kept bits a caller may set; NoLimit is one of them
  NoLimit,
  IsTombstone(_),  \* values that only hide older ones
  MaxRecords,      \* records appended to a stream (a bound of the model)
  MaxMerged        \* records of two sources that are merged (a bound of the model)

VARIABLES
  profile,   \* the encoder's state and its output
  records    \* what was appended (history)
profileVars == <<profile, records>>

Logical(s, key) == Path[s] \o key
Largest(a, b) == IF a > b THEN a ELSE b
Encoder ==
  [frames |-> <<>>, extent |-> 0, ids |-> <<>>, seeds |-> <<>>, offsets |-> <<>>, common |-> [known |-> FALSE, width |-> 0],
   sort |-> "none", key |-> <<>>, continuation |-> 0]
Count(e) == Len(e.frames)
StartsBlock(count) == count % BlockSize = 0
PathOf(e) == IF Count(e) = 0 THEN <<>> ELSE Path[e.sort]
-----------------------------------------------------------------------------
\* encoder::append

IdOf(ids, s) == IF s \in {ids[i] : i \in DOMAIN ids} THEN ids ELSE Append(ids, s)

IsSame(e, s) == Count(e) > 0 /\ e.sort = s

\* Mutant of Limited: a limit may cut into the sort's code.
Limited_low(retained, path, limit) == IF limit = NoLimit THEN retained ELSE Least(retained, limit)

Limited(retained, path, limit) == IF limit = NoLimit THEN retained ELSE Least(retained, Largest(Len(path), limit))
Retained(e, s, common, limit) ==
  Limited(IF IsSame(e, s) /\ s \in FrontCoded THEN common ELSE Len(Path[s]), Path[s], limit)

\* A block's first frame names what it keeps, any other what it drops of the last
\* key, or of its code alone if its keys do not continue each other.
Joint(e, s, retained) == IF IsSame(e, s) THEN retained ELSE CommonBits(PathOf(e), Path[s])
Frame(e, s, key, value, retained) ==
  LET starts == StartsBlock(Count(e)) IN
  [at |-> e.extent,
   control |-> IF starts THEN retained ELSE e.continuation - Joint(e, s, retained),
   path |-> IF starts \/ IsSame(e, s) THEN <<>> ELSE From(Path[s], Joint(e, s, retained)),
   suffix |-> From(Logical(s, key), retained), value |-> value]

FrameBits(frame, s) ==
  CodeBits(frame.control) + Len(frame.path) + (IF s \in Uncounted THEN 0 ELSE CodeBits(Len(frame.suffix)))
  + Len(frame.suffix) + Len(frame.value)

CommonWidth(e, value) ==
  IF Count(e) = 0 THEN [known |-> TRUE, width |-> Len(value)]
  ELSE IF e.common.known /\ e.common.width = Len(value) THEN e.common ELSE [known |-> FALSE, width |-> 0]
AppendFrame(e, s, key, frame) ==
  [e EXCEPT !.frames = Append(@, frame), !.extent = @ + FrameBits(frame, s), !.ids = IdOf(@, s),
            !.seeds = IF StartsBlock(Count(e)) THEN Append(@, s) ELSE @,
            !.offsets = IF StartsBlock(Count(e)) THEN Append(@, e.extent) ELSE @,
            !.common = CommonWidth(e, frame.value), !.sort = s, !.key = key,
            !.continuation = Len(Path[s]) + (IF s \in FrontCoded THEN Len(key) ELSE 0)]
append(e, s, key, value, limit) ==
  AppendFrame(e, s, key,
    Frame(e, s, key, value, Retained(e, s, CommonBits(PathOf(e) \o e.key, Logical(s, key)), limit)))

\* finish: offsets less what fixed-width values take, seeds as places in the dictionary.
Width(e) == IF Count(e) > 0 /\ e.common.known THEN e.common.width ELSE 0
FirstOf(e, i) == IF i = Len(e.offsets) + 1 THEN Count(e) ELSE (i - 1) * BlockSize
finish(e) ==
  [frames |-> e.frames, extent |-> e.extent, width |-> Width(e), terminal |-> Len(PathOf(e)) + Len(e.key),
   dictionary |-> [i \in DOMAIN e.ids |-> Path[e.ids[i]]],
   seeds |-> [b \in DOMAIN e.seeds |-> CHOOSE i \in DOMAIN e.ids : e.ids[i] = e.seeds[b]],
   offsets |-> [i \in 1..(Len(e.offsets) + 1) |-> Append(e.offsets, e.extent)[i] - FirstOf(e, i) * Width(e)]]

ProfileInit == profile = Encoder /\ records = <<>>
ProfileNext ==
  /\ Len(records) < MaxRecords
  /\ \E s \in Sorts : \E key \in KeysOf[s], value \in ValuesOf[s], limit \in Limits :
       /\ records # <<>> => Precedes(Logical(profile.sort, profile.key), Logical(s, key))
       /\ profile' = append(profile, s, key, value, limit)
       /\ records' = Append(records, [sort |-> s, key |-> Logical(s, key), value |-> value])

-----------------------------------------------------------------------------
\* sort_profile_view.  A record read: what it keeps of the key before it, the
\* literal that follows, and where the next one is.

Unreadable == [ordinal |-> -1, retained |-> 0, literal |-> <<>>, units |-> 0, value |-> <<>>, path |-> <<>>, sort |-> "none", next |-> -1]
IsReadable(r) == r.ordinal >= 0
Size(v) == Len(v.frames)
block_count(v) == (Size(v) + BlockSize - 1) \div BlockSize
block_offset(v, block) ==
  v.offsets[block + 1] + (IF block = block_count(v) THEN Size(v) ELSE block * BlockSize) * v.width
FrameAt(v, at) == {i \in DOMAIN v.frames : v.frames[i].at = at}
continuation(r) == IF r.sort \in FrontCoded THEN r.units ELSE Len(r.path)

\* The sort a code selects, of those the registry has.
Selected(path) == {s \in Sorts : Path[s] = path}

\* payload: what a frame's key inherits within its sort, and from the code otherwise.
Inherits(same, restart, inner) == same /\ (inner > 0 \/ ~restart)
PayloadOf(v, f, ordinal, path, s, retained, same, restart, inner) ==
  LET kept == IF Inherits(same, restart, inner) THEN retained ELSE IF same THEN 0 ELSE retained IN
  IF inner < 0 \/ (s \notin FrontCoded /\ inner # 0) THEN Unreadable
  ELSE [ordinal |-> ordinal, retained |-> kept,
        literal |-> (IF Inherits(same, restart, inner) THEN <<>> ELSE From(path, kept)) \o f.suffix,
        units |-> Len(path) + inner + Len(f.suffix), value |-> f.value, path |-> path, sort |-> s, next |-> f.at + FrameBits(f, s)]
payload(v, f, ordinal, path, s, retained, same, restart) ==
  PayloadOf(v, f, ordinal, path, s, retained, same, restart, IF same THEN retained - Len(path) ELSE 0)

start_block(v, block) ==
  LET path == v.dictionary[v.seeds[block + 1]]
      here == FrameAt(v, block_offset(v, block))
  IN  IF here = {} \/ Selected(path) = {} THEN Unreadable
      ELSE payload(v, v.frames[Min(here)], block * BlockSize, path, CHOOSE s \in Selected(path) : TRUE,
                   v.frames[Min(here)].control, TRUE, TRUE)

\* A shorter prefix than the code's means another sort: its code is read to its
\* leaf and looked up in the dictionary.
Transition(v, f, ordinal, retained, path) ==
  IF Selected(path) = {} \/ path \notin {v.dictionary[i] : i \in DOMAIN v.dictionary} THEN Unreadable
  ELSE payload(v, f, ordinal, path, CHOOSE s \in Selected(path) : TRUE, retained, FALSE, FALSE)
Continued(v, f, previous, retained) ==
  IF retained < 0 THEN Unreadable
  ELSE IF retained >= Len(previous.path)
  THEN payload(v, f, previous.ordinal + 1, previous.path, previous.sort, retained, TRUE, FALSE)
  ELSE Transition(v, f, previous.ordinal + 1, retained, Prefix(previous.path, retained) \o f.path)
NextFrom(v, previous, here) ==
  IF here = {} THEN Unreadable
  ELSE Continued(v, v.frames[Min(here)], previous, continuation(previous) - v.frames[Min(here)].control)
next(v, previous) ==
  IF StartsBlock(previous.ordinal + 1)
  THEN IF block_offset(v, (previous.ordinal + 1) \div BlockSize) # previous.next THEN Unreadable
       ELSE start_block(v, (previous.ordinal + 1) \div BlockSize)
  ELSE NextFrom(v, previous, FrameAt(v, previous.next))

encoded_at(v, ordinal) ==
  FoldLeft(LAMBDA r, i : IF IsReadable(r) THEN next(v, r) ELSE r, start_block(v, ordinal \div BlockSize), [i \in 1..(ordinal % BlockSize) |-> i])
Read(v, first, last) ==
  IF first = last THEN <<>>
  ELSE FoldLeft(LAMBDA rs, i : Append(rs, IF IsReadable(Last(rs)) THEN next(v, Last(rs)) ELSE Unreadable),
                <<encoded_at(v, first)>>, [i \in 1..(last - first - 1) |-> i])

\* The cursor's key, from a query at its lower bound; its comparison of neighbours.
Decoded(sequence, key) ==
  FoldLeft(LAMBDA ks, r : Append(ks, Prefix(IF ks = <<>> THEN key ELSE Last(ks), r.retained) \o r.literal), <<>>, sequence)
advance_comparison(key, r) ==
  LET c == Comparison(From(key, r.retained), r.literal) IN [common |-> r.retained + c.common, order |-> c.order]
compare_window(sequence, context) ==
  Tail(FoldLeft(LAMBDA cs, r : Append(cs, advance(Last(cs), r.retained, r.literal)), <<context>>, sequence))

-----------------------------------------------------------------------------
\* sort_profile_merge.h.  merge_source: the frame at hand, its key put together
\* from literals, and whether every frame so far fitted the one before.

AtEnd(m) == m.ordinal = Size(m.view)
Holding(m, frame) ==
  [m EXCEPT !.frame = frame, !.key = Prefix(@, frame.retained) \o frame.literal,
            !.valid = @ /\ IsReadable(frame) /\ frame.retained <= Len(m.key) /\ frame.units = frame.retained + Len(frame.literal)]
merge_source(v) ==
  LET m == [view |-> v, ordinal |-> 0, frame |-> Unreadable, key |-> <<>>, valid |-> TRUE]
  IN  IF Size(v) = 0 THEN m ELSE Holding(m, encoded_at(v, 0))

\* advance, and what the next key shares with the one it follows.
Ended(m) == [m EXCEPT !.ordinal = @ + 1, !.valid = @ /\ m.frame.next = m.view.extent /\ m.frame.units = m.view.terminal]
advanced(m) ==
  IF m.ordinal + 1 = Size(m.view) THEN Ended(m)
  ELSE Holding([m EXCEPT !.ordinal = @ + 1, !.valid = @ /\ advance_comparison(m.key, next(m.view, m.frame)).order < 0],
               next(m.view, m.frame))
common_after(m) ==
  IF m.ordinal + 1 = Size(m.view) THEN 0 ELSE advance_comparison(m.key, next(m.view, m.frame)).common

\* compare: what each head shares with the last key written may decide.
compare(left, right, left_common, right_common) ==
  CASE AtEnd(left) -> [common |-> 0, order |-> 1]
    [] AtEnd(right) -> [common |-> 0, order |-> -1]
    [] ~AtEnd(left) /\ ~AtEnd(right) /\ left_common # right_common ->
         [common |-> Least(left_common, right_common), order |-> IF left_common > right_common THEN -1 ELSE 1]
    [] OTHER -> LET c == Comparison(From(left.key, left_common), From(right.key, right_common))
                IN  [common |-> left_common + c.common, order |-> c.order]

\* append: a tombstone keeps no more than the frames it comes from.
append_frame(e, s, key, common, value, limit) ==
  AppendFrame(e, s, key, Frame(e, s, key, value, Retained(e, s, common, IF IsTombstone(value) THEN limit ELSE NoLimit)))
append_head(e, m, common, value, limit) ==
  append_frame(e, m.frame.sort, From(m.key, Len(m.frame.path)), common, value, limit)

\* Mutant of KeptByBoth: the newer source's frame alone limits.
KeptByBoth_newer(left, right) == right.frame.retained

KeptByBoth(left, right) == Least(left.frame.retained, right.frame.retained)

\* One key: the smaller head, or both with the newer value.
TakeLeft(s, common) ==
  [s EXCEPT !.output = append_head(@, s.left, s.left_common, s.left.frame.value, s.left.frame.retained),
            !.left = advanced(@), !.left_common = common_after(s.left), !.right_common = common]
TakeRight(s, common) ==
  [s EXCEPT !.output = append_head(@, s.right, s.right_common, s.right.frame.value, s.right.frame.retained),
            !.right = advanced(@), !.right_common = common_after(s.right), !.left_common = common]
TakeBoth(s) ==
  [s EXCEPT !.output = append_head(@, s.left, s.left_common, s.right.frame.value, KeptByBoth(s.left, s.right)),
            !.left = advanced(@), !.left_common = common_after(s.left),
            !.right = advanced(@), !.right_common = common_after(s.right)]
StepBy(s, c) == IF c.order < 0 THEN TakeLeft(s, c.common) ELSE IF c.order > 0 THEN TakeRight(s, c.common) ELSE TakeBoth(s)
step(s) ==
  IF AtEnd(s.left) /\ AtEnd(s.right) THEN s ELSE StepBy(s, compare(s.left, s.right, s.left_common, s.right_common))
merged(older, newer) ==
  FoldLeft(LAMBDA s, i : step(s),
           [left |-> merge_source(older), right |-> merge_source(newer), left_common |-> 0, right_common |-> 0, output |-> Encoder],
           [i \in 1..(Size(older) + Size(newer)) |-> i])

-----------------------------------------------------------------------------
KeysFrom(first) == [i \in 1..(Len(records) - first) |-> records[first + i].key]
ReadBack(v, all) ==
  /\ Decoded(all, <<>>) = KeysFrom(0)
  /\ \A i \in DOMAIN records :
       /\ all[i] = encoded_at(v, i - 1) /\ IsReadable(all[i])
       /\ all[i].sort = records[i].sort /\ all[i].value = records[i].value /\ all[i].units = Len(records[i].key)
       /\ i > 1 => advance_comparison(records[i - 1].key, all[i]) = Comparison(records[i - 1].key, records[i].key)
  /\ records # <<>> => Last(all).next = v.extent /\ Last(all).units = v.terminal
FoundBy(v, query) ==
  LET below == Cardinality({i \in DOMAIN records : Precedes(records[i].key, query)}) IN
  /\ Decoded(Read(v, below, Len(records)), query) = KeysFrom(below)
  /\ \A first \in 0..below : \A lower \in {IF first = 0 THEN Context(query) ELSE with_key(Context(query), records[first].key)} :
       compare_window(Read(v, first, Least(Len(records), first + GroupSize)), lower)
         = [i \in 1..Least(Len(records) - first, GroupSize) |-> with_key(lower, records[first + i].key)]

\* The records split between an older source and a newer one, which hides the older's
\* values where both have a key.
RecordOf(i) == [sort |-> records[i].sort, key |-> From(records[i].key, Len(Path[records[i].sort])), value |-> records[i].value]
Hidden(rec) == [rec EXCEPT !.value = CHOOSE v \in ValuesOf[rec.sort] : Cardinality(ValuesOf[rec.sort]) > 1 => v # rec.value]
Written(chosen, limit) == FoldLeft(LAMBDA e, rec : append(e, rec.sort, rec.key, rec.value, limit), Encoder, chosen)
Built(chosen, limit) == finish(Written(chosen, limit))
Chosen(has, older) ==
  LET at == SetToSortSeq(has, <) IN [j \in DOMAIN at |-> IF at[j] \in older THEN Hidden(RecordOf(at[j])) ELSE RecordOf(at[j])]
KeptBits(v, j, i) == Len(records[i].key) - Len(v.frames[j].suffix)
PlaceIn(has, i) == Cardinality({j \in has : j <= i})
Sources(v, has) == [view |-> v, has |-> has]
KeepsLittle(v, sources) ==
  \A i \in DOMAIN records : IsTombstone(records[i].value) =>
    \A s \in {t \in sources : i \in t.has} :
      KeptBits(v, i, i) <= Largest(Len(Path[records[i].sort]), KeptBits(s.view, PlaceIn(s.has, i), i))
MergesBack(older, newer, m) ==
  /\ m.left.valid /\ m.right.valid /\ AtEnd(m.left) /\ AtEnd(m.right)
  /\ \A v \in {finish(m.output)} : ReadBack(v, Read(v, 0, Len(records))) /\ KeepsLittle(v, {older, newer})
MergedFrom(older, newer) == MergesBack(older, newer, merged(older.view, newer.view))
MergesReadBack ==
  \A has \in SUBSET DOMAIN records : \A both \in SUBSET has : \A older_limit, newer_limit \in Limits :
    MergedFrom(Sources(Built(Chosen(has, both), older_limit), has),
               Sources(Built(Chosen((DOMAIN records \ has) \cup both, {}), newer_limit), (DOMAIN records \ has) \cup both))

(* From the start, from any record of any block and from any query's lower bound,
   records are read with their sorts, keys and values, whether the sort before
   was the same, another or not seen, and whatever a key keeps or a caller lets
   it keep; and a window's comparisons are those of the whole keys.  However the
   records come from two sources, their merge reads back as the records, and a
   tombstone keeps no more than either source let it keep (encoder::append,
   sort_profile_view::next, start_block, payload, sort_profile_merge_builder::step).  *)
ProfilesReadBack ==
  \A v \in {finish(profile)} :
    /\ ReadBack(v, Read(v, 0, Len(records)))
    /\ \A s \in Sorts : \A key \in KeysOf[s] : FoundBy(v, Logical(s, key))
    /\ Len(records) <= MaxMerged /\ profile = Written(Chosen(DOMAIN records, {}), NoLimit) => MergesReadBack
=============================================================================
