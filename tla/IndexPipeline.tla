---------------------------- MODULE IndexPipeline ----------------------------
(***************************************************************************)
(* profile_blob, index_builder, index_pipeline and query: a chain of pairs  *)
(* of a native and an index that borrows every group's first key of the    *)
(* pair before.  A pipeline of builders constructs several pairs at once:  *)
(* samples flow from one to the next as a backspace and a suffix, each      *)
(* builder holds one coming in and one going out, and knows its sources'   *)
(* heads by what they share with the occurrence it passed last.            *)
(***************************************************************************)
EXTENDS IndexStreams

CONSTANTS
  QueryKeys,   \* keys natives and queries have
  Chains       \* sets of keys of the target's native and of each stage's, nearest the target first

VARIABLES
  pairs,       \* finished pairs, the target first
  stages,      \* the builders at work
  sampler      \* the source cursor with its encoder: places in the last pair, key and count sent
pipelineVars == <<pairs, stages, sampler>>

Size(pair) == Len(pair.native) + Len(pair.borrowed)

-----------------------------------------------------------------------------
\* profile_blob: occurrences in order, natives before equal samples.

TakesBorrowed(native, borrowed, a, s) ==
  s < Len(borrowed) /\ (a = Len(native) \/ Precedes(At(borrowed, s)[1], At(native, a)[1]))
Occurrences(native, borrowed) ==
  FoldLeft(LAMBDA m, i : IF TakesBorrowed(native, borrowed, m.a, m.s)
                         THEN [m EXCEPT !.s = @ + 1, !.keys = Append(@, [key |-> At(borrowed, m.s)[1], own |-> FALSE])]
                         ELSE [m EXCEPT !.a = @ + 1, !.keys = Append(@, [key |-> At(native, m.a)[1], own |-> TRUE])],
           [a |-> 0, s |-> 0, keys |-> <<>>], [i \in 1..(Len(native) + Len(borrowed)) |-> i]).keys

\* build_index, from all samples at once.
Pair(native, borrowed) ==
  LET all == Occurrences(native, borrowed)
      Borrowed(n) == Cardinality({i \in 1..n : ~all[i].own})
      First(g) == (g - 1) * GroupSize
      Group == 1..groups(Len(all))
  IN  [native |-> native, borrowed |-> borrowed,
       flags |-> [i \in DOMAIN borrowed |-> Place(native, borrowed[i].key) >= 0],
       classes |-> [g \in Group |-> Borrowed(Least(First(g) + GroupSize, Len(all))) - Borrowed(First(g))],
       cuts |-> [g \in Group |-> IF Borrowed(First(g)) = 0 THEN 0
                                 ELSE CommonBits(borrowed[Borrowed(First(g))].key, all[First(g) + 1].key)]]

\* What another pair borrows of one.
SamplesOf(pair) ==
  LET all == Occurrences(pair.native, pair.borrowed)
  IN  Stream([g \in 1..groups(Len(all)) |-> all[(g - 1) * GroupSize + 1].key])

-----------------------------------------------------------------------------
\* sampling.h: samples relative to the one before, and the cursor over a pair.

encode_known(context, key, ordinal, common) ==
  LET kept == common \div UnitBits
  IN  [backspace |-> Units(context) - kept, suffix |-> From(key, Bits(kept)), ordinal |-> ordinal]
Retained(context, sample) == Bits(Units(context) - sample.backspace)
Decoded(context, sample) == Prefix(context, Retained(context, sample)) \o sample.suffix

Cursor == [native |-> 0, borrowed |-> 0, key |-> <<>>, sent |-> 0]
Source == pairs[Len(pairs)]
SourceDone == sampler.native + sampler.borrowed = Size(Source)
FromBorrowed(s) == TakesBorrowed(Source.native, Source.borrowed, s.native, s.borrowed)
SourceKey ==
  IF FromBorrowed(sampler) THEN At(Source.borrowed, sampler.borrowed)[1] ELSE At(Source.native, sampler.native)[1]
SourceSample ==
  encode_known(sampler.key, SourceKey, sampler.native + sampler.borrowed, CommonBits(sampler.key, SourceKey))
advance_source ==
  LET n == Least(GroupSize, Size(Source) - sampler.native - sampler.borrowed)
      passed == FoldLeft(LAMBDA s, i : IF FromBorrowed(s) THEN [s EXCEPT !.borrowed = @ + 1] ELSE [s EXCEPT !.native = @ + 1],
                         sampler, [i \in 1..n |-> i])
  IN  [passed EXCEPT !.key = Decoded(sampler.key, SourceSample), !.sent = @ + 1]

-----------------------------------------------------------------------------
\* index_builder

Builder(native) ==
  [native |-> native, at |-> 0, borrowed |-> <<>>, flags |-> <<>>, classes |-> <<>>, cuts |-> <<>>, class |-> 0,
   queued |-> FALSE, key |-> <<>>, received |-> 0, closed |-> FALSE, out |-> <<>>, outKey |-> <<>>,
   nativeCommon |-> 0, inputCommon |-> 0, borrowedCommon |-> 0, outgoingCommon |-> 0, pendingCommon |-> 0,
   inputFalse |-> FALSE, previousFalse |-> FALSE]

needs_input(b) == ~b.closed /\ ~b.queued
done(b) == b.closed /\ ~b.queued /\ b.at = Len(b.native) /\ b.out = <<>>

\* accept_compared and check_input_slot.
Accepts(b, sample) ==
  /\ sample.ordinal = b.received * GroupSize
  /\ sample.backspace <= Units(b.key)
  /\ UpTo(From(b.key, Retained(b.key, sample)), sample.suffix)

push(b, sample) ==
  LET kept == Retained(b.key, sample)
      c == Comparison(From(b.key, kept), sample.suffix)
  IN  [b EXCEPT !.queued = TRUE, !.key = Decoded(b.key, sample), !.received = @ + 1,
                !.inputFalse = c.order = 0 /\ b.previousFalse,
                !.inputCommon = kept + c.common, !.borrowedCommon = kept + c.common]

compare_heads(b) ==
  LET native == At(b.native, b.at)
      kept == b.nativeCommon
      c == Comparison(From(native[1], kept), From(b.key, kept))
  IN  IF ~b.queued THEN [common |-> 0, order |-> -1]
      ELSE IF native = <<>> THEN [common |-> 0, order |-> 1]
      ELSE IF b.nativeCommon # b.inputCommon
      THEN [common |-> Least(b.nativeCommon, b.inputCommon), order |-> IF b.nativeCommon > b.inputCommon THEN -1 ELSE 1]
      ELSE [common |-> kept + c.common, order |-> c.order]

\* A group's first occurrence is the sample for the next builder.
Sampled(b, key, common, pending) ==
  LET count == b.at + Len(b.borrowed)
      sample == encode_known(b.outKey, key, count, common)
  IN  IF count % GroupSize # 0 THEN [b EXCEPT !.outgoingCommon = common]
      ELSE [b EXCEPT !.out = <<sample>>, !.outKey = Decoded(b.outKey, sample), !.outgoingCommon = Len(key),
                     !.classes = IF count = 0 THEN @ ELSE Append(@, b.class), !.class = 0,
                     !.cuts = Append(@, IF b.borrowed = <<>> THEN 0 ELSE pending)]

\* Mutant of Pending: only the agreement with the neighbour is kept.
Pending_adjacent(b, edge) == IF b.borrowed = <<>> THEN b.pendingCommon ELSE edge

\* What the next occurrence shares with the last sample taken.
Pending(b, edge) == IF b.borrowed = <<>> THEN b.pendingCommon ELSE Least(b.pendingCommon, edge)

step(b) ==
  LET c == compare_heads(b)
      takes == c.order > 0
      isFalse == b.inputFalse \/ (b.queued /\ c.order = 0)
      key == IF takes THEN b.key ELSE At(b.native, b.at)[1]
      edge == IF takes THEN b.inputCommon ELSE b.nativeCommon
      pending == Pending(b, edge)
      s == Sampled(b, key, Least(b.outgoingCommon, edge), pending)
  IN  IF takes
      THEN [s EXCEPT !.borrowed = Append(@, [key |-> key, retained |-> b.borrowedCommon \div UnitBits]),
                     !.flags = Append(@, isFalse), !.class = @ + 1,
                     !.queued = FALSE, !.previousFalse = isFalse, !.inputFalse = FALSE,
                     !.pendingCommon = Len(key), !.nativeCommon = c.common]
      ELSE [s EXCEPT !.at = @ + 1, !.inputFalse = isFalse, !.pendingCommon = pending,
                     !.inputCommon = c.common, !.nativeCommon = NextCommon(b.native, b.at)]

\* finish: the last group may be a partial one.
Finished(b) ==
  [native |-> b.native, borrowed |-> b.borrowed, flags |-> b.flags, cuts |-> b.cuts,
   classes |-> IF b.at + Len(b.borrowed) = 0 THEN b.classes ELSE Append(b.classes, b.class)]

-----------------------------------------------------------------------------
\* pipeline_driver

Gives(i) == stages[i].out # <<>> /\ (i < Len(stages) => needs_input(stages[i + 1]))
Takes(i) == stages[i].out = <<>> /\ needs_input(stages[i]) /\ (i > 1 => done(stages[i - 1]))
Steps(i) == stages[i].out = <<>> /\ ~needs_input(stages[i]) /\ ~done(stages[i])
Able == {i \in DOMAIN stages : Gives(i) \/ Takes(i) \/ Steps(i)}

PipelineInit ==
  \E c \in Chains :
    /\ pairs = <<Pair(Native(Head(c)), <<>>)>>
    /\ stages = [i \in DOMAIN Tail(c) |-> Builder(Native(Tail(c)[i]))]
    /\ sampler = Cursor

Give(i) ==
  /\ Gives(i)
  /\ i < Len(stages) => Accepts(stages[i + 1], stages[i].out[1])
  /\ stages' = [j \in DOMAIN stages |->
                  IF j = i THEN [stages[j] EXCEPT !.out = <<>>]
                  ELSE IF j = i + 1 THEN push(stages[j], stages[i].out[1]) ELSE stages[j]]
  /\ UNCHANGED sampler

Take(i) ==
  /\ Takes(i)
  /\ IF i = 1 /\ ~SourceDone
     THEN /\ Accepts(stages[1], SourceSample)
          /\ stages' = [stages EXCEPT ![1] = push(@, SourceSample)]
          /\ sampler' = advance_source
     ELSE stages' = [stages EXCEPT ![i].closed = TRUE] /\ UNCHANGED sampler

Step(i) == Steps(i) /\ stages' = [stages EXCEPT ![i] = step(@)] /\ UNCHANGED sampler

\* advance_one: consumers first, so that they release those before them.
advance_one ==
  /\ stages # <<>> /\ ~done(stages[Len(stages)]) /\ Able # {}
  /\ LET i == Max(Able) IN Give(i) \/ Take(i) \/ Step(i)
  /\ UNCHANGED pairs

\* finish_index refuses another number of samples than the pair before has groups.
Drained ==
  \A i \in DOMAIN stages :
    /\ done(stages[i])
    /\ stages[i].received = groups(IF i = 1 THEN Size(Source) ELSE Size(stages[i - 1]))
finish ==
  /\ stages # <<>> /\ Drained
  /\ pairs' = pairs \o [i \in DOMAIN stages |-> Finished(stages[i])]
  /\ stages' = <<>> /\ sampler' = Cursor

\* query_root_builder: pairs without natives until one group is left.
Levels(count) ==
  FoldLeft(LAMBDA l, i : IF l.count > GroupSize THEN [count |-> groups(l.count), levels |-> l.levels + 1] ELSE l,
           [count |-> count, levels |-> 0], [i \in 1..count |-> i]).levels
prepare_root ==
  /\ stages = <<>> /\ Size(Source) > GroupSize
  /\ stages' = [i \in 1..Levels(Size(Source)) |-> Builder(<<>>)]
  /\ UNCHANGED <<pairs, sampler>>

PipelineNext == advance_one \/ finish \/ prepare_root

-----------------------------------------------------------------------------
\* profile_blob_view and query_cursor.  No sample, or no native, is -1.

project(pair, group) ==
  LET first == group * GroupSize
      last == Least(first + GroupSize, Size(pair))
      a == Sum(Prefix(pair.classes, group))
      b == a + pair.classes[group + 1]
  IN  [native |-> <<first - a, last - b>>, borrowed |-> <<a, b>>]

NoPredecessor == [last |-> -1, names |-> FALSE]

\* The last sample not after the query, and whether it, or another in the window, repeats the native before.
PredecessorAmong(pair, first, contexts, upTo, cut) ==
  IF upTo # {}
  THEN [last |-> first + Max(upTo) - 1, context |-> contexts[Max(upTo)],
        names |-> \E i \in upTo : contexts[i].order = 0 /\ pair.flags[first + i]]
  ELSE IF first > 0 THEN [last |-> first - 1, context |-> cut, names |-> cut.order = 0 /\ pair.flags[first]]
  ELSE NoPredecessor
PredecessorBy(pair, first, contexts, cut) == PredecessorAmong(pair, first, contexts, Having(contexts, {-1, 0}), cut)

Found(first, equal, p) ==
  [native |-> IF equal # {} THEN first + Min(equal) - 1 ELSE IF p.names THEN first - 1 ELSE -1, predecessor |-> p]
search_window(pair, group, window, lower) ==
  Found(window.native[1], Having(compare_window(pair.native, window.native, lower), {0}),
        PredecessorBy(pair, window.borrowed[1], compare_window(pair.borrowed, window.borrowed, lower),
                      predecessor(lower, pair.cuts[group + 1])))

\* The walk from the last pair to the target: the native found in each pair.
\* A sample's ordinal is the group of the pair before that it begins.
Onward(walk, here) ==
  [group |-> here.predecessor.last,
   context |-> IF here.predecessor = NoPredecessor THEN walk.context ELSE here.predecessor.context,
   found |-> <<here.native>> \o walk.found]
Walk(key) ==
  FoldLeft(LAMBDA walk, n :
             IF walk.group = -1 THEN walk
             ELSE Onward(walk, search_window(pairs[n], walk.group, project(pairs[n], walk.group), walk.context)),
           [group |-> IF Size(Source) = 0 THEN -1 ELSE 0, context |-> Context(key), found |-> <<>>],
           Reverse([n \in DOMAIN pairs |-> n])).found

-----------------------------------------------------------------------------
(* A pipeline never stops short: until its last stage is done some stage can
   move, no stage refuses what another hands it, and then all are done with as
   many samples as their target has groups (advance_one, accept_compared,
   finish_index).  It builds what build_index makes of the target's samples all
   at once, and from a root of one group every query finds each native of the
   chain that has its key, at its place, and nothing else (search_window).  *)
PipelinesBuildTheIndex ==
  /\ stages # <<>> =>
       IF done(Last(stages)) THEN Drained
       ELSE /\ Able # {}
            /\ \A i \in {Max(Able)} :
                 /\ Gives(i) /\ i < Len(stages) => Accepts(stages[i + 1], stages[i].out[1])
                 /\ Takes(i) /\ i = 1 /\ ~SourceDone => Accepts(stages[1], SourceSample)
  /\ \A i \in 2..Len(pairs) : pairs[i] = Pair(pairs[i].native, SamplesOf(pairs[i - 1]))
  /\ stages = <<>> /\ Size(Source) <= GroupSize =>
       \A key \in QueryKeys : \A found \in {Walk(key)} : \A i \in DOMAIN pairs :
         LET skipped == Len(pairs) - Len(found)
         IN  Place(pairs[i].native, key) = IF i <= skipped THEN -1 ELSE found[i - skipped]
=============================================================================
