-------------------------- MODULE FractionalIndex ---------------------------
(***************************************************************************)
(* cola_index and cola_query: a chain of main nodes, each with a native run, *)
(* an optional secondary native leaf, and samples of both targets merged    *)
(* among its own keys.  A builder merges one occurrence at a time, knowing  *)
(* of each source only how much its head shares with the occurrence before; *)
(* a query walks the chain through one window per node.                    *)
(*                                                                         *)
(* Origins are 1 for the native, 2 and 3 for samples of main and secondary. *)
(* A stream is its keys, each with the units it keeps of the one before.   *)
(***************************************************************************)
EXTENDS IndexStreams

CONSTANTS
  IndexKeys,   \* keys natives and queries have
  Plans        \* chains to build: sequences of [native, secondary], the last node first

VARIABLES
  builder,     \* the builder at work, or NoBuilder
  chain,       \* the newest node, or Nil
  plan         \* what is still to be built
indexVars == <<builder, chain, plan>>

Nil == [count |-> 0]
NoSecondary == <<>>
NoBuilder == [native |-> <<>>]
Origin == 1..3
Route == 1..2
-----------------------------------------------------------------------------
\* choose_frontier: heads that all follow one occurrence, of which they share
\* prefixes; the one that shares more comes first, and ties go by origin.
HeadComparison(prefixes, heads, o, p) ==
  LET kept == prefixes[o]
      c == Comparison(From(heads[o][1], kept), From(heads[p][1], kept))
  IN  IF prefixes[o] # prefixes[p]
      THEN [common |-> Least(prefixes[o], prefixes[p]), order |-> IF prefixes[o] > prefixes[p] THEN -1 ELSE 1]
      ELSE [common |-> kept + c.common, order |-> c.order]

\* Mutant of Wins: the losers' agreement with an earlier winner is kept.
Wins_stale(s, o, length, common) == [origin |-> o, common |-> [s.common EXCEPT ![o] = length, ![s.origin] = common]]

Wins(s, o, length, common) ==
  [origin |-> o,
   common |-> [i \in Origin |-> IF i = o THEN length ELSE IF i < o THEN Least(s.common[i], common) ELSE 0]]

Challenge(s, heads, o, c) ==
  IF c.order < 0 THEN Wins(s, o, Len(heads[o][1]), c.common) ELSE [s EXCEPT !.common[o] = c.common]
choose_frontier(prefixes, heads) ==
  FoldLeft(LAMBDA s, o :
             IF heads[o] = <<>> THEN s
             ELSE IF s.origin = 0 THEN [origin |-> o, common |-> [s.common EXCEPT ![o] = Len(heads[o][1])]]
             ELSE Challenge(s, heads, o, HeadComparison(prefixes, heads, o, s.origin)),
           [origin |-> 0, common |-> <<0, 0, 0>>], <<1, 2, 3>>)

\* cola_sample_cursor: the first of every group of a node's occurrences.
Lists(node) == <<node.native, node.borrowed[1], node.borrowed[2]>>
SamplerHeads(node, at) == [o \in Origin |-> At(Lists(node)[o], at[o])]
Sampler == [ordinal |-> 0, at |-> <<0, 0, 0>>, prefixes |-> <<0, 0, 0>>, common |-> 0]
SampledBy(node, sampler) == choose_frontier(sampler.prefixes, SamplerHeads(node, sampler.at))
Sample(node, sampler) ==
  IF node = Nil \/ sampler.ordinal = node.count THEN <<>>
  ELSE SamplerHeads(node, sampler.at)[SampledBy(node, sampler).origin]

\* One occurrence passed; common gathers the least agreement of neighbours.
PassedHead(node, s, chosen) ==
  [s EXCEPT !.ordinal = @ + 1, !.at[chosen.origin] = @ + 1,
            !.prefixes = [chosen.common EXCEPT ![chosen.origin] = NextCommon(Lists(node)[chosen.origin], s.at[chosen.origin])]]
Agreed(node, s) ==
  [s EXCEPT !.common = IF s.ordinal = node.count THEN 0 ELSE Least(@, s.prefixes[SampledBy(node, s).origin])]
Passed(node, s) == Agreed(node, PassedHead(node, s, SampledBy(node, s)))

PassedGroup(node, sampler, key) ==
  FoldLeft(LAMBDA s, i : Passed(node, s), [sampler EXCEPT !.common = Len(key)],
           [i \in 1..Least(GroupSize, node.count - sampler.ordinal) |-> i])
advance_comparison(node, sampler) == PassedGroup(node, sampler, Sample(node, sampler)[1])

-----------------------------------------------------------------------------
\* cola_index_builder

Builder(native, main, secondary) ==
  [native |-> native, main |-> main, secondary |-> secondary,
   at |-> 0, sampler |-> Sampler, leaf |-> 0, prefixes |-> <<0, 0, 0>>,
   borrowed |-> <<<<>>, <<>>>>, flags |-> <<<<>>, <<>>>>, cuts |-> <<<<>>, <<>>>>, classes |-> <<<<>>, <<>>>>,
   cut |-> <<0, 0>>, population |-> <<0, 0>>, length |-> 0, count |-> 0, width |-> 0, equal |-> FALSE]

HasTargets(b) == b.main # Nil \/ b.secondary # NoSecondary
heads(b) == <<At(b.native, b.at), Sample(b.main, b.sampler), At(b.secondary, b.leaf)>>
Finished(b) == IF HasTargets(b) THEN heads(b) = <<<<>>, <<>>, <<>>>> ELSE b.count = Len(b.native)

\* Mutant of FlagOf: equality with a native counts for the next key too.
FlagOf_sticky(b, origin, equal) == origin = 1 \/ b.equal

\* Whether the occurrence equals a native before it.
FlagOf(b, origin, equal) == origin = 1 \/ (equal /\ b.equal)

flush_group(b) ==
  IF b.width < GroupSize THEN b
  ELSE [b EXCEPT !.classes = [r \in Route |-> Append(@[r], b.population[r])], !.population = <<0, 0>>, !.width = 0]

\* The secondary passes a group of its keys.
LeafCommon(b, key) ==
  LET passed == Least(GroupSize, Len(b.secondary) - b.leaf)
  IN  Min({Len(key)} \cup {NextCommon(b.secondary, b.leaf + i) : i \in 0..(passed - 1)})

\* The cuts against this occurrence, and whether it equals the one before.
Cut(b, common) == [i \in Route |-> IF b.borrowed[i] = <<>> THEN 0 ELSE Least(b.cut[i], common)]
EqualsLast(b, key, common) == b.count > 0 /\ common = b.length /\ Len(key) = b.length

\* What a native, or a sample of route r with its retained units, adds.
TakeNative(b, key, cut) == [b EXCEPT !.cut = cut, !.at = @ + 1]
TakeSample(b, r, key, cut, isEqual, sampler) ==
  [b EXCEPT !.borrowed[r] = Append(@, [key |-> key, retained |-> cut[r] \div UnitBits]),
            !.flags[r] = Append(@, isEqual), !.population[r] = @ + 1,
            !.cut = [cut EXCEPT ![r] = Len(key)], !.sampler = sampler,
            !.leaf = IF r = 2 THEN Least(@ + GroupSize, Len(b.secondary)) ELSE @]

NextPrefix(b, o, key, sampler) ==
  CASE o = 1 -> NextCommon(b.native, b.at) [] o = 2 -> sampler.common [] o = 3 -> LeafCommon(b, key)
StepWith(b, chosen, o, key, cut, isEqual, sampler) ==
  [IF o = 1 THEN TakeNative(b, key, cut) ELSE TakeSample(b, o - 1, key, cut, isEqual, sampler) EXCEPT
     !.cuts = IF b.width = 0 THEN [i \in Route |-> Append(@[i], cut[i])] ELSE @,
     !.equal = isEqual, !.length = Len(key), !.count = @ + 1, !.width = @ + 1,
     !.prefixes = [chosen.common EXCEPT ![o] = NextPrefix(b, o, key, sampler)]]
StepKey(b, chosen, o, key) ==
  StepWith(b, chosen, o, key, Cut(b, b.prefixes[o]), FlagOf(b, o, EqualsLast(b, key, b.prefixes[o])),
           IF o = 2 THEN advance_comparison(b.main, b.sampler) ELSE b.sampler)
StepFrom(b, sources, chosen) == StepKey(b, chosen, chosen.origin, sources[chosen.origin][1])
StepAmong(b, sources) == StepFrom(b, sources, choose_frontier(b.prefixes, sources))
step(b) == flush_group(StepAmong(b, heads(b)))

\* Without targets only the count matters, and a step takes what its budget and group leave.
step_terminal(b, chunk) ==
  flush_group([b EXCEPT !.cuts = IF b.width = 0 THEN [i \in Route |-> Append(@[i], 0)] ELSE @,
                        !.count = @ + chunk, !.width = @ + chunk])
Chunks(b) == 1..Least(GroupSize - b.width, Len(b.native) - b.count)

\* finish: a last partial group is flushed too.
Node(b) ==
  [native |-> b.native, main |-> b.main, secondary |-> b.secondary, borrowed |-> b.borrowed, flags |-> b.flags,
   cuts |-> b.cuts, count |-> b.count,
   classes |-> IF b.width = 0 THEN b.classes ELSE [r \in Route |-> Append(b.classes[r], b.population[r])]]

Init == plan \in Plans /\ chain = Nil /\ builder = NoBuilder

Begin ==
  /\ builder = NoBuilder /\ plan # <<>>
  /\ builder' = Builder(Native(Head(plan).native), chain, Native(Head(plan).secondary))
  /\ plan' = Tail(plan) /\ UNCHANGED chain

\* prepare_root: empty nodes until one group of samples is left.
BeginRoot ==
  /\ builder = NoBuilder /\ plan = <<>> /\ chain.count > GroupSize
  /\ builder' = Builder(<<>>, chain, NoSecondary) /\ UNCHANGED <<chain, plan>>

Step ==
  /\ builder # NoBuilder /\ ~Finished(builder)
  /\ IF HasTargets(builder) THEN builder' = step(builder)
     ELSE \E chunk \in Chunks(builder) : builder' = step_terminal(builder, chunk)
  /\ UNCHANGED <<chain, plan>>

Finish ==
  /\ builder # NoBuilder /\ Finished(builder)
  /\ chain' = Node(builder) /\ builder' = NoBuilder /\ UNCHANGED plan

Next == Begin \/ BeginRoot \/ Step \/ Finish

-----------------------------------------------------------------------------
\* Queries.  No match, or no predecessor, is None.

None == [target |-> -1, names |-> FALSE]

\* project: a group's part of the native and of each stream of samples.
project(node, group) ==
  LET first == group * GroupSize
      width == Least(GroupSize, node.count - first)
      before == [r \in Route |-> Sum(Prefix(node.classes[r], group))]
      here == [r \in Route |-> node.classes[r][group + 1]]
      native == first - before[1] - before[2]
  IN  [native |-> <<native, native + width - here[1] - here[2]>>,
       borrowed |-> [r \in Route |-> <<before[r], before[r] + here[r]>>]]

\* The last sample not after the query: in the window, or before it by its cut.
PredecessorAmong(node, r, first, contexts, upTo, cut) ==
  IF upTo # {}
  THEN [target |-> (first + Max(upTo) - 1) * GroupSize, context |-> contexts[Max(upTo)],
        names |-> \E i \in upTo : contexts[i].order = 0 /\ node.flags[r][first + i]]
  ELSE IF first > 0
  THEN [target |-> (first - 1) * GroupSize, context |-> cut, names |-> cut.order = 0 /\ node.flags[r][first]]
  ELSE None
PredecessorBy(node, r, first, contexts, cut) ==
  PredecessorAmong(node, r, first, contexts, Having(contexts, {-1, 0}), cut)
Predecessor(node, group, window, lower, r) ==
  PredecessorBy(node, r, window.borrowed[r][1], compare_window(node.borrowed[r], window.borrowed[r], lower),
                predecessor(lower, node.cuts[r][group + 1]))

\* A sample equal to the query that repeats a native before the window names it.
NamesNative(ps) == \E r \in Route : ps[r].names

\* From the comparisons of a window's natives and the samples' predecessors.
search_window(first, equal, ps) ==
  IF equal # {} THEN first + Min(equal) - 1 ELSE IF NamesNative(ps) THEN first - 1 ELSE -1
lower_bound_window(native, equal, notBelow, ps) ==
  IF equal = {} /\ NamesNative(ps) THEN native[1] - 1
  ELSE IF notBelow = {} THEN native[2] ELSE native[1] + Min(notBelow) - 1

\* visit_secondary: a sample of a leaf names one window of its keys.
search_secondary(leaf, p) ==
  LET equal == Having(compare_window(leaf, <<p.target, Least(p.target + GroupSize, Len(leaf))>>, p.context), {0})
  IN  IF equal = {} THEN -1 ELSE p.target + Min(equal) - 1

\* The walk of cola_query_cursor: each node's matches, and its lower bound.
Found(node, native, contexts, ps) ==
  [native |-> search_window(native[1], Having(contexts, {0}), ps),
   lower_bound |-> lower_bound_window(native, Having(contexts, {0}), Having(contexts, {0, 1}), ps),
   secondary |-> IF ps[2] = None THEN -1 ELSE search_secondary(node.secondary, ps[2]),
   next |-> ps[1]]
Visit(node, group, window, context) ==
  Found(node, window.native, compare_window(node.native, window.native, context),
        [r \in Route |-> Predecessor(node, group, window, context, r)])
Onward(walk, here) ==
  [group |-> IF here.next = None THEN -1 ELSE here.next.target \div GroupSize,
   context |-> IF here.next = None THEN walk.context ELSE here.next.context,
   found |-> Append(walk.found, here)]
Walk(nodes, key) ==
  FoldLeft(LAMBDA walk, node :
             IF walk.group = -1 THEN walk
             ELSE Onward(walk, Visit(node, walk.group, project(node, walk.group), walk.context)),
           [group |-> 0, context |-> Context(key), found |-> <<>>], nodes).found

-----------------------------------------------------------------------------
RECURSIVE Nodes(_)
Nodes(node) == IF node = Nil THEN <<>> ELSE <<node>> \o Nodes(node.main)

(* From a prepared root, a query meets every native and every leaf of the chain
   that has the key, at its place, and nothing else, though it looks at one
   window of each; where its walk ends early, all that follows lies above the
   query.  In every native it passes it finds the lower bound (search_window,
   lower_bound_window, the builder's flags, cuts and ranks).  *)
Matches(nodes, key, walk) ==
  /\ \A i \in DOMAIN walk :
       /\ walk[i].native = Place(nodes[i].native, key)
       /\ walk[i].secondary = Place(nodes[i].secondary, key)
       /\ walk[i].lower_bound = Below(nodes[i].native, key)
  /\ \A i \in (Len(walk) + 1)..Len(nodes) :
       Below(nodes[i].native, key) + Below(nodes[i].secondary, key) = 0
       /\ Place(nodes[i].native, key) = -1 /\ Place(nodes[i].secondary, key) = -1
QueriesFindEveryMatch ==
  builder = NoBuilder /\ plan = <<>> /\ chain.count \in 1..GroupSize =>
    \A nodes \in {Nodes(chain)} : \A key \in IndexKeys : Matches(nodes, key, Walk(nodes, key))

Taken(b) ==
  [o \in Origin |-> IF o = 1 THEN Prefix(b.native, b.at) ELSE b.borrowed[o - 1]]
LastKey(b) ==
  LET all == UNION {{Taken(b)[o][i].key : i \in DOMAIN Taken(b)[o]} : o \in Origin}
  IN  CHOOSE k \in all : \A other \in all : UpTo(other, k)

(* At every step each source's head shares with the last occurrence exactly what
   the builder believes, a sample's flag says whether the native holds its key,
   and a stream of samples holds the first key of every group of its target, each
   keeping what it shares with the one before (step, advance_comparison).  *)
FrontierIsExact ==
  builder # NoBuilder /\ HasTargets(builder) /\ builder.count > 0 =>
    /\ \A o \in Origin : heads(builder)[o] # <<>> =>
         builder.prefixes[o] = CommonBits(LastKey(builder), heads(builder)[o][1])
    /\ \A r \in Route : \A i \in DOMAIN builder.borrowed[r] :
         LET b == builder.borrowed[r] IN
         /\ builder.flags[r][i] <=> Place(builder.native, b[i].key) >= 0
         /\ b[i].retained = IF i = 1 THEN 0 ELSE CommonBits(b[i - 1].key, b[i].key) \div UnitBits
=============================================================================
