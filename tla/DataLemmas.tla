---------------------------- MODULE DataLemmas -----------------------------
(***************************************************************************)
(* What the proofs use of lists and of sums.                               *)
(*                                                                         *)
(* Lists that hold no element twice, as std::list and the queues of the    *)
(* runtime use them: what the set of their elements becomes under          *)
(* push_back, pop_front, push_front and erase.                             *)
(*                                                                         *)
(* Sums over finite sets, as counters that are kept by adding and          *)
(* subtracting one charge at a time compute them.  MapThenSumSet folds a   *)
(* set in an order CHOOSE picks.  That the sum does not depend on the      *)
(* order, and that the recursion defines it at all, is proved by           *)
(* well-founded induction on the finite subsets of a set: a smallest set   *)
(* for which the claim fails leads to a smaller one.                       *)
(***************************************************************************)
EXTENDS Integers, Sequences, SequencesExt, SequenceTheorems, FiniteSetTheorems, TLAPS

-----------------------------------------------------------------------------
(* Lists *)

\* list::empty.
LEMMA EmptyElements ==
  ASSUME NEW S, NEW s \in Seq(S)
  PROVE  ToSet(s) = {} <=> s = <<>>
  <1>1. s # <<>> => 1 \in DOMAIN s
    OBVIOUS
  <1>2. s # <<>> => s[1] \in ToSet(s)
    BY <1>1 DEF ToSet
  <1>3. ToSet(<<>>) = {}
    BY DEF ToSet
  <1>4. QED
    BY <1>2, <1>3

\* list::push_back of an element the list does not hold.
LEMMA AppendElements ==
  ASSUME NEW S, NEW s \in Seq(S), NEW e \in S
  PROVE  /\ Append(s, e) \in Seq(S)
         /\ ToSet(Append(s, e)) = ToSet(s) \cup {e}
         /\ IsInjective(s) /\ e \notin ToSet(s) => IsInjective(Append(s, e))
  <1> DEFINE t == Append(s, e)
  <1>1. t \in Seq(S) /\ Len(t) = Len(s) + 1 /\ t[Len(s) + 1] = e
    OBVIOUS
  <1>2. \A i \in DOMAIN s : i \in DOMAIN t /\ t[i] = s[i]
    OBVIOUS
  <1>3. DOMAIN t = DOMAIN s \cup {Len(s) + 1}
    OBVIOUS
  <1> HIDE DEF t
  <1>4. ToSet(t) = ToSet(s) \cup {e}
    BY <1>1, <1>2, <1>3 DEF ToSet
  <1>5. IsInjective(s) /\ e \notin ToSet(s) => IsInjective(t)
    BY <1>1, <1>2, <1>3 DEF ToSet, IsInjective
  <1>6. QED
    BY <1>1, <1>4, <1>5 DEF t

\* list::pop_front.
LEMMA TailElements ==
  ASSUME NEW S, NEW s \in Seq(S), s # <<>>, IsInjective(s)
  PROVE  /\ Head(s) \in S
         /\ Tail(s) \in Seq(S)
         /\ Head(s) \in ToSet(s)
         /\ ToSet(Tail(s)) = ToSet(s) \ {Head(s)}
         /\ IsInjective(Tail(s))
  <1>1. Tail(s) \in Seq(S) /\ Head(s) \in S /\ Head(s) \in ToSet(s)
    BY DEF ToSet
  <1>2. \A i \in DOMAIN Tail(s) : Tail(s)[i] = s[i + 1] /\ i + 1 \in DOMAIN s
    OBVIOUS
  <1>3. \A i \in DOMAIN s : i # 1 => i - 1 \in DOMAIN Tail(s) /\ Tail(s)[i - 1] = s[i]
    OBVIOUS
  <1>4. IsInjective(Tail(s))
    BY <1>2 DEF IsInjective
  <1>5. ToSet(Tail(s)) = ToSet(s) \ {Head(s)}
    <2>1. ToSet(Tail(s)) \subseteq ToSet(s)
      BY <1>2 DEF ToSet
    <2>2. Head(s) \notin ToSet(Tail(s))
      <3>1. \A i \in DOMAIN Tail(s) : s[i + 1] # s[1]
        BY <1>2 DEF IsInjective
      <3>2. QED
        BY <3>1, <1>2 DEF ToSet
    <2>3. ASSUME NEW i \in DOMAIN s
          PROVE  s[i] \in ToSet(Tail(s)) \cup {Head(s)}
      <3>1. CASE i = 1
        BY <3>1
      <3>2. CASE i # 1
        BY <3>2, <1>3 DEF ToSet
      <3>3. QED
        BY <3>1, <3>2
    <2>4. QED
      BY <2>1, <2>2, <2>3, <1>1 DEF ToSet
  <1>6. QED
    BY <1>1, <1>4, <1>5

\* The claimed request is put in front of the queue it was taken from.
LEMMA PrependElements ==
  ASSUME NEW S, NEW s \in Seq(S), NEW e \in S
  PROVE  /\ <<e>> \o s \in Seq(S)
         /\ ToSet(<<e>> \o s) = ToSet(s) \cup {e}
         /\ IsInjective(s) /\ e \notin ToSet(s) => IsInjective(<<e>> \o s)
  <1> DEFINE t == <<e>> \o s
  <1>1. t \in Seq(S) /\ Len(t) = Len(s) + 1 /\ t[1] = e
    OBVIOUS
  <1>2. \A i \in DOMAIN t : i # 1 => i - 1 \in DOMAIN s /\ t[i] = s[i - 1]
    OBVIOUS
  <1>3. \A i \in DOMAIN s : i + 1 \in DOMAIN t /\ t[i + 1] = s[i]
    OBVIOUS
  <1>4. 1 \in DOMAIN t
    BY <1>1
  <1> HIDE DEF t
  <1>5. ToSet(t) = ToSet(s) \cup {e}
    BY <1>1, <1>2, <1>3, <1>4 DEF ToSet
  <1>6. IsInjective(s) /\ e \notin ToSet(s) => IsInjective(t)
    BY <1>1, <1>2 DEF IsInjective, ToSet
  <1>7. QED
    BY <1>1, <1>5, <1>6 DEF t

\* list::erase moves what stands after the element up by one.
LEMMA ErasedAt ==
  ASSUME NEW S, NEW s \in Seq(S), NEW k \in DOMAIN s
  PROVE  /\ RemoveAt(s, k) \in Seq(S)
         /\ Len(RemoveAt(s, k)) = Len(s) - 1
         /\ \A i \in DOMAIN RemoveAt(s, k) : RemoveAt(s, k)[i] = IF i < k THEN s[i] ELSE s[i + 1]
  <1> DEFINE a == SubSeq(s, 1, k - 1)
             b == SubSeq(s, k + 1, Len(s))
             t == a \o b
  <1>1. k \in 1..Len(s)
    OBVIOUS
  <1>2. /\ a \in Seq(S) /\ Len(a) = k - 1
        /\ \A i \in 1..(k - 1) : a[i] = s[i]
    BY <1>1, SubSeqProperties
  <1>3. /\ b \in Seq(S) /\ Len(b) = Len(s) - k
        /\ \A i \in 1..(Len(s) - k) : b[i] = s[k + i]
    BY <1>1, SubSeqProperties
  <1>6. t = RemoveAt(s, k)
    BY DEF RemoveAt
  <1> HIDE DEF a, b
  <1>4. t \in Seq(S) /\ Len(t) = Len(s) - 1
    BY <1>1, <1>2, <1>3
  <1>5. \A i \in DOMAIN t : t[i] = IF i < k THEN s[i] ELSE s[i + 1]
    <2>1. \A i \in 1..(Len(s) - 1) : t[i] = IF i <= k - 1 THEN a[i] ELSE b[i - (k - 1)]
      <3>1. \A i \in 1..(Len(a) + Len(b)) : t[i] = IF i <= Len(a) THEN a[i] ELSE b[i - Len(a)]
        BY <1>2, <1>3, ConcatProperties
      <3>2. Len(a) = k - 1 /\ Len(a) + Len(b) = Len(s) - 1
        BY <1>1, <1>2, <1>3
      <3> HIDE DEF t
      <3>3. QED
        BY <3>1, <3>2
    <2>2. \A i \in 1..(Len(s) - 1) : ~(i <= k - 1) => b[i - (k - 1)] = s[i + 1]
      BY <1>1, <1>3
    <2> HIDE DEF t
    <2>3. DOMAIN t = 1..(Len(s) - 1)
      BY <1>4
    <2>4. ASSUME NEW i \in 1..(Len(s) - 1)
          PROVE  t[i] = IF i < k THEN s[i] ELSE s[i + 1]
      BY <2>1, <2>2, <1>1, <1>2
    <2>5. QED
      BY <2>3, <2>4
  <1> HIDE DEF t
  <1>7. QED
    BY <1>4, <1>5, <1>6

\* list::erase of one element.
LEMMA RemoveElements ==
  ASSUME NEW S, NEW s \in Seq(S), NEW k \in DOMAIN s, IsInjective(s)
  PROVE  /\ RemoveAt(s, k) \in Seq(S)
         /\ ToSet(RemoveAt(s, k)) = ToSet(s) \ {s[k]}
         /\ IsInjective(RemoveAt(s, k))
  <1> DEFINE t == RemoveAt(s, k)
  <1>1. k \in 1..Len(s)
    OBVIOUS
  <1>4. t \in Seq(S) /\ Len(t) = Len(s) - 1
    BY ErasedAt
  <1>5. \A i \in DOMAIN t : t[i] = IF i < k THEN s[i] ELSE s[i + 1]
    BY ErasedAt
  <1>6. t = RemoveAt(s, k)
    OBVIOUS
  <1> HIDE DEF t
  <1>7. IsInjective(t)
    BY <1>1, <1>4, <1>5 DEF IsInjective
  <1>8. ToSet(t) \subseteq ToSet(s) \ {s[k]}
    BY <1>1, <1>4, <1>5 DEF IsInjective, ToSet
  <1>9. ASSUME NEW i \in DOMAIN s, i # k
        PROVE  s[i] \in ToSet(t)
    <2>1. CASE i < k
      BY <2>1, <1>1, <1>4, <1>5 DEF ToSet
    <2>2. CASE i > k
      <3>1. i - 1 \in DOMAIN t /\ t[i - 1] = s[i]
        BY <2>2, <1>1, <1>4, <1>5
      <3>2. QED
        BY <3>1 DEF ToSet
    <2>3. QED
      BY <2>1, <2>2, <1>1, <1>9
  <1>10. QED
    BY <1>4, <1>6, <1>7, <1>8, <1>9 DEF ToSet

-----------------------------------------------------------------------------
(* Sums *)

Chosen(s) == CHOOSE x \in s : TRUE

\* g sums the weights w over every subset of S.
Sums(g, w, S) ==
  g = [s \in SUBSET S |-> IF s = {} THEN 0 ELSE w[Chosen(s)] + g[s \ {Chosen(s)}]]

\* The sum of the weights w over S.
Total(w, S) == (CHOOSE g : Sums(g, w, S))[S]

-----------------------------------------------------------------------------
(* The recursion defines the sum. *)

\* A property of finite sets that fails has a smallest set it fails for.
LEMMA SmallestSet ==
  ASSUME NEW R, NEW Bad, Bad \subseteq FiniteSubsetsOf(R), Bad # {}
  PROVE  \E T \in Bad : \A U \in Bad : ~(U \subseteq T /\ U # T)
<1>1. PICK T \in Bad : \A U \in Bad : <<U, T>> \notin StrictSubsetOrdering(R)
  BY FS_StrictSubsetOrderingWellFounded, WFMin
<1>2. \A U \in Bad : U \subseteq R
  BY DEF FiniteSubsetsOf
<1>3. QED
  BY <1>1, <1>2 DEF StrictSubsetOrdering

\* CHOOSE picks a member.
LEMMA ChosenIn ==
  ASSUME NEW s, s # {}
  PROVE  Chosen(s) \in s
  BY DEF Chosen

\* The equation of a sum at one subset.
LEMMA SumsAt ==
  ASSUME NEW g, NEW w, NEW S, Sums(g, w, S), NEW s \in SUBSET S
  PROVE  g[s] = IF s = {} THEN 0 ELSE w[Chosen(s)] + g[s \ {Chosen(s)}]
  BY DEF Sums

\* Two sums agree where both are defined.
LEMMA SumsAgree ==
  ASSUME NEW g, NEW h, NEW w, NEW S, NEW U, IsFiniteSet(S), Sums(g, w, S), Sums(h, w, U),
         NEW s, s \subseteq S, s \subseteq U
  PROVE  g[s] = h[s]
<1> DEFINE Bad == {t \in FiniteSubsetsOf(S) : t \subseteq U /\ g[t] # h[t]}
<1> SUFFICES ASSUME Bad # {} PROVE FALSE
  <2>1. IsFiniteSet(s)
    BY FS_Subset
  <2>2. QED
    BY <2>1 DEF FiniteSubsetsOf
<1>1. PICK t \in Bad : \A u \in Bad : ~(u \subseteq t /\ u # t)
  <2>1. Bad \subseteq FiniteSubsetsOf(S)
    OBVIOUS
  <2> HIDE DEF Bad
  <2>2. QED
    BY <2>1, SmallestSet
<1>2. t \in SUBSET S /\ t \in SUBSET U /\ IsFiniteSet(t)
  BY DEF FiniteSubsetsOf
<1>3. CASE t = {}
  BY <1>1, <1>2, <1>3, SumsAt
<1>4. CASE t # {}
  <2> DEFINE u == t \ {Chosen(t)}
  <2>1. u \subseteq t /\ u # t
    BY <1>4, ChosenIn
  <2>2. u \in FiniteSubsetsOf(S) /\ u \subseteq U
    BY <1>2, <2>1, FS_Subset DEF FiniteSubsetsOf
  <2>3. g[u] = h[u]
    BY <1>1, <2>1, <2>2
  <2>4. g[t] = w[Chosen(t)] + g[u] /\ h[t] = w[Chosen(t)] + h[u]
    BY <1>2, <1>4, SumsAt
  <2>5. QED
    BY <1>1, <2>3, <2>4
<1>5. QED
  BY <1>3, <1>4

\* Every finite set has one.
LEMMA SumsExist ==
  ASSUME NEW w, NEW S, IsFiniteSet(S)
  PROVE  \E g : Sums(g, w, S)
<1> DEFINE Bad == {t \in FiniteSubsetsOf(S) : ~ \E g : Sums(g, w, t)}
<1> SUFFICES ASSUME Bad # {} PROVE FALSE
  BY DEF FiniteSubsetsOf
<1>1. PICK t \in Bad : \A u \in Bad : ~(u \subseteq t /\ u # t)
  <2>1. Bad \subseteq FiniteSubsetsOf(S)
    OBVIOUS
  <2> HIDE DEF Bad
  <2>2. QED
    BY <2>1, SmallestSet
<1>2. t \in SUBSET S /\ IsFiniteSet(t)
  BY DEF FiniteSubsetsOf
<1> DEFINE Part(u) == CHOOSE g : Sums(g, w, u)
<1>3. ASSUME NEW u, u \subseteq t, u # t
      PROVE  IsFiniteSet(u) /\ Sums(Part(u), w, u)
  <2>1. u \in FiniteSubsetsOf(S) /\ IsFiniteSet(u)
    BY <1>2, <1>3, FS_Subset DEF FiniteSubsetsOf
  <2>2. \E g : Sums(g, w, u)
    BY <1>1, <1>3, <2>1
  <2>3. QED
    BY <2>1, <2>2
<1> DEFINE Rest(u) == u \ {Chosen(u)}
<1> DEFINE h == [u \in SUBSET t |-> IF u = {} THEN 0 ELSE w[Chosen(u)] + Part(Rest(u))[Rest(u)]]
<1>7. ASSUME NEW g, NEW s, Sums(g, w, s), s # {}
      PROVE  g[s] = w[Chosen(s)] + g[Rest(s)]
  <2>1. s \in SUBSET s
    OBVIOUS
  <2>2. QED
    BY <1>7, <2>1, SumsAt
<1>4. ASSUME NEW u \in SUBSET t, u # {}
      PROVE  h[Rest(u)] = Part(Rest(u))[Rest(u)]
  <2> DEFINE v == Rest(u)
  <2>1. v \in SUBSET t /\ v # t /\ Chosen(u) \in u
    BY <1>4, ChosenIn
  <2>2. IsFiniteSet(v) /\ Sums(Part(v), w, v)
    BY <1>3, <2>1
  <2> HIDE DEF Part
  <2>3. CASE v = {}
    BY <2>1, <2>2, <2>3, SumsAt
  <2>4. CASE v # {}
    <3>1. Rest(v) \in SUBSET v /\ Rest(v) # t /\ Rest(v) \subseteq t
      BY <2>1, <2>4, ChosenIn
    <3>2. Sums(Part(Rest(v)), w, Rest(v)) /\ IsFiniteSet(Rest(v))
      BY <1>3, <3>1
    <3> HIDE DEF Rest
    <3>3. Part(v)[Rest(v)] = Part(Rest(v))[Rest(v)]
      BY <2>2, <3>1, <3>2, SumsAgree
    <3>4. Part(v)[v] = w[Chosen(v)] + Part(v)[Rest(v)]
      BY <2>2, <2>4, <1>7
    <3>5. h[v] = w[Chosen(v)] + Part(Rest(v))[Rest(v)]
      BY <2>1, <2>4
    <3>6. QED
      BY <3>3, <3>4, <3>5
  <2>5. QED
    BY <2>3, <2>4
<1>5. Sums(h, w, t)
  <2>1. h = [u \in SUBSET t |-> IF u = {} THEN 0 ELSE w[Chosen(u)] + h[Rest(u)]]
    <3>1. \A u \in SUBSET t : h[u] = IF u = {} THEN 0 ELSE w[Chosen(u)] + h[Rest(u)]
      <4> HIDE DEF Part, Rest
      <4>1. QED
        BY <1>4
    <3>2. h = [u \in SUBSET t |-> h[u]]
      OBVIOUS
    <3> HIDE DEF h
    <3>3. QED
      BY <3>1, <3>2
  <2>2. QED
    BY <2>1 DEF Sums
<1>6. QED
  BY <1>1, <1>5

-----------------------------------------------------------------------------
(* What adding and removing one element does to a sum *)

\* Nothing weighs nothing.
LEMMA TotalEmpty == \A w : Total(w, {}) = 0
  <1> SUFFICES ASSUME NEW w PROVE Total(w, {}) = 0
    OBVIOUS
  <1>1. Sums(CHOOSE g : Sums(g, w, {}), w, {})
    BY FS_EmptySet, SumsExist
  <1>2. QED
    BY <1>1, SumsAt DEF Total

\* The sum begins with whichever element CHOOSE picks.
LEMMA TotalChosen ==
  ASSUME NEW w, NEW S, IsFiniteSet(S), S # {}
  PROVE  Total(w, S) = w[Chosen(S)] + Total(w, S \ {Chosen(S)})
<1> DEFINE U == S \ {Chosen(S)}
<1> DEFINE g == CHOOSE f : Sums(f, w, S)
<1> DEFINE h == CHOOSE f : Sums(f, w, U)
<1>1. U \subseteq S /\ IsFiniteSet(U)
  BY FS_Subset
<1>2. Sums(g, w, S) /\ Sums(h, w, U)
  BY <1>1, SumsExist
<1>3. Total(w, S) = g[S] /\ Total(w, U) = h[U]
  BY DEF Total
<1> HIDE DEF g, h
<1>4. g[U] = h[U]
  BY <1>1, <1>2, SumsAgree
<1>5. g[S] = w[Chosen(S)] + g[U]
  BY <1>2, SumsAt
<1>6. QED
  BY <1>3, <1>4, <1>5

\* Sums of natural weights are natural.
LEMMA TotalType ==
  ASSUME NEW R, NEW w \in [R -> Nat], NEW S \in SUBSET R, IsFiniteSet(S)
  PROVE  Total(w, S) \in Nat
<1> DEFINE Bad == {t \in FiniteSubsetsOf(S) : Total(w, t) \notin Nat}
<1> SUFFICES ASSUME Bad # {} PROVE FALSE
  BY DEF FiniteSubsetsOf
<1>1. PICK t \in Bad : \A u \in Bad : ~(u \subseteq t /\ u # t)
  <2>1. Bad \subseteq FiniteSubsetsOf(S)
    OBVIOUS
  <2> HIDE DEF Bad
  <2>2. QED
    BY <2>1, SmallestSet
<1>2. t \in SUBSET S /\ IsFiniteSet(t) /\ Total(w, t) \notin Nat
  BY <1>1 DEF FiniteSubsetsOf
<1>3. t # {}
  BY <1>2, TotalEmpty
<1> DEFINE u == t \ {Chosen(t)}
<1>4. Chosen(t) \in t /\ u \subseteq t /\ u # t
  BY <1>3, ChosenIn
<1>5. u \in FiniteSubsetsOf(S)
  BY <1>2, <1>4, FS_Subset DEF FiniteSubsetsOf
<1>6. Total(w, u) \in Nat
  BY <1>1, <1>4, <1>5
<1>7. w[Chosen(t)] \in Nat
  BY <1>2, <1>4
<1>8. Total(w, t) = w[Chosen(t)] + Total(w, u)
  BY <1>2, <1>3, TotalChosen
<1>9. QED
  BY <1>2, <1>6, <1>7, <1>8

\* The sum grows by the weight of what is added, in whatever order it is formed.
LEMMA TotalAdd ==
  ASSUME NEW R, NEW w \in [R -> Nat], NEW S \in SUBSET R, IsFiniteSet(S), NEW x \in R \ S
  PROVE  Total(w, S \cup {x}) = w[x] + Total(w, S)
<1> DEFINE Adds(t) == \A y \in R \ t : Total(w, t \cup {y}) = w[y] + Total(w, t)
<1> DEFINE Bad == {t \in FiniteSubsetsOf(S) : ~Adds(t)}
<1> SUFFICES ASSUME Bad # {} PROVE FALSE
  BY DEF FiniteSubsetsOf
<1>1. PICK t \in Bad : \A u \in Bad : ~(u \subseteq t /\ u # t)
  <2>1. Bad \subseteq FiniteSubsetsOf(S)
    OBVIOUS
  <2> HIDE DEF Bad
  <2>2. QED
    BY <2>1, SmallestSet
<1>2. t \in SUBSET S /\ IsFiniteSet(t) /\ ~Adds(t)
  BY <1>1 DEF FiniteSubsetsOf
<1>3. PICK y \in R \ t : Total(w, t \cup {y}) # w[y] + Total(w, t)
  BY <1>2
<1> DEFINE T == t \cup {y}
<1> DEFINE c == Chosen(T)
<1>4. c \in T /\ T # {} /\ T \in SUBSET R /\ IsFiniteSet(T)
  <2>1. T # {} /\ T \in SUBSET R
    BY <1>2
  <2>2. IsFiniteSet(T)
    BY <1>2, FS_AddElement
  <2> HIDE DEF T
  <2>3. c \in T
    BY <2>1, ChosenIn
  <2>4. QED
    BY <2>1, <2>2, <2>3
<1>5. Total(w, T) = w[c] + Total(w, T \ {c})
  BY <1>4, TotalChosen
<1>6. CASE c = y
  <2>1. T \ {c} = t
    BY <1>6
  <2>2. QED
    BY <1>3, <1>5, <1>6, <2>1
<1>7. CASE c # y
  <2> DEFINE u == t \ {c}
  <2>1. c \in t /\ u \subseteq t /\ u # t /\ c \in R \ u /\ y \in R \ u
    BY <1>2, <1>4, <1>7
  <2>2. u \in FiniteSubsetsOf(S) /\ IsFiniteSet(u) /\ u \in SUBSET R
    BY <1>2, <2>1, FS_Subset DEF FiniteSubsetsOf
  <2>3. Adds(u)
    BY <1>1, <2>1, <2>2
  <2>4. T \ {c} = u \cup {y} /\ t = u \cup {c}
    BY <1>7, <2>1
  <2>5. Total(w, u \cup {y}) = w[y] + Total(w, u) /\ Total(w, u \cup {c}) = w[c] + Total(w, u)
    BY <2>1, <2>3
  <2>6. Total(w, u) \in Nat /\ w[y] \in Nat /\ w[c] \in Nat
    BY <2>1, <2>2, TotalType
  <2>7. Total(w, T) = w[c] + (w[y] + Total(w, u)) /\ Total(w, t) = w[c] + Total(w, u)
    BY <1>5, <2>4, <2>5
  <2> HIDE DEF c, T, u
  <2>8. Total(w, T) = w[y] + Total(w, t)
    BY <2>6, <2>7
  <2>9. QED
    BY <1>3, <2>8 DEF T
<1>8. QED
  BY <1>6, <1>7

\* And it falls by the weight of what is removed.
LEMMA TotalRemove ==
  ASSUME NEW R, NEW w \in [R -> Nat], NEW S \in SUBSET R, IsFiniteSet(S), NEW x \in S
  PROVE  /\ Total(w, S \ {x}) = Total(w, S) - w[x]
         /\ w[x] <= Total(w, S)
<1> DEFINE U == S \ {x}
<1>1. U \in SUBSET R /\ IsFiniteSet(U) /\ x \in R \ U /\ U \cup {x} = S
  BY FS_Subset
<1>2. Total(w, S) = w[x] + Total(w, U)
  BY <1>1, TotalAdd
<1>3. Total(w, U) \in Nat /\ w[x] \in Nat
  BY <1>1, TotalType
<1> HIDE DEF U
<1>4. Total(w, U) = Total(w, S) - w[x] /\ w[x] <= Total(w, S)
  BY <1>2, <1>3
<1>5. QED
  BY <1>4 DEF U

\* A sum depends only on the weights of what it adds.
LEMMA TotalSame ==
  ASSUME NEW v, NEW w, NEW S, \A s \in S : v[s] = w[s]
  PROVE  Total(v, S) = Total(w, S)
<1> DEFINE Adds(g, s) == IF s = {} THEN 0 ELSE w[Chosen(s)] + g[s \ {Chosen(s)}]
<1>1. ASSUME NEW g
      PROVE  [s \in SUBSET S |-> IF s = {} THEN 0 ELSE v[Chosen(s)] + g[s \ {Chosen(s)}]]
             = [s \in SUBSET S |-> Adds(g, s)]
  <2>1. \A s \in SUBSET S : s # {} => v[Chosen(s)] = w[Chosen(s)]
    BY ChosenIn
  <2>2. QED
    BY <2>1
<1>2. ASSUME NEW g
      PROVE  Sums(g, v, S) <=> Sums(g, w, S)
  BY <1>1 DEF Sums
<1>3. (CHOOSE g : Sums(g, v, S)) = (CHOOSE g : Sums(g, w, S))
  BY <1>2
<1>4. QED
  BY <1>3 DEF Total

\* Changing one weight changes the sum by as much.
LEMMA TotalChange ==
  ASSUME NEW S, IsFiniteSet(S), NEW v \in [S -> Nat], NEW w \in [S -> Nat], NEW x \in S,
         \A s \in S \ {x} : v[s] = w[s]
  PROVE  /\ Total(w, S) = Total(v, S) - v[x] + w[x]
         /\ v[x] <= Total(v, S) /\ Total(v, S) \in Nat /\ Total(w, S) \in Nat
<1>1. Total(v, S \ {x}) = Total(w, S \ {x})
  BY TotalSame
<1>2. /\ Total(v, S \ {x}) = Total(v, S) - v[x] /\ v[x] <= Total(v, S)
      /\ Total(w, S \ {x}) = Total(w, S) - w[x]
  BY TotalRemove
<1>3. Total(v, S) \in Nat /\ Total(w, S) \in Nat /\ v[x] \in Nat /\ w[x] \in Nat
  BY TotalType
<1> DEFINE a == Total(v, S)
           b == Total(w, S)
<1>4. a - v[x] = b - w[x] /\ a \in Nat /\ b \in Nat /\ v[x] <= a
  BY <1>1, <1>2, <1>3
<1> HIDE DEF a, b
<1>5. b = a - v[x] + w[x]
  BY <1>3, <1>4
<1>6. QED
  BY <1>3, <1>4, <1>5 DEF a, b

\* The fold that counts a table's occurrences is the sum of them.
LEMMA SumIsTotal ==
  ASSUME NEW S, IsFiniteSet(S), NEW f, DOMAIN f = S
  PROVE  SumFunction(f) = Total(f, S)
<1> DEFINE F(g) == [s \in SUBSET S |-> IF s = {} THEN 0 ELSE f[Chosen(s)] + g[s \ {Chosen(s)}]]
           h == CHOOSE g : g = F(g)
<1>1. SumFunction(f) = h[S]
  BY DEF SumFunction, SumFunctionOnSet, FoldFunctionOnSet, MapThenFoldSet, Chosen
<1>2. \A g : Sums(g, f, S) <=> g = F(g)
  BY DEF Sums
<1>3. \E g : g = F(g)
  BY <1>2, SumsExist
<1>4. h = F(h)
  <2> HIDE DEF F
  <2> QED BY <1>3
<1>5. Sums(h, f, S) /\ Sums(CHOOSE g : Sums(g, f, S), f, S)
  BY <1>2, <1>4, SumsExist
<1> HIDE DEF h
<1> QED BY <1>1, <1>5, SumsAgree DEF Total

\* A sum of natural numbers is zero when each of them is.
LEMMA TotalZero ==
  ASSUME NEW S, IsFiniteSet(S), NEW f \in [S -> Nat]
  PROVE  Total(f, S) = 0 <=> \A x \in S : f[x] = 0
<1>1. ASSUME Total(f, S) = 0, NEW x \in S
      PROVE  f[x] = 0
  <2>1. f[x] <= Total(f, S)
    BY TotalRemove
  <2>2. f[x] \in Nat
    OBVIOUS
  <2> QED BY <1>1, <2>1, <2>2
<1>2. ASSUME \A x \in S : f[x] = 0
      PROVE  Total(f, S) = 0
  <2> DEFINE Bad == {T \in FiniteSubsetsOf(S) : Total(f, T) # 0}
  <2> SUFFICES ASSUME Bad # {} PROVE FALSE
    BY DEF FiniteSubsetsOf
  <2>1. PICK T \in Bad : \A U \in Bad : ~(U \subseteq T /\ U # T)
    <3>1. Bad \subseteq FiniteSubsetsOf(S)
      OBVIOUS
    <3> HIDE DEF Bad
    <3> QED BY <3>1, SmallestSet
  <2>2. T \in SUBSET S /\ IsFiniteSet(T) /\ Total(f, T) # 0
    BY <2>1 DEF FiniteSubsetsOf
  <2>3. T # {}
    BY <2>2, TotalEmpty
  <2>4. PICK x \in T : TRUE
    BY <2>3
  <2>5. T \ {x} \in SUBSET S /\ IsFiniteSet(T \ {x}) /\ T \ {x} \subseteq T /\ T \ {x} # T
    BY <2>2, <2>4, FS_Subset
  <2>6. Total(f, T \ {x}) = 0
    BY <2>1, <2>5 DEF FiniteSubsetsOf
  <2>7. Total(f, T \ {x}) = Total(f, T) - f[x] /\ Total(f, T) \in Nat
    BY <2>2, <2>4, TotalRemove, TotalType
  <2>8. f[x] = 0
    BY <1>2, <2>2, <2>4
  <2> QED BY <2>2, <2>6, <2>7, <2>8
<1> QED BY <1>1, <1>2

\* Elements without weight do not count.
LEMMA TotalZeros ==
  ASSUME NEW R, IsFiniteSet(R), NEW w \in [R -> Nat], NEW S \in SUBSET R, \A x \in R \ S : w[x] = 0
  PROVE  Total(w, R) = Total(w, S)
<1> DEFINE Bad == {t \in FiniteSubsetsOf(R \ S) : Total(w, S \cup t) # Total(w, S)}
<1> SUFFICES ASSUME Bad # {} PROVE FALSE
  <2>1. IsFiniteSet(R \ S) /\ S \cup (R \ S) = R
    BY FS_Difference
  <2>2. (R \ S) \in FiniteSubsetsOf(R \ S)
    BY <2>1 DEF FiniteSubsetsOf
  <2>3. Total(w, S \cup (R \ S)) = Total(w, S)
    BY <2>2
  <2>4. QED
    BY <2>1, <2>3
<1>1. PICK t \in Bad : \A u \in Bad : ~(u \subseteq t /\ u # t)
  <2>1. Bad \subseteq FiniteSubsetsOf(R \ S)
    OBVIOUS
  <2> HIDE DEF Bad
  <2>2. QED
    BY <2>1, SmallestSet
<1>2. t \subseteq R \ S /\ IsFiniteSet(t) /\ Total(w, S \cup t) # Total(w, S)
  BY DEF FiniteSubsetsOf
<1>3. t # {}
  BY <1>2
<1> DEFINE c == Chosen(t)
           u == t \ {c}
<1>4. c \in t /\ u \subseteq t /\ u # t
  BY <1>3, ChosenIn
<1> HIDE DEF c
<1>5. u \in FiniteSubsetsOf(R \ S) /\ IsFiniteSet(u)
  BY <1>2, <1>4, FS_Subset DEF FiniteSubsetsOf
<1>6. Total(w, S \cup u) = Total(w, S)
  BY <1>1, <1>4, <1>5
<1>7. S \cup u \in SUBSET R /\ IsFiniteSet(S \cup u) /\ c \in R \ (S \cup u) /\ (S \cup u) \cup {c} = S \cup t
  BY <1>2, <1>4, FS_Subset
<1>8. Total(w, S \cup t) = w[c] + Total(w, S \cup u) /\ Total(w, S \cup u) \in Nat
  BY <1>7, TotalAdd, TotalType
<1>9. w[c] = 0
  BY <1>2, <1>4
<1>10. QED
  BY <1>2, <1>6, <1>8, <1>9

=============================================================================
