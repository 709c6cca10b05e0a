------------------------- MODULE GraphSealerProofs -------------------------
(***************************************************************************)
(* Proofs about GraphSealer and, in the last part, about RuntimeRegistry.  *)
(*                                                                         *)
(* What a store relies on is local to it: the slots it has locked are its  *)
(* own and empty, and what it has found bound stays bound, to the same     *)
(* object.  So the invariant is one predicate per store, which the steps   *)
(* of the other stores cannot disturb, and two on what they share.         *)
(*                                                                         *)
(* The registry's counts balance at every step: what is registered, has    *)
(* been acquired so far, is still to be released or is on a call adds up   *)
(* to them.                                                                *)
(***************************************************************************)
EXTENDS GraphSealer, RuntimeRegistry, DataLemmas

Identities == Owners \X Nat
NativeObjects == [id : Identities]
PairObjects == [id : Identities, native : Identities,
                main : Identities \cup {None}, secondary : Identities \cup {None}]
Objects == NativeObjects \cup PairObjects
Units == [owner : Owners, native : Natives \cup {None}]
Places == {"lock", "main", "secondary", "owner", "encode", "index", "fused", "install native",
           "install"}
Frames == [owner : Owners, at : Places, made : Objects \cup {None}]
Phases == {"new", "plan", "claim", "finish", "walk", "done", "failed"}

TypeOK ==
  /\ at \in [Stores -> Phases]
  /\ DOMAIN unbound = Stores /\ DOMAIN units = Stores
  /\ DOMAIN half = Stores /\ DOMAIN claimed = Stores
  /\ todo \in [Stores -> Seq(Owners)] /\ stack \in [Stores -> Seq(Frames)]
  /\ lock \in [Owners -> Stores \cup {None}]
  /\ value \in [Owners -> Objects \cup {None}]
  /\ used \in [Owners -> Nat] /\ failures \in Nat

Depth(t) == 1..Len(stack[t])

InPhase(t) ==
  /\ at[t] \notin {"finish", "walk"} => stack[t] = <<>>
  /\ at[t] # "claim" => half[t] = None
  /\ at[t] \notin {"claim", "finish"} => claimed[t] = {}
  /\ at[t] \in {"new", "plan", "claim", "finish"} => todo[t] = Roots[t]

\* A unit waits for nothing but its own slots.
IsReady(u) ==
  /\ u \in Units
  /\ u.owner \in Natives => u.native = u.owner
  /\ u.owner \in Pairs =>
       /\ Ready(u.owner)
       /\ u.native \in {None, NativeOf[u.owner]}
       /\ u.native = None => Bound(NativeOf[u.owner])

UnitsAreReady(t) ==
  /\ \A u \in units[t] : u.owner \in Owners => IsReady(u)
  /\ \A u \in claimed[t] : IsReady(u)
  /\ half[t] # None => IsReady(half[t]) /\ half[t].owner \in Pairs /\ half[t].native # None

\* The slots a frame and a unit have locked.
Holds(f) ==
  CASE f.at = "lock" -> {}
    [] f.at \in {"fused", "install native"} -> {f.owner, NativeOf[f.owner]}
    [] OTHER -> {f.owner}
HeldBy(u) == {u.owner, u.native} \ {None}

Mine(t, o) == lock[o] = t /\ value[o] = None

ClaimsAreHeld(t) ==
  /\ \A u \in claimed[t] : \A o \in HeldBy(u) : Mine(t, o)
  /\ \A u, v \in claimed[t] : u # v => HeldBy(u) \cap HeldBy(v) = {}
  /\ half[t] # None => /\ Mine(t, half[t].owner)
                       /\ \A u \in claimed[t] : half[t].owner \notin HeldBy(u)

FramesAreHeld(t) ==
  /\ \A k \in Depth(t) : \A o \in Holds(stack[t][k]) : Mine(t, o)
  /\ \A j, k \in Depth(t) : j # k => Holds(stack[t][j]) \cap Holds(stack[t][k]) = {}
  /\ \A k \in Depth(t), u \in claimed[t] : Holds(stack[t][k]) \cap HeldBy(u) = {}

\* An object of a pair that is what the pair's binding must be.
DenotesPair(x, p) ==
  /\ x \in PairObjects
  /\ Bound(NativeOf[p]) /\ x.native = Id(NativeOf[p])
  /\ Ready(p) /\ x.main = Id(Main[p]) /\ x.secondary = Id(Secondary[p])

\* A frame's call for a dependency is the frame above it, or has returned.
Awaits(k, above, dependency) == IF k = 1 THEN Bound(dependency) ELSE above.owner = dependency

InPlace(f, k, above) ==
  /\ k # 1 => f.at \in {"secondary", "owner"}
  /\ f.at = "encode" => f.owner \in Natives
  /\ f.at \in {"main", "secondary", "owner", "index", "fused", "install native"} => f.owner \in Pairs
  /\ f.at = "secondary" => Awaits(k, above, Main[f.owner])
  /\ f.at = "owner" => Bound(Main[f.owner]) /\ Awaits(k, above, Secondary[f.owner])
  /\ f.at \in {"index", "fused"} => Ready(f.owner)
  /\ f.at = "index" => Bound(NativeOf[f.owner])
  /\ f.at = "install native" =>
       /\ Ready(f.owner)
       /\ f.made \in PairObjects \cap sealed /\ [id |-> f.made.native] \in sealed
       /\ f.made.main = Id(Main[f.owner]) /\ f.made.secondary = Id(Secondary[f.owner])
  /\ f.at = "install" =>
       /\ f.made \in sealed \cap Objects
       /\ f.owner \in Pairs => DenotesPair(f.made, f.owner)

FramesAreInPlace(t) == \A k \in Depth(t) : InPlace(stack[t][k], k, stack[t][k - 1])

RootsAreReached(t) ==
  /\ at[t] = "walk" => \A r \in ToSet(Roots[t]) :
       \/ Bound(r) \/ r \in ToSet(todo[t])
       \/ stack[t] # <<>> /\ r = stack[t][Len(stack[t])].owner
  /\ at[t] = "done" => \A r \in ToSet(Roots[t]) : Bound(r)

Local(t) ==
  /\ InPhase(t) /\ UnitsAreReady(t) /\ ClaimsAreHeld(t)
  /\ FramesAreHeld(t) /\ FramesAreInPlace(t) /\ RootsAreReached(t)

BindingsAreSound ==
  /\ \A o \in Owners : value[o] # None => value[o] \in sealed
  /\ \A p \in Pairs : value[p] # None => DenotesPair(value[p], p)

\* Objects made and not yet bound.
Made(t) ==
  CASE Runs(t, "install") -> {Top(t).owner}
    [] Runs(t, "install native") -> {Top(t).owner, NativeOf[Top(t).owner]}
    [] OTHER -> {}

WasteIsBounded ==
  \A o \in Owners :
    /\ used[o] <= failures + 1
    /\ value[o] = None /\ (\A t \in Stores : o \notin Made(t)) => used[o] <= failures

IInv == TypeOK /\ (\A t \in Stores : Local(t)) /\ BindingsAreSound /\ WasteIsBounded

-----------------------------------------------------------------------------
\* Stacks.

(* A call whose place changes: its frame is replaced, the rest is kept.     *)
LEMMA Replaced ==
  ASSUME NEW S, NEW s \in Seq(S), s # <<>>, NEW f \in S
  PROVE  LET r == <<f>> \o Tail(s) IN
         /\ r \in Seq(S) /\ Len(r) = Len(s) /\ r # <<>> /\ r[1] = f
         /\ \A k \in 2..Len(s) : r[k] = s[k]
<1>1. Tail(s) \in Seq(S) /\ Len(Tail(s)) = Len(s) - 1 /\ Len(s) \in Nat \ {0}
  OBVIOUS
<1>2. \A k \in 1..Len(s) - 1 : Tail(s)[k] = s[k + 1]
  OBVIOUS
<1>3. <<f>> \in Seq(S) /\ Len(<<f>>) = 1 /\ <<f>>[1] = f
  OBVIOUS
<1> QED BY <1>1, <1>2, <1>3

(* The frame that replaces the top is the top.                              *)
LEMMA NewTop ==
  ASSUME NEW S, NEW s \in Seq(S), s # <<>>, NEW f
  PROVE  LET r == <<f>> \o Tail(s) IN r # <<>> /\ Head(r) = f
<1>1. s \in Seq(S \cup {f})
  OBVIOUS
<1>2. LET r == <<f>> \o Tail(s) IN r \in Seq(S \cup {f}) /\ r # <<>> /\ r[1] = f
  BY <1>1, Replaced
<1> QED BY <1>2

(* A call that returns.                                                     *)
LEMMA Popped ==
  ASSUME NEW S, NEW s \in Seq(S), s # <<>>
  PROVE  LET r == <<>> \o Tail(s) IN
         /\ r \in Seq(S) /\ Len(r) = Len(s) - 1
         /\ \A k \in 1..Len(r) : r[k] = s[k + 1]
<1>1. Tail(s) \in Seq(S) /\ Len(Tail(s)) = Len(s) - 1 /\ Len(s) \in Nat \ {0}
  OBVIOUS
<1>2. \A k \in 1..Len(s) - 1 : Tail(s)[k] = s[k + 1]
  OBVIOUS
<1>3. <<>> \o Tail(s) = Tail(s)
  BY <1>1
<1> QED BY <1>1, <1>2, <1>3

(* Two sequences in a row.                                                  *)
LEMMA Concatenated ==
  ASSUME NEW S, NEW a \in Seq(S), NEW b \in Seq(S)
  PROVE  /\ a \o b \in Seq(S) /\ Len(a \o b) = Len(a) + Len(b)
         /\ \A k \in 1..Len(a) + Len(b) :
              (a \o b)[k] = IF k <= Len(a) THEN a[k] ELSE b[k - Len(a)]
OBVIOUS

(* A call that calls ensure_pair or ensure_native for a dependency.         *)
LEMMA Pushed ==
  ASSUME NEW S, NEW s \in Seq(S), s # <<>>, NEW f \in S, NEW d \in S
  PROVE  LET r == (<<d>> \o <<f>>) \o Tail(s) IN
         /\ r \in Seq(S) /\ Len(r) = Len(s) + 1 /\ r # <<>> /\ r[1] = d /\ r[2] = f
         /\ \A k \in 3..Len(r) : r[k] = s[k - 1]
<1> DEFINE top == <<d>> \o <<f>>
           tail == Tail(s)
           r == top \o tail
<1>1. tail \in Seq(S) /\ Len(tail) = Len(s) - 1 /\ Len(s) \in Nat \ {0}
  OBVIOUS
<1>2. \A k \in 1..Len(s) - 1 : tail[k] = s[k + 1]
  OBVIOUS
<1>3. <<d>> \in Seq(S) /\ Len(<<d>>) = 1 /\ <<f>> \in Seq(S) /\ Len(<<f>>) = 1
  OBVIOUS
<1>4. top \in Seq(S) /\ Len(top) = 2 /\ top[1] = d /\ top[2] = f
  BY <1>3
<1> HIDE DEF top, tail
<1>5. /\ r \in Seq(S) /\ Len(r) = Len(top) + Len(tail)
      /\ \A k \in 1..Len(top) + Len(tail) : r[k] = IF k <= Len(top) THEN top[k] ELSE tail[k - Len(top)]
  BY <1>1, <1>4, Concatenated
<1> HIDE DEF r
<1>6. r # <<>> /\ r[1] = d /\ r[2] = f
  BY <1>1, <1>4, <1>5
<1>7. \A k \in 3..Len(r) : r[k] = s[k - 1]
  BY SMTT(20), <1>1, <1>2, <1>4, <1>5
<1> QED BY <1>1, <1>4, <1>5, <1>6, <1>7 DEF top, tail, r

-----------------------------------------------------------------------------
\* What no step undoes.

\* A slot that is bound stays bound to the same object, and what the catalog
\* has acknowledged it keeps.
Grows ==
  /\ \A o \in Owners : value[o] # None => value'[o] = value[o]
  /\ sealed \subseteq sealed'

(* An owner found bound stays bound, under the same identity.               *)
LEMMA BoundStays ==
  ASSUME Grows, NEW o \in Owners \cup {None}, Bound(o)
  PROVE  Bound(o)' /\ Id(o)' = Id(o)
BY GraphAssumption DEF Grows, Bound, Id

(* A pair whose dependencies are bound can be produced at any later time.   *)
LEMMA ReadyStays ==
  ASSUME Grows, NEW p \in Pairs, Ready(p)
  PROVE  /\ Ready(p)' /\ Id(Main[p])' = Id(Main[p])
         /\ Id(Secondary[p])' = Id(Secondary[p])
<1>1. Main[p] \in Owners \cup {None} /\ Secondary[p] \in Owners \cup {None}
  BY GraphAssumption DEF Owners
<1> QED BY <1>1, BoundStays DEF Ready

(* An object that denotes a pair's graph goes on denoting it.               *)
LEMMA DenotesStays ==
  ASSUME Grows, NEW p \in Pairs, NEW x, DenotesPair(x, p)
  PROVE  DenotesPair(x, p)'
<1>1. NativeOf[p] \in Owners
  BY GraphAssumption DEF Owners
<1>2. Bound(NativeOf[p])' /\ Id(NativeOf[p])' = Id(NativeOf[p])
  BY <1>1, BoundStays DEF DenotesPair
<1>3. Ready(p)' /\ Id(Main[p])' = Id(Main[p]) /\ Id(Secondary[p])' = Id(Secondary[p])
  BY ReadyStays DEF DenotesPair
<1> QED BY <1>2, <1>3 DEF DenotesPair

(* A unit that was ready stays ready.                                       *)
LEMMA UnitStays ==
  ASSUME Grows, NEW u, IsReady(u)
  PROVE  IsReady(u)'
<1>1. ASSUME u.owner \in Pairs
      PROVE  /\ Ready(u.owner)' /\ NativeOf[u.owner] \in Owners
             /\ Bound(NativeOf[u.owner]) => Bound(NativeOf[u.owner])'
  BY <1>1, ReadyStays, BoundStays, GraphAssumption DEF IsReady, Owners
<1> QED BY <1>1 DEF IsReady

(* A call keeps its place while other calls bind and seal.                  *)
LEMMA InPlaceStays ==
  ASSUME Grows, NEW f \in Frames, NEW k \in Nat, NEW above, InPlace(f, k, above)
  PROVE  InPlace(f, k, above)'
<1>1. ASSUME f.owner \in Pairs
      PROVE  /\ NativeOf[f.owner] \in Owners /\ Main[f.owner] \in Owners \cup {None}
             /\ Secondary[f.owner] \in Owners \cup {None}
  BY <1>1, GraphAssumption DEF Owners
<1>2. ASSUME NEW d \in Owners \cup {None}, Awaits(k, above, d)
      PROVE  Awaits(k, above, d)'
  BY <1>2, BoundStays DEF Awaits
<1>3. f.at = "secondary" => Awaits(k, above, Main[f.owner])'
  BY <1>1, <1>2 DEF InPlace
<1>4. f.at = "owner" => Bound(Main[f.owner])' /\ Awaits(k, above, Secondary[f.owner])'
  BY <1>1, <1>2, BoundStays DEF InPlace
<1>5. f.at = "index" => Bound(NativeOf[f.owner])'
  BY <1>1, BoundStays DEF InPlace
<1>6. f.owner \in Pairs /\ Ready(f.owner) =>
        /\ Ready(f.owner)' /\ Id(Main[f.owner])' = Id(Main[f.owner])
        /\ Id(Secondary[f.owner])' = Id(Secondary[f.owner])
  BY ReadyStays
<1>7. f.owner \in Pairs /\ DenotesPair(f.made, f.owner) => DenotesPair(f.made, f.owner)'
  BY DenotesStays
<1>8. sealed \subseteq sealed'
  BY DEF Grows
<1> QED BY <1>3, <1>4, <1>5, <1>6, <1>7, <1>8 DEF InPlace

-----------------------------------------------------------------------------
\* The steps of other stores.

\* The slots a store has locked and left empty stay so.
Spares(q) == \A o \in Owners : Mine(q, o) => Mine(q, o)'

\* What a store keeps to itself.
Locals(q) == <<at[q], units[q], half[q], claimed[q], todo[q], stack[q]>>

(* Only owners are locked.                                                  *)
LEMMA HeldAreOwners ==
  /\ \A u : IsReady(u) => HeldBy(u) \subseteq Owners
  /\ \A f \in Frames : \A k, above : InPlace(f, k, above) => Holds(f) \subseteq Owners
<1>1. ASSUME NEW u, IsReady(u)
      PROVE  HeldBy(u) \subseteq Owners
  BY <1>1 DEF IsReady, HeldBy, Units, Owners
<1>2. ASSUME NEW f \in Frames, NEW k, NEW above, InPlace(f, k, above)
      PROVE  Holds(f) \subseteq Owners
  <2>1. f.owner \in Owners
    BY DEF Frames
  <2>2. f.at \in {"fused", "install native"} => f.owner \in Pairs
    BY <1>2 DEF InPlace
  <2>3. f.at \in {"fused", "install native"} => NativeOf[f.owner] \in Owners
    BY <2>2, GraphAssumption DEF Owners
  <2> QED BY <2>1, <2>3 DEF Holds
<1> QED BY <1>1, <1>2

(* Units that are given up leave the others ready.                          *)
LEMMA UnitsStay ==
  ASSUME NEW q, UnitsAreReady(q), Grows, units'[q] \subseteq units[q],
         claimed'[q] \subseteq claimed[q], half'[q] = half[q] \/ half'[q] = None
  PROVE  UnitsAreReady(q)'
<1>1. ASSUME NEW u \in units[q]'
      PROVE  (u.owner \in Owners => IsReady(u))'
  BY UnitStays DEF UnitsAreReady
<1>2. ASSUME NEW u \in claimed[q]'
      PROVE  IsReady(u)'
  BY UnitStays DEF UnitsAreReady
<1>3. PICK h : h = half[q]
  OBVIOUS
<1>4. h # None => IsReady(h)' /\ h.owner \in Pairs /\ h.native # None
  BY <1>3, UnitStays DEF UnitsAreReady
<1>5. (half[q] # None => IsReady(half[q]) /\ half[q].owner \in Pairs /\ half[q].native # None)'
  BY <1>3, <1>4 DEF IsReady, Ready, Bound
<1> QED BY <1>1, <1>2, <1>5 DEF UnitsAreReady

(* Nor do they release the slots of the others.                             *)
LEMMA ClaimsStay ==
  ASSUME NEW q, UnitsAreReady(q), ClaimsAreHeld(q), Spares(q),
         claimed'[q] \subseteq claimed[q], half'[q] = half[q] \/ half'[q] = None
  PROVE  ClaimsAreHeld(q)'
<1>1. \A u \in claimed[q] : HeldBy(u) \subseteq Owners
  BY HeldAreOwners DEF UnitsAreReady
<1>2. half[q] # None => half[q].owner \in Owners
  BY DEF UnitsAreReady, Owners
<1>3. \A u \in claimed[q] : \A o \in HeldBy(u) : Mine(q, o)'
  BY <1>1 DEF ClaimsAreHeld, Spares
<1>4. PICK h : h = half[q]
  OBVIOUS
<1>5. h # None => Mine(q, h.owner)'
  BY <1>2, <1>4 DEF ClaimsAreHeld, Spares
<1> QED BY <1>3, <1>4, <1>5 DEF ClaimsAreHeld, HeldBy, Mine

(* What is known of a frame.                                                *)
LEMMA FrameFacts ==
  ASSUME TypeOK, NEW q \in Stores, FramesAreInPlace(q), NEW k \in Depth(q)
  PROVE  /\ k \in Nat /\ stack[q][k] \in Frames
         /\ InPlace(stack[q][k], k, stack[q][k - 1])
         /\ Holds(stack[q][k]) \subseteq Owners
<1>1. stack[q] \in Seq(Frames)
  BY DEF TypeOK
<1>2. k \in Nat /\ stack[q][k] \in Frames
  BY <1>1 DEF Depth
<1>3. InPlace(stack[q][k], k, stack[q][k - 1])
  BY DEF FramesAreInPlace
<1> QED BY <1>2, <1>3, HeldAreOwners

(* The calls of a store that stands still keep their places,                *)
LEMMA FramesStay ==
  ASSUME TypeOK, NEW q \in Stores, FramesAreInPlace(q), Grows, stack'[q] = stack[q]
  PROVE  FramesAreInPlace(q)'
<1> SUFFICES ASSUME NEW k \in Depth(q)'
             PROVE  InPlace(stack[q][k], k, stack[q][k - 1])'
  BY DEF FramesAreInPlace
<1>1. PICK f, above : f = stack[q][k] /\ above = stack[q][k - 1]
  OBVIOUS
<1>2. f \in Frames /\ k \in Nat /\ InPlace(f, k, above)
  BY <1>1, FrameFacts DEF Depth
<1>3. InPlace(f, k, above)'
  BY <1>2, InPlaceStays
<1> QED BY ZenonT(40), <1>1, <1>3 DEF InPlace, Awaits, Ready, Bound, Id, DenotesPair

(* and the slots they have locked.                                          *)
LEMMA HeldStay ==
  ASSUME TypeOK, NEW q \in Stores, FramesAreInPlace(q), FramesAreHeld(q), Spares(q),
         stack'[q] = stack[q], claimed'[q] \subseteq claimed[q]
  PROVE  FramesAreHeld(q)'
<1>1. \A k \in Depth(q) : Holds(stack[q][k]) \subseteq Owners
  BY FrameFacts
<1>2. \A k \in Depth(q) : \A o \in Holds(stack[q][k]) : Mine(q, o)'
  BY <1>1 DEF FramesAreHeld, Spares
<1> QED BY <1>2 DEF FramesAreHeld, Holds, HeldBy, Mine, Depth

(* A root that is bound stays bound.                                        *)
LEMMA RootsStay ==
  ASSUME NEW q \in Stores, Grows
  PROVE  \A r \in ToSet(Roots[q]) : Bound(r) => Bound(r)'
<1>1. Roots[q] \in Seq(Owners)
  BY GraphAssumption
<1>2. \A r \in ToSet(Roots[q]) : r \in Owners
  BY <1>1 DEF ToSet
<1> QED BY <1>2, BoundStays

(* No step of another store takes from a store what it relies on.           *)
LEMMA OthersKeep ==
  ASSUME TypeOK, NEW q \in Stores, Local(q), Grows, Spares(q), UNCHANGED Locals(q)
  PROVE  Local(q)'
<1> USE DEF Local, Locals
<1>1. InPhase(q)'
  BY DEF InPhase
<1>2. UnitsAreReady(q)'
  BY UnitsStay
<1>3. ClaimsAreHeld(q)'
  BY ClaimsStay
<1>4. FramesAreHeld(q)'
  BY HeldStay
<1>5. FramesAreInPlace(q)'
  BY FramesStay
<1>6. RootsAreReached(q)'
  BY RootsStay DEF RootsAreReached
<1> QED BY <1>1, <1>2, <1>3, <1>4, <1>5, <1>6

\* The effect of a step of store t on the others.
Polite(t) == Grows /\ \A q \in Stores \ {t} : Spares(q) /\ UNCHANGED Locals(q)

-----------------------------------------------------------------------------
\* The batch.

(* A store that stops or starts, and one that turns to its roots.           *)
LEMMA TurnsKeep ==
  ASSUME TypeOK, NEW t \in Stores, Local(t),
         \/ Visit(t) \/ EndBatch(t) \/ Fail(t) \/ Reopen(t)
  PROVE  Local(t)' /\ Polite(t)
<1> USE DEF Local
<1>1. Polite(t)
  BY DEF Polite, Grows, Spares, Locals, Mine, Visit, EndBatch, Fail, Reopen, Without,
         batch, slots, catalog, TypeOK
<1>2. Grows
  BY <1>1 DEF Polite
<1>3. RootsAreReached(t)'
  BY DEF RootsAreReached, InPhase, Visit, EndBatch, Fail, Reopen, TypeOK
<1>4. UnitsAreReady(t)'
  BY <1>2, UnitsStay DEF Visit, EndBatch, Fail, Reopen, batch, TypeOK
<1>5. CASE Visit(t) \/ EndBatch(t) \/ Reopen(t)
  <2>1. /\ stack' = stack /\ claimed' = claimed /\ half' = half /\ lock' = lock /\ value' = value
    BY <1>5 DEF Visit, EndBatch, Reopen, batch, slots
  <2>2. Spares(t)
    BY <2>1 DEF Spares, Mine
  <2>3. ClaimsAreHeld(t)'
    BY <2>1, <2>2, ClaimsStay
  <2>4. FramesAreHeld(t)' /\ FramesAreInPlace(t)'
    BY <1>2, <2>1, <2>2, HeldStay, FramesStay
  <2>5. InPhase(t)'
    BY <1>5 DEF InPhase, Visit, EndBatch, Reopen, batch, TypeOK
  <2> QED BY <1>1, <1>3, <1>4, <2>3, <2>4, <2>5
<1>6. CASE Fail(t)
  <2>1. stack'[t] = <<>> /\ claimed'[t] = {} /\ half'[t] = None /\ at'[t] = "failed"
    BY <1>6 DEF Fail, InPhase, TypeOK
  <2> QED BY <1>1, <1>3, <1>4, <2>1 DEF InPhase, ClaimsAreHeld, FramesAreHeld, FramesAreInPlace, Depth
<1> QED BY <1>5, <1>6

(* What a batch is planned from is ready.                                   *)
LEMMA BatchesAreReady ==
  ASSUME NEW t, NEW set \in Batches(t), NEW u \in set, u.owner \in Owners
  PROVE  IsReady(u)
<1>1. PICK o : /\ u = Unit(o)
               /\ \/ Ready(o)
                  \/ o \in Natives
  BY DEF Batches
<1>2. u.owner = o /\ o \in Owners
  BY <1>1 DEF Unit
<1>3. CASE o \in Natives
  <2>1. u = [owner |-> o, native |-> o]
    BY <1>1, <1>3 DEF Unit
  <2> QED BY <1>3, <2>1, GraphAssumption DEF IsReady, Units, Owners
<1>4. CASE o \notin Natives
  <2>1. o \in Pairs /\ Ready(o)
    BY <1>1, <1>2, <1>4 DEF Owners
  <2>2. u = [owner |-> o, native |-> IF Bound(NativeOf[o]) THEN None ELSE NativeOf[o]]
    BY <1>1, <1>4 DEF Unit
  <2> QED BY <1>4, <2>1, <2>2, GraphAssumption DEF IsReady, Units, Owners
<1> QED BY <1>3, <1>4

(* A planned batch, or none.                                                *)
LEMMA PlanKeeps ==
  ASSUME TypeOK, NEW t \in Stores, Local(t), Plan(t)
  PROVE  Local(t)' /\ Polite(t)
<1> USE DEF Local
<1>1. /\ UNCHANGED <<half, claimed, todo, stack, slots, catalog, failures>>
      /\ at[t] = "plan"
  BY DEF Plan
<1>2. UNCHANGED <<stack, claimed, half, lock, value, sealed, todo>>
  BY <1>1 DEF slots, catalog
<1>3. PICK set \in Batches(t) :
        IF Cardinality(set) < 2
        THEN at' = [at EXCEPT ![t] = "walk"] /\ UNCHANGED units
        ELSE at' = [at EXCEPT ![t] = "claim"] /\ units' = [units EXCEPT ![t] = set]
  BY DEF Plan
<1>4. Grows /\ \A q \in Stores : Spares(q)
  BY <1>2 DEF Grows, Spares, Mine
<1>5. Polite(t)
  BY <1>2, <1>3, <1>4 DEF Polite, Locals, TypeOK
<1>6. InPhase(t)' /\ RootsAreReached(t)'
  BY <1>1, <1>2, <1>3 DEF InPhase, RootsAreReached, TypeOK
<1>7. ClaimsAreHeld(t)'
  BY <1>2, <1>4, ClaimsStay
<1>8. FramesAreHeld(t)' /\ FramesAreInPlace(t)'
  BY <1>2, <1>4, HeldStay, FramesStay
<1>9. UnitsAreReady(t)'
  <2>1. CASE units' = units
    BY <1>2, <1>4, <2>1, UnitsStay
  <2>2. CASE units' = [units EXCEPT ![t] = set]
    <3>1. units'[t] = set
      BY <2>2 DEF TypeOK
    <3>2. \A u \in set : u.owner \in Owners => IsReady(u)'
      BY <1>4, BatchesAreReady, UnitStays
    <3>3. \A u \in claimed[t] : IsReady(u)'
      BY <1>4, UnitStays DEF UnitsAreReady
    <3>4. half'[t] = None
      BY <1>1, <1>2 DEF InPhase
    <3> QED BY <1>2, <3>1, <3>2, <3>3, <3>4 DEF UnitsAreReady, IsReady, Ready, Bound
  <2> QED BY <1>3, <2>1, <2>2
<1> QED BY <1>5, <1>6, <1>7, <1>8, <1>9

(* The pair of a unit is claimed, or the unit is given up.                  *)
LEMMA TryPairKeeps ==
  ASSUME TypeOK, NEW t \in Stores, Local(t), TryPair(t)
  PROVE  Local(t)' /\ Polite(t)
<1> USE DEF Local
<1>1. /\ UNCHANGED <<at, unbound, todo, stack, value, catalog, failures>>
      /\ at[t] = "claim" /\ half[t] = None
  BY DEF TryPair
<1>2. UNCHANGED <<at, todo, stack, value, sealed>>
  BY <1>1 DEF catalog
<1>3. PICK u \in units[t] :
        /\ u.owner \in Pairs
        /\ units' = [units EXCEPT ![t] = @ \ {u}]
        /\ IF lock[u.owner] # None \/ value[u.owner] # None
           THEN UNCHANGED <<lock, half, claimed>>
           ELSE /\ lock' = [lock EXCEPT ![u.owner] = t]
                /\ half' = [half EXCEPT ![t] = IF u.native = None THEN None ELSE u]
                /\ claimed' = [claimed EXCEPT ![t] = IF u.native = None THEN @ \cup {u} ELSE @]
  BY DEF TryPair
<1>4. IsReady(u) /\ u.owner \in Owners
  BY <1>3 DEF UnitsAreReady, Owners
<1>5. Grows /\ \A q \in Stores : Spares(q)
  BY <1>2, <1>3, GraphAssumption DEF Grows, Spares, Mine, TypeOK
<1>6. Polite(t)
  BY <1>2, <1>3, <1>5 DEF Polite, Locals, TypeOK
<1>7. InPhase(t)' /\ RootsAreReached(t)'
  BY <1>1, <1>2, <1>3 DEF InPhase, RootsAreReached, TypeOK
<1>8. units'[t] \subseteq units[t]
  BY <1>3 DEF TypeOK
<1>9. stack[t] = <<>> /\ stack'[t] = <<>>
  BY <1>1, <1>2 DEF InPhase
<1>10. FramesAreHeld(t)' /\ FramesAreInPlace(t)'
  BY <1>9 DEF FramesAreHeld, FramesAreInPlace, Depth
<1>11. CASE UNCHANGED <<lock, half, claimed>>
  BY <1>5, <1>6, <1>7, <1>8, <1>10, <1>11, UnitsStay, ClaimsStay
<1>12. CASE lock[u.owner] = None /\ value[u.owner] = None
  <2>1. /\ lock' = [lock EXCEPT ![u.owner] = t]
        /\ half'[t] = (IF u.native = None THEN None ELSE u)
        /\ claimed'[t] = IF u.native = None THEN claimed[t] \cup {u} ELSE claimed[t]
    BY <1>3, <1>12 DEF TypeOK
  <2>2. UnitsAreReady(t)'
    <3>1. \A v \in units'[t] : v.owner \in Owners => IsReady(v)'
      BY <1>5, <1>8, UnitStays DEF UnitsAreReady
    <3>2. IsReady(u)' /\ \A v \in claimed[t] : IsReady(v)'
      BY <1>4, <1>5, UnitStays DEF UnitsAreReady
    <3> QED BY <1>3, <2>1, <3>1, <3>2 DEF UnitsAreReady, IsReady, Ready, Bound
  <2>3. Mine(t, u.owner)'
    BY <1>2, <1>4, <1>12, <2>1 DEF Mine, TypeOK
  <2>4. \A v \in claimed[t] : HeldBy(v) \subseteq Owners /\ u.owner \notin HeldBy(v)
    <3>1. \A v \in claimed[t] : u.owner \notin HeldBy(v)
      BY <1>12, GraphAssumption DEF ClaimsAreHeld, Mine
    <3> QED BY <3>1, HeldAreOwners DEF UnitsAreReady
  <2>5. \A v \in claimed[t] : \A o \in HeldBy(v) : Mine(t, o)'
    BY <1>5, <2>4 DEF ClaimsAreHeld, Spares
  <2>6. CASE u.native = None
    <3>1. HeldBy(u) = {u.owner}
      BY <1>4, <2>6, GraphAssumption DEF HeldBy
    <3> QED BY <1>6, <1>7, <1>10, <2>1, <2>2, <2>3, <2>4, <2>5, <2>6, <3>1
            DEF ClaimsAreHeld, Mine, HeldBy
  <2>7. CASE u.native # None
    BY <1>6, <1>7, <1>10, <2>1, <2>2, <2>3, <2>4, <2>5, <2>7 DEF ClaimsAreHeld, Mine, HeldBy
  <2> QED BY <2>6, <2>7
<1> QED BY <1>3, <1>11, <1>12

(* The native of a unit is claimed, or neither is it nor its pair.          *)
LEMMA TryNativeKeeps ==
  ASSUME TypeOK, NEW t \in Stores, Local(t), TryNative(t)
  PROVE  Local(t)' /\ Polite(t)
<1> USE DEF Local
<1>1. /\ UNCHANGED <<at, unbound, todo, stack, value, catalog, failures>>
      /\ at[t] = "claim"
  BY DEF TryNative
<1>2. UNCHANGED <<at, todo, stack, value, sealed>>
  BY <1>1 DEF catalog
<1>3. PICK u \in Turn(t) :
        /\ units' = [units EXCEPT ![t] = @ \ {u}]
        /\ half' = [half EXCEPT ![t] = None]
        /\ IF lock[u.native] # None \/ value[u.native] # None
           THEN /\ lock' = [lock EXCEPT ![u.owner] = IF half[t] = u THEN None ELSE @]
                /\ UNCHANGED claimed
           ELSE /\ lock' = [lock EXCEPT ![u.native] = t]
                /\ claimed' = [claimed EXCEPT ![t] = @ \cup {u}]
  BY DEF TryNative
<1>4. /\ IsReady(u) /\ u.owner \in Owners /\ u.native \in Owners
      /\ \/ half[t] = u /\ u.owner \in Pairs
         \/ half[t] # u /\ half[t] = None /\ u.owner = u.native
  <2>1. CASE half[t] # None
    BY <1>3, <2>1, GraphAssumption DEF Turn, UnitsAreReady, IsReady, Units, Owners
  <2>2. CASE half[t] = None
    <3>1. u \in units[t] /\ u.owner \in Natives
      BY <1>3, <2>2 DEF Turn
    <3>2. IsReady(u) /\ u.native = u.owner
      BY <3>1 DEF UnitsAreReady, IsReady, Owners
    <3>3. u # None
      BY <3>2, GraphAssumption DEF IsReady, Units
    <3> QED BY <2>2, <3>1, <3>2, <3>3 DEF Owners
  <2> QED BY <2>1, <2>2
<1>5. \A v \in claimed[t] : HeldBy(v) \subseteq Owners /\ IsReady(v)
  BY HeldAreOwners DEF UnitsAreReady
<1>6. half[t] = u => Mine(t, u.owner) /\ \A v \in claimed[t] : u.owner \notin HeldBy(v)
  <2>1. u # None
    BY <1>4, GraphAssumption DEF IsReady, Units
  <2> QED BY <2>1 DEF ClaimsAreHeld
<1>7. Grows
  BY <1>2 DEF Grows
<1>8. ASSUME NEW q \in Stores \ {t}
      PROVE  Spares(q)
  BY <1>2, <1>3, <1>4, <1>6, GraphAssumption DEF Spares, Mine, TypeOK
<1>9. Polite(t)
  BY <1>2, <1>3, <1>7, <1>8 DEF Polite, Locals, TypeOK
<1>10. InPhase(t)' /\ RootsAreReached(t)'
  BY <1>1, <1>2, <1>3 DEF InPhase, RootsAreReached, TypeOK
<1>11. stack[t] = <<>> /\ stack'[t] = <<>>
  BY <1>1, <1>2 DEF InPhase
<1>12. FramesAreHeld(t)' /\ FramesAreInPlace(t)'
  BY <1>11 DEF FramesAreHeld, FramesAreInPlace, Depth
<1>13. units'[t] \subseteq units[t] /\ half'[t] = None
  BY <1>3 DEF TypeOK
<1>14. claimed'[t] \subseteq claimed[t] \cup {u}
  BY <1>3 DEF TypeOK
<1>15. UnitsAreReady(t)'
  <2>1. \A v \in units'[t] : v.owner \in Owners => IsReady(v)'
    BY <1>7, <1>13, UnitStays DEF UnitsAreReady
  <2>2. IsReady(u)' /\ \A v \in claimed[t] : IsReady(v)'
    BY <1>4, <1>5, <1>7, UnitStays
  <2> QED BY <1>13, <1>14, <2>1, <2>2 DEF UnitsAreReady
<1>16. CASE lock[u.native] # None \/ value[u.native] # None
  <2>1. claimed' = claimed /\ lock' = [lock EXCEPT ![u.owner] = IF half[t] = u THEN None ELSE @]
    BY <1>3, <1>16
  <2>2. \A v \in claimed[t] : \A o \in HeldBy(v) : Mine(t, o)'
    BY <1>2, <1>4, <1>5, <1>6, <2>1 DEF ClaimsAreHeld, Mine, TypeOK
  <2>3. ClaimsAreHeld(t)'
    BY <1>13, <2>1, <2>2 DEF ClaimsAreHeld, HeldBy, Mine
  <2> QED BY <1>9, <1>10, <1>12, <1>15, <2>3
<1>17. CASE lock[u.native] = None /\ value[u.native] = None
  <2>1. claimed'[t] = claimed[t] \cup {u} /\ lock' = [lock EXCEPT ![u.native] = t]
    BY <1>3, <1>17 DEF TypeOK
  <2>2. \A v \in claimed[t] : u.native \notin HeldBy(v)
    BY <1>17, GraphAssumption DEF ClaimsAreHeld, Mine
  <2>3. \A v \in claimed[t] : \A o \in HeldBy(v) : Mine(t, o)'
    BY <1>2, <1>5, <2>1, <2>2 DEF ClaimsAreHeld, Mine, TypeOK
  <2>4. \A o \in HeldBy(u) : Mine(t, o)'
    BY <1>2, <1>4, <1>6, <1>17, <2>1 DEF HeldBy, Mine, TypeOK
  <2>5. \A v \in claimed[t] : HeldBy(u) \cap HeldBy(v) = {}
    <3>1. \A v \in claimed[t] : u.owner \notin HeldBy(v)
      BY <1>4, <1>6, <2>2
    <3> QED BY <2>2, <3>1 DEF HeldBy
  <2>6. ClaimsAreHeld(t)'
    <3>1. \A v, w \in claimed[t] \cup {u} : v # w => HeldBy(v) \cap HeldBy(w) = {}
      BY <2>5 DEF ClaimsAreHeld
    <3> QED BY <1>13, <2>1, <2>3, <2>4, <3>1 DEF ClaimsAreHeld, HeldBy, Mine
  <2> QED BY <1>9, <1>10, <1>12, <1>15, <2>6
<1> QED BY <1>16, <1>17

(* All claims are made: a batch, or none.                                   *)
LEMMA ClaimedKeeps ==
  ASSUME TypeOK, NEW t \in Stores, Local(t), Claimed(t)
  PROVE  Local(t)' /\ Polite(t)
<1> USE DEF Local
<1>1. /\ UNCHANGED <<units, half, todo, stack, value, sealed>>
      /\ at[t] = "claim" /\ half[t] = None
      /\ \/ /\ at' = [at EXCEPT ![t] = "walk"]
            /\ lock' = Without(t) /\ claimed' = [claimed EXCEPT ![t] = {}]
         \/ at' = [at EXCEPT ![t] = "finish"] /\ UNCHANGED <<lock, claimed>>
  BY DEF Claimed, catalog
<1>2. Grows /\ \A q \in Stores \ {t} : Spares(q)
  BY <1>1, GraphAssumption DEF Grows, Spares, Mine, Without, TypeOK
<1>3. Polite(t)
  BY <1>1, <1>2 DEF Polite, Locals, TypeOK
<1>4. InPhase(t)' /\ RootsAreReached(t)'
  BY <1>1 DEF InPhase, RootsAreReached, TypeOK
<1>5. stack[t] = <<>> /\ stack'[t] = <<>>
  BY <1>1 DEF InPhase
<1>6. FramesAreHeld(t)' /\ FramesAreInPlace(t)'
  BY <1>5 DEF FramesAreHeld, FramesAreInPlace, Depth
<1>7. UnitsAreReady(t)'
  BY <1>1, <1>2, UnitsStay DEF TypeOK
<1>8. ClaimsAreHeld(t)'
  <2>1. CASE lock' = lock /\ claimed' = claimed
    BY <1>1, <2>1, ClaimsStay DEF Spares, Mine
  <2>2. CASE claimed'[t] = {}
    BY <1>1, <2>2 DEF ClaimsAreHeld
  <2> QED BY <1>1, <2>1, <2>2 DEF TypeOK
<1> QED BY <1>3, <1>4, <1>6, <1>7, <1>8

(* A claimed unit is produced under the locks it holds.                     *)
LEMMA FinishReadyKeeps ==
  ASSUME TypeOK, NEW t \in Stores, Local(t), FinishReady(t)
  PROVE  Local(t)' /\ Polite(t)
<1> USE DEF Local
<1>1. /\ UNCHANGED <<at, units, half, todo, lock, value, sealed>>
      /\ at[t] = "finish" /\ stack[t] = <<>>
  BY DEF FinishReady, slots, catalog
<1> DEFINE Start(u) == Frame(u.owner, IF u.owner \in Natives THEN "encode"
                                      ELSE IF u.native = None THEN "index" ELSE "fused")
<1>2. PICK u \in claimed[t] :
        /\ claimed' = [claimed EXCEPT ![t] = @ \ {u}]
        /\ stack' = [stack EXCEPT ![t] = <<Start(u)>>]
  BY DEF FinishReady
<1>3. PICK f : f = Start(u)
  OBVIOUS
<1>4. stack'[t] = <<f>> /\ claimed'[t] = claimed[t] \ {u}
  BY <1>1, <1>2, <1>3 DEF TypeOK
<1>5. Depth(t)' = {1} /\ stack'[t][1] = f
  BY <1>4 DEF Depth
<1>6. IsReady(u)
  BY DEF UnitsAreReady
<1>7. f.owner = u.owner /\ f.at = IF u.owner \in Natives THEN "encode"
                                  ELSE IF u.native = None THEN "index" ELSE "fused"
  BY <1>3 DEF Frame
<1>8. Holds(f) = HeldBy(u)
  BY <1>6, <1>7, GraphAssumption DEF Holds, HeldBy, IsReady, Units, Owners
<1>9. ASSUME NEW above
      PROVE  InPlace(f, 1, above)
  BY <1>6, <1>7, GraphAssumption DEF InPlace, IsReady, Units, Owners
<1>10. FramesAreInPlace(t)'
  <2>1. f \in Frames
    BY <1>3, <1>6 DEF Frame, Frames, Places, IsReady, Units
  <2>2. PICK above : above = stack'[t][0]
    OBVIOUS
  <2>3. InPlace(f, 1, above)'
    BY <1>1, <1>9, <2>1, InPlaceStays DEF Grows
  <2>4. InPlace(stack[t][1], 1, stack[t][0])'
    BY <1>5, <2>2, <2>3 DEF InPlace, Awaits, Ready, Bound, Id, DenotesPair
  <2> QED BY <1>5, <2>4 DEF FramesAreInPlace
<1>11. FramesAreHeld(t)'
  <2>1. \A o \in Holds(f) : Mine(t, o)'
    BY <1>1, <1>8 DEF ClaimsAreHeld, Mine
  <2>2. \A v \in claimed'[t] : Holds(f) \cap HeldBy(v) = {}
    BY <1>4, <1>8 DEF ClaimsAreHeld
  <2> QED BY <1>5, <2>1, <2>2 DEF FramesAreHeld, Holds, HeldBy
<1>12. Grows /\ \A q \in Stores : Spares(q)
  BY <1>1 DEF Grows, Spares, Mine
<1>13. Polite(t)
  BY <1>1, <1>2, <1>12 DEF Polite, Locals, TypeOK
<1>14. InPhase(t)' /\ RootsAreReached(t)'
  BY <1>1, <1>2 DEF InPhase, RootsAreReached
<1>15. UnitsAreReady(t)' /\ ClaimsAreHeld(t)'
  BY <1>1, <1>4, <1>12, UnitsStay, ClaimsStay
<1> QED BY <1>10, <1>11, <1>13, <1>14, <1>15

(* The next root, or the end.                                               *)
LEMMA WalkKeeps ==
  ASSUME TypeOK, NEW t \in Stores, Local(t), Walk(t)
  PROVE  Local(t)' /\ Polite(t)
<1> USE DEF Local
<1>1. /\ UNCHANGED <<units, half, claimed, lock, value, sealed>>
      /\ at[t] = "walk" /\ stack[t] = <<>>
  BY DEF Walk, batch, slots, catalog
<1>2. Grows /\ \A q \in Stores : Spares(q)
  BY <1>1 DEF Grows, Spares, Mine
<1>3. Polite(t)
  BY <1>1, <1>2 DEF Polite, Locals, TypeOK, Walk
<1>4. UnitsAreReady(t)' /\ ClaimsAreHeld(t)'
  BY <1>1, <1>2, UnitsStay, ClaimsStay
<1>5. claimed'[t] = {} /\ half'[t] = None
  BY <1>1 DEF InPhase
<1>6. todo[t] \in Seq(Owners)
  BY DEF TypeOK
<1>7. CASE todo[t] = <<>>
  <2>1. at'[t] = "done" /\ stack' = stack
    BY <1>7 DEF Walk, TypeOK
  <2>2. \A r \in ToSet(Roots[t]) : Bound(r)
    BY <1>1, <1>7 DEF RootsAreReached, ToSet
  <2>3. RootsAreReached(t)'
    BY <1>2, <2>1, <2>2, RootsStay DEF RootsAreReached
  <2>4. FramesAreHeld(t)' /\ FramesAreInPlace(t)'
    BY <1>1, <1>2, <2>1, HeldStay, FramesStay
  <2> QED BY <1>1, <1>3, <1>4, <1>5, <2>1, <2>3, <2>4 DEF InPhase
<1>8. CASE todo[t] # <<>>
  <2> DEFINE f == Frame(Head(todo[t]), "lock")
  <2>1. at'[t] = "walk" /\ stack'[t] = <<f>> /\ todo'[t] = Tail(todo[t])
    BY <1>1, <1>8 DEF Walk, TypeOK
  <2>2. f.at = "lock" /\ f.owner = Head(todo[t])
    BY DEF Frame
  <2> HIDE DEF f
  <2>3. Depth(t)' = {1} /\ stack'[t][1] = f /\ Len(stack'[t]) = 1 /\ stack'[t] # <<>>
    BY <2>1 DEF Depth
  <2>4. FramesAreHeld(t)' /\ FramesAreInPlace(t)'
    BY <2>2, <2>3 DEF FramesAreHeld, FramesAreInPlace, Holds, InPlace
  <2>5. ToSet(todo[t]) \subseteq ToSet(Tail(todo[t])) \cup {Head(todo[t])}
    <3>1. Len(Tail(todo[t])) = Len(todo[t]) - 1 /\ Head(todo[t]) = todo[t][1]
      BY <1>6, <1>8
    <3>2. \A i \in 2..Len(todo[t]) :
            i - 1 \in DOMAIN Tail(todo[t]) /\ Tail(todo[t])[i - 1] = todo[t][i]
      BY <1>6, <1>8, <3>1
    <3>3. ASSUME NEW i \in DOMAIN todo[t]
          PROVE  todo[t][i] \in ToSet(Tail(todo[t])) \cup {Head(todo[t])}
      <4>1. i = 1 \/ i \in 2..Len(todo[t])
        BY <1>6
      <4>2. i \in 2..Len(todo[t]) => todo[t][i] \in ToSet(Tail(todo[t]))
        BY <3>2 DEF ToSet
      <4> QED BY <3>1, <4>1, <4>2
    <3> QED BY <3>3 DEF ToSet
  <2>6. RootsAreReached(t)'
    <3> SUFFICES ASSUME NEW r \in ToSet(Roots[t])
                 PROVE  Bound(r)' \/ r \in ToSet(todo'[t]) \/ r = f.owner
      BY <2>1, <2>3 DEF RootsAreReached
    <3>1. Bound(r) \/ r \in ToSet(todo[t])
      BY <1>1 DEF RootsAreReached
    <3> QED BY <1>2, <2>1, <2>2, <2>5, <3>1, RootsStay
  <2> QED BY <1>1, <1>3, <1>4, <1>5, <2>1, <2>4, <2>6 DEF InPhase
<1> QED BY <1>7, <1>8

-----------------------------------------------------------------------------
\* Calls: the top frame changes, returns, or calls ensure_pair or
\* ensure_native for a dependency.

Rest(t) == <<at[t], units[t], half[t], claimed[t], todo[t]>>

\* What is not the top frame's stays locked and empty.
SparesTheRest(t) ==
  \A o \in Owners : Mine(t, o) /\ o \notin Holds(stack[t][1]) => Mine(t, o)'

(* What every step on a call leaves as it is.                               *)
LEMMA CallsKeep ==
  ASSUME TypeOK, NEW t \in Stores, Local(t), stack[t] # <<>>, Grows, UNCHANGED Rest(t),
         SparesTheRest(t)
  PROVE  /\ at[t] \in {"finish", "walk"} /\ UnitsAreReady(t)' /\ ClaimsAreHeld(t)'
         /\ \A u \in claimed[t] : \A o \in HeldBy(u) : Mine(t, o) /\ o \notin Holds(stack[t][1])
<1> USE DEF Local, Rest
<1>1. at[t] \in {"finish", "walk"} /\ half[t] = None
  BY DEF InPhase, TypeOK
<1>2. UnitsAreReady(t)'
  BY UnitsStay
<1>3. 1 \in Depth(t)
  BY DEF Depth, TypeOK
<1>4. \A u \in claimed[t] : \A o \in HeldBy(u) :
        o \in Owners /\ Mine(t, o) /\ o \notin Holds(stack[t][1])
  BY <1>3, HeldAreOwners DEF UnitsAreReady, ClaimsAreHeld, FramesAreHeld
<1>5. \A u \in claimed[t] : \A o \in HeldBy(u) : Mine(t, o)'
  BY <1>4 DEF SparesTheRest
<1>6. ClaimsAreHeld(t)'
  BY <1>1, <1>5 DEF ClaimsAreHeld, HeldBy, Mine
<1> QED BY <1>1, <1>2, <1>4, <1>6

(* The frames below the top keep their slots, which are not the top's.      *)
LEMMA LowerFrames ==
  ASSUME TypeOK, NEW t \in Stores, Local(t), stack[t] # <<>>, Grows, SparesTheRest(t),
         NEW k \in 2..Len(stack[t])
  PROVE  /\ k \in Nat /\ k - 1 \in Nat /\ stack[t][k] \in Frames
         /\ InPlace(stack[t][k], k, stack[t][k - 1])
         /\ \A o \in Holds(stack[t][k]) :
              Mine(t, o) /\ Mine(t, o)' /\ o \notin Holds(stack[t][1])
<1>1. 1 \in Depth(t) /\ k \in Depth(t) /\ k # 1 /\ k \in Nat /\ k - 1 \in Nat
  BY DEF Depth, TypeOK
<1>2. /\ stack[t][k] \in Frames /\ InPlace(stack[t][k], k, stack[t][k - 1])
      /\ Holds(stack[t][k]) \subseteq Owners
  BY <1>1, FrameFacts DEF Local
<1>3. \A o \in Holds(stack[t][k]) : Mine(t, o) /\ o \notin Holds(stack[t][1])
  BY <1>1 DEF Local, FramesAreHeld
<1> QED BY <1>1, <1>2, <1>3 DEF SparesTheRest

(* What is to be shown of the frames of a stack r that a step leaves.       *)
LEMMA FramesOf ==
  ASSUME NEW t, NEW r, stack'[t] = r, claimed'[t] = claimed[t], NEW n, n = Len(r),
         \A k \in 1..n : \A o \in Holds(r[k]) : Mine(t, o)',
         \A j, k \in 1..n : j # k => Holds(r[j]) \cap Holds(r[k]) = {},
         \A k \in 1..n, u \in claimed[t] : Holds(r[k]) \cap HeldBy(u) = {},
         \A k \in 1..n : \A f, above : f = r[k] /\ above = r[k - 1] => InPlace(f, k, above)'
  PROVE  FramesAreHeld(t)' /\ FramesAreInPlace(t)'
<1>1. Depth(t)' = 1..n
  BY DEF Depth
<1>2. FramesAreHeld(t)'
  <2>1. \A k \in Depth(t)' : \A o \in Holds(stack'[t][k]) : Mine(t, o)'
    BY <1>1
  <2>2. \A j, k \in Depth(t)' : j # k => Holds(stack'[t][j]) \cap Holds(stack'[t][k]) = {}
    BY <1>1
  <2>3. \A k \in Depth(t)', u \in claimed'[t] : Holds(stack'[t][k]) \cap HeldBy(u) = {}
    BY <1>1
  <2> QED BY <2>1, <2>2, <2>3 DEF FramesAreHeld, Holds, HeldBy
<1>3. FramesAreInPlace(t)'
  <2> SUFFICES ASSUME NEW k \in 1..n
               PROVE  InPlace(stack[t][k], k, stack[t][k - 1])'
    BY <1>1 DEF FramesAreInPlace
  <2>1. PICK f, above : f = r[k] /\ above = r[k - 1]
    OBVIOUS
  <2>2. InPlace(f, k, above)'
    BY <2>1
  <2> QED BY ZenonT(40), <2>1, <2>2 DEF InPlace, Awaits, Ready, Bound, Id, DenotesPair
<1> QED BY <1>2, <1>3

(* A call moves on to its next place.                                       *)
LEMMA ReplaceKeeps ==
  ASSUME TypeOK, NEW t \in Stores, Local(t), stack[t] # <<>>, Grows, UNCHANGED Rest(t),
         SparesTheRest(t), NEW f \in Frames,
         stack'[t] = <<f>> \o Tail(stack[t]), f.owner = stack[t][1].owner,
         \A o \in Holds(f) : Mine(t, o)' /\ (o \in Holds(stack[t][1]) \/ ~Mine(t, o)),
         \A above : InPlace(f, 1, above)'
  PROVE  Local(t)'
<1>1. PICK s, r : s = stack[t] /\ r = stack'[t]
  OBVIOUS
<1>2. s \in Seq(Frames) /\ s # <<>> /\ r = <<f>> \o Tail(s)
  BY <1>1 DEF TypeOK
<1>3. PICK n \in Nat \ {0} : n = Len(s)
  BY <1>2
<1>4. /\ n = Len(r) /\ r # <<>> /\ r[1] = f
      /\ \A k \in 2..n : r[k] = s[k]
  BY <1>2, <1>3, Replaced
<1>5. \A k \in 2..n :
        /\ k \in Nat /\ s[k] \in Frames /\ InPlace(s[k], k, s[k - 1])
        /\ \A o \in Holds(s[k]) : Mine(t, o) /\ Mine(t, o)' /\ o \notin Holds(s[1])
  BY <1>1, <1>3, LowerFrames
<1>6. /\ at[t] \in {"finish", "walk"} /\ UnitsAreReady(t)' /\ ClaimsAreHeld(t)'
      /\ \A u \in claimed[t] : \A o \in HeldBy(u) : Mine(t, o) /\ o \notin Holds(s[1])
  BY <1>1, CallsKeep
<1>7. \A o \in Holds(f) : Mine(t, o)' /\ (o \in Holds(s[1]) \/ ~Mine(t, o))
  BY <1>1
<1>8. Depth(t) = 1..n /\ \A k \in 1..n : k = 1 \/ k \in 2..n
  BY <1>1, <1>3 DEF Depth
<1>9. /\ \A j, k \in 1..n : j # k => Holds(s[j]) \cap Holds(s[k]) = {}
      /\ \A k \in 1..n, u \in claimed[t] : Holds(s[k]) \cap HeldBy(u) = {}
  BY <1>1, <1>8 DEF Local, FramesAreHeld
<1>10. \A k \in 1..n : \A o \in Holds(r[k]) : Mine(t, o)'
  BY <1>4, <1>5, <1>7, <1>8
<1>11. \A j, k \in 1..n : j # k => Holds(r[j]) \cap Holds(r[k]) = {}
  <2>1. \A k \in 2..n : Holds(f) \cap Holds(s[k]) = {}
    BY <1>5, <1>7
  <2>2. ASSUME NEW j \in 2..n, NEW k \in 2..n, j # k
        PROVE  Holds(s[j]) \cap Holds(s[k]) = {}
    <3>1. j \in 1..n /\ k \in 1..n
      OBVIOUS
    <3> QED BY <1>9, <2>2, <3>1
  <2> QED BY <1>4, <1>8, <2>1, <2>2
<1>12. \A k \in 1..n, u \in claimed[t] : Holds(r[k]) \cap HeldBy(u) = {}
  <2>1. \A u \in claimed[t] : Holds(f) \cap HeldBy(u) = {}
    BY <1>6, <1>7
  <2> QED BY <1>4, <1>8, <1>9, <2>1
<1>13. ASSUME NEW k \in 1..n, NEW g, NEW above, g = r[k], above = r[k - 1]
       PROVE  InPlace(g, k, above)'
  <2>1. CASE k = 1
    BY <1>4, <1>13, <2>1
  <2>2. CASE k \in 2..n
    <3>1. InPlace(s[k], k, s[k - 1]) /\ k \in Nat /\ s[k] \in Frames /\ g = s[k]
      BY <1>4, <1>5, <1>13, <2>2
    <3>2. above.owner = s[k - 1].owner
      <4>1. CASE k = 2
        <5>1. k - 1 = 1
          BY <4>1
        <5> QED BY <1>1, <1>4, <1>13, <5>1
      <4>2. CASE k # 2
        <5>1. k - 1 \in 2..n
          BY <2>2, <4>2
        <5> QED BY <1>4, <1>13, <5>1
      <4> QED BY <4>1, <4>2
    <3>3. InPlace(g, k, above)
      BY <3>1, <3>2 DEF InPlace, Awaits
    <3> QED BY <3>1, <3>3, InPlaceStays
  <2> QED BY <1>8, <2>1, <2>2
<1>14. claimed'[t] = claimed[t]
  BY DEF Rest
<1>15. FramesAreHeld(t)' /\ FramesAreInPlace(t)'
  BY <1>1, <1>4, <1>10, <1>11, <1>12, <1>13, <1>14, FramesOf
<1>16. RootsAreReached(t)'
  <2>1. r[n].owner = s[n].owner
    <3>1. n = 1 \/ n \in 2..n
      BY <1>3
    <3> QED BY <1>1, <1>4, <3>1
  <2> QED BY <1>1, <1>3, <1>4, <1>6, <2>1, RootsStay DEF RootsAreReached, Local, Rest
<1>17. InPhase(t)'
  BY <1>6 DEF InPhase, Local, Rest
<1> QED BY <1>6, <1>15, <1>16, <1>17 DEF Local

(* A call returns, with its owner bound.                                    *)
LEMMA PopKeeps ==
  ASSUME TypeOK, NEW t \in Stores, Local(t), stack[t] # <<>>, Grows, UNCHANGED Rest(t),
         SparesTheRest(t), stack'[t] = <<>> \o Tail(stack[t]),
         NEW o, o = stack[t][1].owner, Bound(o)'
  PROVE  Local(t)'
<1>1. PICK s, r : s = stack[t] /\ r = stack'[t]
  OBVIOUS
<1>2. s \in Seq(Frames) /\ s # <<>> /\ r = <<>> \o Tail(s)
  BY <1>1 DEF TypeOK
<1>3. PICK n \in Nat : n + 1 = Len(s)
  <2>1. Len(s) \in Nat \ {0}
    BY <1>2
  <2>2. Len(s) - 1 \in Nat /\ (Len(s) - 1) + 1 = Len(s)
    BY <2>1
  <2> QED BY <2>2
<1>4. r \in Seq(Frames) /\ n = Len(r) /\ \A k \in 1..n : r[k] = s[k + 1]
  BY <1>2, <1>3, Popped
<1>5. ASSUME NEW k \in 1..n
      PROVE  /\ k \in Nat /\ r[k] \in Frames /\ InPlace(r[k], k + 1, s[k])
             /\ \A x \in Holds(r[k]) : Mine(t, x)'
             /\ k + 1 \in 1..n + 1 /\ r[k] = s[k + 1]
  <2>1. k + 1 \in 2..Len(stack[t]) /\ (k + 1) - 1 = k
    BY <1>1, <1>3
  <2>2. r[k] = s[k + 1]
    BY <1>4
  <2> QED BY <1>1, <1>3, <2>1, <2>2, LowerFrames
<1>6. /\ at[t] \in {"finish", "walk"} /\ UnitsAreReady(t)' /\ ClaimsAreHeld(t)'
  BY CallsKeep
<1>7. Depth(t) = 1..n + 1
  BY <1>1, <1>3 DEF Depth
<1>8. /\ \A j, k \in 1..n + 1 : j # k => Holds(s[j]) \cap Holds(s[k]) = {}
      /\ \A k \in 1..n + 1, u \in claimed[t] : Holds(s[k]) \cap HeldBy(u) = {}
  BY <1>1, <1>7 DEF Local, FramesAreHeld
<1>9. ASSUME NEW j \in 1..n, NEW k \in 1..n, j # k
      PROVE  Holds(r[j]) \cap Holds(r[k]) = {}
  <2>1. j + 1 # k + 1
    BY <1>9
  <2> QED BY <1>5, <1>8, <2>1
<1>10. \A k \in 1..n, u \in claimed[t] : Holds(r[k]) \cap HeldBy(u) = {}
  BY <1>5, <1>8
<1>11. ASSUME NEW k \in 1..n, NEW g, NEW above, g = r[k], above = r[k - 1]
       PROVE  InPlace(g, k, above)'
  <2>1. /\ g \in Frames /\ k \in Nat /\ InPlace(g, k + 1, s[k]) /\ k + 1 # 1
    BY <1>5, <1>11
  <2>2. CASE k = 1
    <3>1. InPlace(g, k + 1, s[k])'
      <4>1. PICK a : a = s[k]
        OBVIOUS
      <4>2. InPlace(g, k + 1, a) /\ k + 1 \in Nat
        BY <2>1, <4>1
      <4>3. InPlace(g, k + 1, a)'
        BY <2>1, <4>2, InPlaceStays
      <4> QED BY <4>1, <4>3
    <3>2. s[k].owner = o
      BY <1>1, <2>2
    <3> QED BY <2>1, <2>2, <3>1, <3>2 DEF InPlace, Awaits
  <2>3. CASE k # 1
    <3>1. k - 1 \in 1..n /\ (k - 1) + 1 = k
      BY <2>3
    <3>2. above = s[k]
      BY <1>5, <1>11, <3>1
    <3>3. InPlace(g, k, above)
      BY <2>1, <2>3, <3>2 DEF InPlace, Awaits
    <3> QED BY <2>1, <3>3, InPlaceStays
  <2> QED BY <2>2, <2>3
<1>12. claimed'[t] = claimed[t]
  BY DEF Rest
<1>13. FramesAreHeld(t)' /\ FramesAreInPlace(t)'
  BY ZenonT(40), <1>1, <1>4, <1>5, <1>9, <1>10, <1>11, <1>12, FramesOf
<1>14. RootsAreReached(t)'
  <2>1. CASE n = 0
    <3>1. Len(s) = 1
      BY <1>3, <2>1
    <3>2. s[Len(s)].owner = o
      BY <1>1, <3>1
    <3> QED BY <1>1, <1>2, <1>6, <3>2, RootsStay DEF RootsAreReached, Local, Rest
  <2>2. CASE n # 0
    <3>1. n \in 1..n /\ r # <<>>
      BY <1>3, <1>4, <2>2
    <3>2. r[Len(r)] = s[Len(s)]
      BY <1>3, <1>4, <3>1
    <3> QED BY <1>1, <1>2, <1>6, <3>1, <3>2, RootsStay DEF RootsAreReached, Local, Rest
  <2> QED BY <2>1, <2>2
<1>15. InPhase(t)'
  BY <1>6 DEF InPhase, Local, Rest
<1> QED BY <1>6, <1>13, <1>14, <1>15 DEF Local

(* A call waits for another.                                                *)
LEMMA PushKeeps ==
  ASSUME TypeOK, NEW t \in Stores, Local(t), stack[t] # <<>>, Grows, UNCHANGED Rest(t),
         Spares(t), NEW f \in Frames, NEW d \in Frames, d.at = "lock",
         stack'[t] = (<<d>> \o <<f>>) \o Tail(stack[t]), f.owner = stack[t][1].owner,
         Holds(f) = Holds(stack[t][1]), InPlace(f, 2, d)
  PROVE  Local(t)'
<1>1. PICK s, r : s = stack[t] /\ r = stack'[t]
  OBVIOUS
<1>2. s \in Seq(Frames) /\ s # <<>> /\ r = (<<d>> \o <<f>>) \o Tail(s)
  BY <1>1 DEF TypeOK
<1>3. PICK n \in Nat \ {0} : n = Len(s)
  BY SMTT(20), <1>2
<1>4. /\ n + 1 = Len(r) /\ r # <<>> /\ r[1] = d /\ r[2] = f
      /\ \A k \in 3..n + 1 : r[k] = s[k - 1]
  BY <1>2, <1>3, Pushed
<1>5. SparesTheRest(t)
  BY DEF Spares, SparesTheRest
<1>6. /\ at[t] \in {"finish", "walk"} /\ UnitsAreReady(t)' /\ ClaimsAreHeld(t)'
  BY <1>5, CallsKeep
<1>7. Depth(t) = 1..n
  BY <1>1, <1>3 DEF Depth
<1>8. /\ \A k \in 1..n : Holds(s[k]) \subseteq Owners /\ \A o \in Holds(s[k]) : Mine(t, o)
      /\ \A j, k \in 1..n : j # k => Holds(s[j]) \cap Holds(s[k]) = {}
      /\ \A k \in 1..n, u \in claimed[t] : Holds(s[k]) \cap HeldBy(u) = {}
  BY <1>1, <1>7, FrameFacts DEF Local, FramesAreHeld
<1>9. Holds(d) = {}
  BY DEF Holds
<1>10. ASSUME NEW k \in 2..n + 1
       PROVE  k - 1 \in 1..n /\ Holds(r[k]) = Holds(s[k - 1])
  <2>1. k - 1 \in 1..n
    OBVIOUS
  <2>2. CASE k = 2
    <3>1. k - 1 = 1
      BY <2>2
    <3> QED BY <1>1, <1>4, <2>1, <2>2, <3>1
  <2>3. CASE k # 2
    <3>1. k \in 3..n + 1
      BY <2>3
    <3> QED BY <1>4, <2>1, <3>1
  <2> QED BY <2>2, <2>3
<1>11. \A k \in 1..n + 1 : k = 1 \/ k \in 2..n + 1
  BY <1>3
<1>12. \A k \in 1..n + 1 : \A o \in Holds(r[k]) : Mine(t, o)'
  BY <1>4, <1>8, <1>9, <1>10, <1>11 DEF Spares
<1>13. ASSUME NEW j \in 1..n + 1, NEW k \in 1..n + 1, j # k
       PROVE  Holds(r[j]) \cap Holds(r[k]) = {}
  <2>1. CASE j = 1 \/ k = 1
    BY <1>4, <1>9, <2>1
  <2>2. CASE j \in 2..n + 1 /\ k \in 2..n + 1
    <3>1. j - 1 # k - 1
      BY <1>13
    <3> QED BY <1>8, <1>10, <2>2, <3>1
  <2> QED BY <1>11, <2>1, <2>2
<1>14. \A k \in 1..n + 1, u \in claimed[t] : Holds(r[k]) \cap HeldBy(u) = {}
  BY <1>4, <1>8, <1>9, <1>10, <1>11
<1>15. ASSUME NEW k \in 1..n + 1, NEW g, NEW above, g = r[k], above = r[k - 1]
       PROVE  InPlace(g, k, above)'
  <2>1. CASE k = 1
    BY <1>4, <1>15, <2>1 DEF InPlace
  <2>2. CASE k = 2
    <3>1. k - 1 = 1
      BY <2>2
    <3> QED BY <1>4, <1>15, <2>2, <3>1, InPlaceStays
  <2>3. CASE k \in 3..n + 1
    <3>1. k - 1 \in 2..n /\ k - 1 \in 1..n /\ (k - 1) - 1 = k - 2 /\ k \in Nat /\ k # 1 /\ k - 1 # 1
      BY <2>3
    <3>2. /\ g = s[k - 1] /\ g \in Frames /\ InPlace(g, k - 1, s[k - 2])
      BY <1>1, <1>3, <1>4, <1>5, <1>15, <2>3, <3>1, LowerFrames
    <3>3. above.owner = s[k - 2].owner
      <4>1. CASE k = 3
        <5>1. k - 1 = 2 /\ k - 2 = 1
          BY <4>1
        <5> QED BY <1>1, <1>4, <1>15, <5>1
      <4>2. CASE k # 3
        <5>1. k - 1 \in 3..n + 1
          BY <2>3, <4>2
        <5> QED BY <1>4, <1>15, <3>1, <5>1
      <4> QED BY <4>1, <4>2
    <3>4. InPlace(g, k, above)
      BY <3>1, <3>2, <3>3 DEF InPlace, Awaits
    <3> QED BY <3>1, <3>2, <3>4, InPlaceStays
  <2>4. k = 1 \/ k = 2 \/ k \in 3..n + 1
    OBVIOUS
  <2> QED BY <2>1, <2>2, <2>3, <2>4
<1>16. claimed'[t] = claimed[t]
  BY DEF Rest
<1>17. FramesAreHeld(t)' /\ FramesAreInPlace(t)'
  <2> DEFINE m == n + 1
  <2>1. m = Len(r)
    BY <1>4
  <2> QED BY <1>1, <1>12, <1>13, <1>14, <1>15, <1>16, <2>1, FramesOf
<1>18. RootsAreReached(t)'
  <2>1. r[n + 1].owner = s[n].owner
    <3>1. CASE n = 1
      <4>1. n + 1 = 2
        BY <3>1
      <4> QED BY <1>1, <1>4, <3>1, <4>1
    <3>2. CASE n # 1
      <4>1. n + 1 \in 3..n + 1 /\ (n + 1) - 1 = n
        BY <1>3, <3>2
      <4> QED BY <1>4, <4>1
    <3> QED BY <3>1, <3>2
  <2> QED BY <1>1, <1>3, <1>4, <1>6, <2>1, RootsStay DEF RootsAreReached, Local, Rest
<1>19. InPhase(t)'
  BY <1>6 DEF InPhase, Local, Rest
<1> QED BY <1>6, <1>17, <1>18, <1>19 DEF Local

(* The frame on top: where it is, and that its slots are the store's.       *)
LEMMA TopFacts ==
  ASSUME TypeOK, NEW t \in Stores, Local(t), stack[t] # <<>>
  PROVE  /\ Top(t) = stack[t][1] /\ Top(t) \in Frames
         /\ Top(t).owner \in Owners /\ Top(t).at \in Places
         /\ \E above : InPlace(Top(t), 1, above)
         /\ \A o \in Holds(Top(t)) : o \in Owners /\ Mine(t, o)
<1>1. stack[t] \in Seq(Frames)
  BY DEF TypeOK
<1>2. Top(t) = stack[t][1] /\ 1 \in Depth(t)
  BY <1>1 DEF Top, Depth
<1>3. /\ Top(t) \in Frames /\ InPlace(Top(t), 1, stack[t][0])
      /\ Holds(Top(t)) \subseteq Owners
  BY <1>2, FrameFacts DEF Local
<1>4. \A o \in Holds(Top(t)) : Mine(t, o)
  BY <1>2 DEF Local, FramesAreHeld
<1> QED BY <1>2, <1>3, <1>4 DEF Frames

(* A call waits for the slot of its owner, or finds it bound.               *)
LEMMA LockKeeps ==
  ASSUME TypeOK, NEW t \in Stores, Local(t), Lock(t)
  PROVE  Local(t)' /\ Polite(t)
<1> DEFINE o == Top(t).owner
           f == [Top(t) EXCEPT !.at = IF o \in Natives THEN "encode" ELSE "main"]
<1>1. /\ stack[t] # <<>> /\ Top(t).at = "lock" /\ lock[o] = None
      /\ UNCHANGED <<at, units, half, claimed, todo, value, sealed>>
  BY DEF Lock, Runs, batch, catalog
<1>2. /\ Top(t) = stack[t][1] /\ Top(t) \in Frames /\ o \in Owners
  BY <1>1, TopFacts
<1>3. Grows /\ UNCHANGED Rest(t)
  BY <1>1 DEF Grows, Rest
<1>4. \/ /\ Bound(o) /\ lock' = lock
         /\ stack' = [stack EXCEPT ![t] = <<>> \o Tail(stack[t])]
      \/ /\ ~Bound(o) /\ lock' = [lock EXCEPT ![o] = t]
         /\ stack' = [stack EXCEPT ![t] = <<f>> \o Tail(stack[t])]
  BY DEF Lock, Calls
<1>5. \A q \in Stores : Spares(q)
  BY <1>1, <1>2, <1>4, GraphAssumption DEF Spares, Mine, TypeOK
<1>6. Polite(t)
  BY <1>1, <1>3, <1>4, <1>5 DEF Polite, Locals, TypeOK
<1>7. SparesTheRest(t)
  BY <1>5 DEF Spares, SparesTheRest
<1>8. CASE Bound(o) /\ stack' = [stack EXCEPT ![t] = <<>> \o Tail(stack[t])]
  <2>1. PICK x : x = o
    OBVIOUS
  <2>2. Bound(x)'
    BY <1>1, <1>8, <2>1 DEF Bound
  <2>3. stack'[t] = <<>> \o Tail(stack[t]) /\ x = stack[t][1].owner
    BY <1>2, <1>8, <2>1 DEF TypeOK
  <2> QED BY <1>1, <1>3, <1>6, <1>7, <2>2, <2>3, PopKeeps
<1>9. CASE /\ ~Bound(o) /\ lock' = [lock EXCEPT ![o] = t]
           /\ stack' = [stack EXCEPT ![t] = <<f>> \o Tail(stack[t])]
  <2>1. PICK g : g = f
    OBVIOUS
  <2>2. /\ g \in Frames /\ g.owner = o
        /\ g.at = IF o \in Natives THEN "encode" ELSE "main"
    BY <1>2, <2>1 DEF Frames, Places
  <2>3. stack'[t] = <<g>> \o Tail(stack[t]) /\ g.owner = stack[t][1].owner
    BY <1>2, <1>9, <2>1, <2>2 DEF TypeOK
  <2>4. Holds(g) = {o}
    BY <2>2 DEF Holds
  <2>5. value'[o] = None /\ lock'[o] = t /\ lock[o] # t
    BY <1>1, <1>2, <1>9, GraphAssumption DEF Bound, TypeOK
  <2>6. \A x \in Holds(g) : Mine(t, x)' /\ ~Mine(t, x)
    BY <2>4, <2>5 DEF Mine
  <2>7. \A above : InPlace(g, 1, above)'
    BY <1>2, <2>2 DEF InPlace, Owners
  <2> QED BY <1>1, <1>3, <1>6, <1>7, <2>2, <2>3, <2>6, <2>7, ReplaceKeeps
<1> QED BY <1>4, <1>8, <1>9

(* A call makes sure of a dependency.                                       *)
LEMMA ResolveKeeps ==
  ASSUME TypeOK, NEW t \in Stores, Local(t), NEW place, NEW dependency \in Owners \cup {None},
         NEW next \in Places, Resolve(t, place, dependency, next),
         place \in {"main", "secondary"}, next \in {"secondary", "owner"},
         NEW f, f = [Top(t) EXCEPT !.at = next],
         IF dependency = None THEN \A above : InPlace(f, 1, above)
                              ELSE InPlace(f, 2, Frame(dependency, "lock"))
  PROVE  Local(t)' /\ Polite(t)
<1>1. /\ stack[t] # <<>> /\ Top(t).at = place
      /\ UNCHANGED <<at, units, half, claimed, todo, lock, value, sealed>>
  BY DEF Resolve, Runs, batch, slots, catalog
<1>2. /\ Top(t) = stack[t][1] /\ Top(t) \in Frames
  BY <1>1, TopFacts
<1>3. Grows /\ UNCHANGED Rest(t) /\ \A q \in Stores : Spares(q)
  BY <1>1 DEF Grows, Rest, Spares, Mine
<1>4. stack' = [stack EXCEPT ![t] =
        ((IF dependency = None THEN <<>> ELSE <<Frame(dependency, "lock")>>) \o <<f>>)
          \o Tail(stack[t])]
  BY DEF Resolve, Calls
<1>5. Polite(t)
  BY <1>1, <1>3, <1>4 DEF Polite, Locals, TypeOK
<1>6. f \in Frames /\ f.owner = stack[t][1].owner /\ f.at = next
  BY <1>2 DEF Frames
<1>7. Holds(f) = Holds(stack[t][1])
  BY <1>1, <1>2, <1>6 DEF Holds
<1>8. \A o \in Holds(f) : Mine(t, o) /\ Mine(t, o)'
  BY <1>1, <1>2, <1>7, TopFacts DEF Mine
<1>9. SparesTheRest(t)
  BY <1>3 DEF Spares, SparesTheRest
<1>10. CASE dependency = None
  <2>1. <<>> \o <<f>> = <<f>>
    OBVIOUS
  <2>2. stack'[t] = <<f>> \o Tail(stack[t])
    BY <1>4, <1>10, <2>1 DEF TypeOK
  <2>3. \A above : InPlace(f, 1, above)'
    BY <1>3, <1>6, <1>10, InPlaceStays
  <2> QED BY <1>1, <1>3, <1>5, <1>6, <1>7, <1>8, <1>9, <2>2, <2>3, ReplaceKeeps
<1>11. CASE dependency # None
  <2>1. PICK d : d = Frame(dependency, "lock")
    OBVIOUS
  <2>2. d \in Frames /\ d.at = "lock"
    BY <1>11, <2>1 DEF Frame, Frames, Places
  <2>3. stack'[t] = (<<d>> \o <<f>>) \o Tail(stack[t])
    BY <1>4, <1>11, <2>1 DEF TypeOK
  <2> QED BY <1>1, <1>3, <1>5, <1>6, <1>7, <1>11, <2>1, <2>2, <2>3, PushKeeps
<1> QED BY <1>10, <1>11

(* ensure_pair makes sure of its main target, and then of its secondary.    *)
LEMMA DependenciesKeep ==
  ASSUME TypeOK, NEW t \in Stores, Local(t), Dependencies(t)
  PROVE  Local(t)' /\ Polite(t)
<1>1. /\ stack[t] # <<>> /\ Top(t).at \in {"main", "secondary"}
  BY DEF Dependencies, Resolve, Runs
<1>2. PICK p : p = Top(t).owner
  OBVIOUS
<1>3. Top(t) \in Frames /\ \E above : InPlace(Top(t), 1, above)
  BY <1>1, TopFacts
<1>4. p \in Pairs /\ (Top(t).at = "secondary" => Bound(Main[p]))
  BY <1>1, <1>2, <1>3 DEF InPlace, Awaits
<1>5. Main[p] \in Owners \cup {None} /\ Secondary[p] \in Owners \cup {None}
  BY <1>4, GraphAssumption DEF Owners
<1>6. CASE Resolve(t, "main", Main[p], "secondary")
  <2>1. PICK f : f = [Top(t) EXCEPT !.at = "secondary"]
    OBVIOUS
  <2>2. f.at = "secondary" /\ f.owner = p
    BY <1>2, <1>3, <2>1 DEF Frames
  <2>3. IF Main[p] = None THEN \A above : InPlace(f, 1, above)
                          ELSE InPlace(f, 2, Frame(Main[p], "lock"))
    BY <1>4, <2>2 DEF InPlace, Awaits, Bound, Frame
  <2> QED BY <1>5, <1>6, <2>1, <2>3, ResolveKeeps DEF Places
<1>7. CASE Resolve(t, "secondary", Secondary[p], "owner")
  <2>1. PICK f : f = [Top(t) EXCEPT !.at = "owner"]
    OBVIOUS
  <2>2. f.at = "owner" /\ f.owner = p
    BY <1>2, <1>3, <2>1 DEF Frames
  <2>3. Bound(Main[p])
    BY <1>4, <1>7 DEF Resolve, Runs
  <2>4. IF Secondary[p] = None THEN \A above : InPlace(f, 1, above)
                               ELSE InPlace(f, 2, Frame(Secondary[p], "lock"))
    <3>1. Secondary[p] = None => Bound(Secondary[p])
      BY DEF Bound
    <3> QED BY <1>4, <2>2, <2>3, <3>1 DEF InPlace, Awaits, Frame
  <2> QED BY <1>5, <1>7, <2>1, <2>4, ResolveKeeps DEF Places
<1> QED BY <1>2, <1>6, <1>7 DEF Dependencies

(* ensure_pair locks its native last, or finds it bound.                    *)
LEMMA LockNativeKeeps ==
  ASSUME TypeOK, NEW t \in Stores, Local(t), LockNative(t)
  PROVE  Local(t)' /\ Polite(t)
<1>1. PICK p, n : p = Top(t).owner /\ n = NativeOf[p]
  OBVIOUS
<1>2. /\ stack[t] # <<>> /\ Top(t).at = "owner" /\ lock[n] = None
      /\ UNCHANGED <<at, units, half, claimed, todo, value, sealed>>
  BY <1>1 DEF LockNative, Runs, batch, catalog
<1>3. /\ Top(t) = stack[t][1] /\ Top(t) \in Frames
      /\ \E above : InPlace(Top(t), 1, above)
      /\ \A o \in Holds(Top(t)) : Mine(t, o)
  BY <1>2, TopFacts
<1>4. p \in Pairs /\ Ready(p)
  BY <1>1, <1>2, <1>3 DEF InPlace, Awaits, Ready
<1>5. n \in Natives /\ n \in Owners /\ p \in Owners
  BY <1>1, <1>4, GraphAssumption DEF Owners
<1>6. Holds(Top(t)) = {p} /\ Mine(t, p)
  BY <1>1, <1>2, <1>3 DEF Holds
<1>7. PICK g \in Frames :
        /\ g.owner = p /\ stack' = [stack EXCEPT ![t] = <<g>> \o Tail(stack[t])]
        /\ \/ Bound(n) /\ lock' = lock /\ g.at = "index"
           \/ ~Bound(n) /\ lock' = [lock EXCEPT ![n] = t] /\ g.at = "fused"
  <2>1. /\ [Top(t) EXCEPT !.at = "index"] \in Frames /\ [Top(t) EXCEPT !.at = "fused"] \in Frames
        /\ [Top(t) EXCEPT !.at = "index"].at = "index" /\ [Top(t) EXCEPT !.at = "fused"].at = "fused"
        /\ [Top(t) EXCEPT !.at = "index"].owner = p /\ [Top(t) EXCEPT !.at = "fused"].owner = p
    BY <1>1, <1>3 DEF Frames, Places
  <2>2. CASE Bound(n)
    <3>1. /\ stack' = [stack EXCEPT ![t] = <<[Top(t) EXCEPT !.at = "index"]>> \o Tail(stack[t])]
          /\ lock' = lock
      BY <1>1, <2>2 DEF LockNative, Calls
    <3> QED BY <2>1, <2>2, <3>1
  <2>3. CASE ~Bound(n)
    <3>1. /\ stack' = [stack EXCEPT ![t] = <<[Top(t) EXCEPT !.at = "fused"]>> \o Tail(stack[t])]
          /\ lock' = [lock EXCEPT ![n] = t]
      BY <1>1, <2>3 DEF LockNative, Calls
    <3> QED BY <2>1, <2>3, <3>1
  <2> QED BY <2>2, <2>3
<1>8. Grows /\ UNCHANGED Rest(t)
  BY <1>2 DEF Grows, Rest
<1>9. \A q \in Stores : Spares(q)
  BY <1>2, <1>5, <1>7, GraphAssumption DEF Spares, Mine, TypeOK
<1>10. Polite(t)
  BY <1>2, <1>7, <1>8, <1>9 DEF Polite, Locals, TypeOK
<1>11. SparesTheRest(t)
  BY <1>9 DEF Spares, SparesTheRest
<1>12. stack'[t] = <<g>> \o Tail(stack[t]) /\ g.owner = stack[t][1].owner
  BY <1>1, <1>3, <1>7 DEF TypeOK
<1>13. Mine(t, p)'
  BY <1>5, <1>6, <1>9 DEF Spares
<1>14. ~Bound(n) /\ lock' = [lock EXCEPT ![n] = t] => Mine(t, n)' /\ ~Mine(t, n)
  BY <1>2, <1>5, GraphAssumption DEF Mine, Bound, TypeOK
<1>15. \A o \in Holds(g) : Mine(t, o)' /\ (o \in Holds(stack[t][1]) \/ ~Mine(t, o))
  BY <1>1, <1>3, <1>6, <1>7, <1>13, <1>14 DEF Holds
<1>16. \A above : InPlace(g, 1, above)'
  <2>1. \A above : InPlace(g, 1, above)
    BY <1>1, <1>4, <1>7 DEF InPlace
  <2> QED BY <1>8, <2>1, InPlaceStays
<1> QED BY <1>2, <1>8, <1>10, <1>11, <1>12, <1>15, <1>16, ReplaceKeeps

(* Identities of bound owners.                                              *)
LEMMA IdentityOfBound ==
  ASSUME TypeOK, NEW o \in Owners \cup {None}
  PROVE  /\ Id(o) \in Identities \cup {None}
         /\ o # None /\ Bound(o) => Id(o) \in Identities
BY GraphAssumption DEF TypeOK, Id, Bound, Objects, NativeObjects, PairObjects

(* The objects a call makes are what the catalog stores of native and pair. *)
LEMMA ObjectsMade ==
  ASSUME TypeOK
  PROVE  /\ \A n \in Natives : NativeObject(n) \in NativeObjects
         /\ \A p \in Pairs, i \in Identities :
              /\ PairObject(p, i) \in PairObjects /\ PairObject(p, i).native = i
              /\ PairObject(p, i).main = Id(Main[p])
              /\ PairObject(p, i).secondary = Id(Secondary[p])
<1>1. \A o \in Owners : New(o) \in Identities
  BY DEF TypeOK, New, Identities
<1>2. \A n \in Natives : NativeObject(n) \in NativeObjects
  BY <1>1 DEF NativeObject, NativeObjects, Owners
<1>3. ASSUME NEW p \in Pairs, NEW i \in Identities
      PROVE  PairObject(p, i) \in PairObjects
  <2>1. Id(Main[p]) \in Identities \cup {None} /\ Id(Secondary[p]) \in Identities \cup {None}
    <3>1. Main[p] \in Owners \cup {None} /\ Secondary[p] \in Owners \cup {None}
      BY GraphAssumption DEF Owners
    <3> QED BY <3>1, IdentityOfBound
  <2>2. New(p) \in Identities
    BY <1>1 DEF Owners
  <2> QED BY <2>1, <2>2 DEF PairObject, PairObjects
<1>4. \A p, i : /\ PairObject(p, i).native = i /\ PairObject(p, i).main = Id(Main[p])
                /\ PairObject(p, i).secondary = Id(Secondary[p])
  BY DEF PairObject
<1> QED BY <1>2, <1>3, <1>4

(* A call has its object, under the locks it had.                           *)
LEMMA MakingKeeps ==
  ASSUME TypeOK, NEW t \in Stores, Local(t), stack[t] # <<>>, NEW place \in Places,
         NEW object \in Objects, Installs(t, place, object), sealed \subseteq sealed',
         NEW f, f = [Top(t) EXCEPT !.at = place, !.made = object],
         Holds(f) = Holds(Top(t)), \A above : InPlace(f, 1, above)'
  PROVE  Local(t)' /\ Polite(t)
<1>1. /\ UNCHANGED <<at, units, half, claimed, todo, lock, value>>
      /\ stack' = [stack EXCEPT ![t] = <<f>> \o Tail(stack[t])]
  BY DEF Installs, Calls, batch, slots
<1>2. /\ Top(t) = stack[t][1] /\ Top(t) \in Frames
      /\ \A o \in Holds(Top(t)) : Mine(t, o)
  BY TopFacts
<1>3. f \in Frames /\ f.owner = Top(t).owner
  BY <1>2 DEF Frames
<1>4. Grows /\ UNCHANGED Rest(t) /\ \A q \in Stores : Spares(q)
  BY <1>1 DEF Grows, Rest, Spares, Mine
<1>5. Polite(t) /\ SparesTheRest(t)
  BY <1>1, <1>4 DEF Polite, Locals, Spares, SparesTheRest, TypeOK
<1>6. \A o \in Holds(f) : Mine(t, o)' /\ o \in Holds(stack[t][1])
  BY <1>1, <1>2 DEF Mine
<1>7. stack'[t] = <<f>> \o Tail(stack[t]) /\ f.owner = stack[t][1].owner
  BY <1>1, <1>2, <1>3 DEF TypeOK
<1> QED BY <1>3, <1>4, <1>5, <1>6, <1>7, ReplaceKeeps

(* Objects are sealed with what they refer to bound.                        *)
LEMMA EncodesKeep ==
  ASSUME TypeOK, NEW t \in Stores, Local(t), EncodeNative(t) \/ EncodeIndex(t) \/ EncodeFused(t)
  PROVE  Local(t)' /\ Polite(t)
<1>1. PICK o : o = Top(t).owner
  OBVIOUS
<1>2. stack[t] # <<>> /\ value' = value /\ sealed \subseteq sealed'
  BY DEF EncodeNative, EncodeIndex, EncodeFused, Runs, Acknowledge, Installs, slots
<1>3. /\ Top(t) \in Frames /\ \E above : InPlace(Top(t), 1, above)
  BY <1>2, TopFacts
<1>4. Grows
  BY <1>2 DEF Grows
<1>5. CASE EncodeNative(t)
  <2>1. PICK object : object = NativeObject(o)
    OBVIOUS
  <2>2. Top(t).at = "encode" /\ Installs(t, "install", object) /\ object \in sealed'
    BY <1>1, <1>5, <2>1 DEF EncodeNative, Runs, Acknowledge
  <2>3. o \in Natives
    BY <1>1, <1>3, <2>2 DEF InPlace
  <2>4. object \in Objects
    BY <2>1, <2>3, ObjectsMade DEF Objects
  <2>5. PICK f : f = [Top(t) EXCEPT !.at = "install", !.made = object]
    OBVIOUS
  <2>6. f.owner = o /\ f.at = "install" /\ f.made = object
    BY <1>1, <1>3, <2>5 DEF Frames
  <2>7. Holds(f) = Holds(Top(t))
    BY <1>1, <2>2, <2>6 DEF Holds
  <2>8. \A above : InPlace(f, 1, above)'
    BY <2>2, <2>3, <2>4, <2>6, GraphAssumption DEF InPlace
  <2> QED BY <1>2, <2>2, <2>4, <2>5, <2>7, <2>8, MakingKeeps DEF Places
<1>6. CASE EncodeIndex(t)
  <2>1. PICK i, object : i = Id(NativeOf[o]) /\ object = PairObject(o, i)
    OBVIOUS
  <2>2. Top(t).at = "index" /\ Installs(t, "install", object) /\ object \in sealed'
    BY <1>1, <1>6, <2>1 DEF EncodeIndex, Runs, Acknowledge
  <2>3. o \in Pairs /\ Ready(o) /\ Bound(NativeOf[o])
    BY <1>1, <1>3, <2>2 DEF InPlace
  <2>4. i \in Identities
    <3>1. NativeOf[o] \in Owners /\ NativeOf[o] # None
      BY <2>3, GraphAssumption DEF Owners
    <3> QED BY <2>1, <2>3, <3>1, IdentityOfBound
  <2>5. object \in Objects /\ DenotesPair(object, o)
    BY <2>1, <2>3, <2>4, ObjectsMade DEF Objects, DenotesPair
  <2>6. DenotesPair(object, o)'
    BY <1>4, <2>3, <2>5, DenotesStays
  <2>7. PICK f : f = [Top(t) EXCEPT !.at = "install", !.made = object]
    OBVIOUS
  <2>8. f.owner = o /\ f.at = "install" /\ f.made = object
    BY <1>1, <1>3, <2>7 DEF Frames
  <2>9. Holds(f) = Holds(Top(t))
    BY <1>1, <2>2, <2>8 DEF Holds
  <2>10. \A above : InPlace(f, 1, above)'
    BY <2>2, <2>5, <2>6, <2>8 DEF InPlace
  <2> QED BY <1>2, <2>2, <2>5, <2>7, <2>9, <2>10, MakingKeeps DEF Places
<1>7. CASE EncodeFused(t)
  <2>1. PICK native, i, object :
          native = NativeObject(NativeOf[o]) /\ i = native.id /\ object = PairObject(o, i)
    OBVIOUS
  <2>2. /\ Top(t).at = "fused" /\ Installs(t, "install native", object)
        /\ object \in sealed' /\ native \in sealed'
    BY <1>1, <1>7, <2>1 DEF EncodeFused, Runs, Acknowledge
  <2>3. o \in Pairs /\ Ready(o)
    BY <1>1, <1>3, <2>2 DEF InPlace
  <2>4. native \in NativeObjects
    BY <2>1, <2>3, ObjectsMade, GraphAssumption
  <2>5. i \in Identities /\ native = [id |-> i]
    BY <2>1, <2>4 DEF NativeObjects
  <2>6. /\ object \in PairObjects /\ object.native = i
        /\ object.main = Id(Main[o]) /\ object.secondary = Id(Secondary[o])
    BY <2>1, <2>3, <2>5, ObjectsMade
  <2>7. Ready(o)' /\ object.main = Id(Main[o])' /\ object.secondary = Id(Secondary[o])'
    BY <1>4, <2>3, <2>6, ReadyStays
  <2>8. PICK f : f = [Top(t) EXCEPT !.at = "install native", !.made = object]
    OBVIOUS
  <2>9. f.owner = o /\ f.at = "install native" /\ f.made = object
    BY <1>1, <1>3, <2>8 DEF Frames
  <2>10. Holds(f) = Holds(Top(t))
    BY <1>1, <2>2, <2>9 DEF Holds
  <2>11. \A above : InPlace(f, 1, above)'
    BY <2>2, <2>3, <2>5, <2>6, <2>7, <2>9 DEF InPlace
  <2> QED BY <1>2, <2>2, <2>6, <2>8, <2>10, <2>11, MakingKeeps DEF Places, Objects
<1> QED BY <1>5, <1>6, <1>7

(* A slot gets its object from the store that has it locked, and is free.   *)
LEMMA BindEffect ==
  ASSUME TypeOK, NEW t \in Stores, NEW o \in Owners, NEW object, Mine(t, o), Bind(o, object)
  PROVE  /\ Grows /\ value'[o] = object /\ UNCHANGED <<at, units, half, claimed, todo, sealed>>
         /\ \A x \in Owners \ {o} : value'[x] = value[x] /\ (Mine(t, x) => Mine(t, x)')
         /\ \A q \in Stores \ {t} : Spares(q)
BY GraphAssumption DEF Bind, batch, catalog, Grows, Mine, Spares, TypeOK

(* New bindings denote their graphs, and so the others go on doing.         *)
LEMMA BindingsStay ==
  ASSUME BindingsAreSound, Grows,
         \A o \in Owners : value'[o] # value[o] =>
           value'[o] \in sealed' /\ (o \in Pairs => \E x : x = value'[o] /\ DenotesPair(x, o)')
  PROVE  BindingsAreSound'
<1>1. \A o \in Owners : value'[o] # None => value'[o] \in sealed'
  BY DEF BindingsAreSound, Grows
<1>2. ASSUME NEW p \in Pairs, value'[p] # None
      PROVE  DenotesPair(value[p], p)'
  <2>1. PICK x : x = value'[p] /\ DenotesPair(x, p)'
    <3>1. CASE value'[p] = value[p]
      <4>1. PICK x : x = value[p]
        OBVIOUS
      <4>2. DenotesPair(x, p)
        BY <1>2, <3>1, <4>1 DEF BindingsAreSound
      <4>3. DenotesPair(x, p)'
        BY <4>2, DenotesStays
      <4> QED BY <3>1, <4>1, <4>3
    <3>2. CASE value'[p] # value[p]
      BY <3>2 DEF Owners
    <3> QED BY <3>1, <3>2
  <2> QED BY <2>1 DEF DenotesPair
<1> QED BY <1>1, <1>2 DEF BindingsAreSound

(* The native of a fused pair is bound before the pair.                     *)
LEMMA InstallNativeKeeps ==
  ASSUME TypeOK, NEW t \in Stores, Local(t), BindingsAreSound, InstallNative(t)
  PROVE  Local(t)' /\ Polite(t) /\ BindingsAreSound'
<1>1. PICK p, n, made, native :
        /\ p = Top(t).owner /\ n = NativeOf[p] /\ made = Top(t).made
        /\ native = [id |-> made.native]
  OBVIOUS
<1>2. /\ stack[t] # <<>> /\ Top(t).at = "install native" /\ Bind(n, native)
  BY <1>1 DEF InstallNative, Runs
<1>3. /\ Top(t) = stack[t][1] /\ Top(t) \in Frames
      /\ \E above : InPlace(Top(t), 1, above)
      /\ \A o \in Holds(Top(t)) : Mine(t, o)
  BY <1>2, TopFacts
<1>4. /\ p \in Pairs /\ Ready(p) /\ made \in PairObjects \cap sealed /\ native \in sealed
      /\ made.main = Id(Main[p]) /\ made.secondary = Id(Secondary[p])
  BY <1>1, <1>2, <1>3 DEF InPlace
<1>5. n \in Natives /\ n \in Owners /\ p \in Owners /\ p # n /\ n \notin Pairs
  BY <1>1, <1>4, GraphAssumption DEF Owners
<1>6. Holds(Top(t)) = {p, n} /\ Mine(t, p) /\ Mine(t, n)
  BY <1>1, <1>2, <1>3 DEF Holds
<1>7. /\ Grows /\ value'[n] = native /\ UNCHANGED <<at, units, half, claimed, todo, sealed>>
      /\ \A x \in Owners \ {n} : value'[x] = value[x] /\ (Mine(t, x) => Mine(t, x)')
      /\ \A q \in Stores \ {t} : Spares(q)
  BY <1>2, <1>5, <1>6, BindEffect
<1>8. PICK f : f = [Top(t) EXCEPT !.at = "install"]
  OBVIOUS
<1>9. f \in Frames /\ f.at = "install" /\ f.owner = p /\ f.made = made
  BY <1>1, <1>3, <1>8 DEF Frames, Places
<1>10. stack' = [stack EXCEPT ![t] = <<f>> \o Tail(stack[t])]
  BY <1>8 DEF InstallNative, Calls
<1>11. stack'[t] = <<f>> \o Tail(stack[t]) /\ f.owner = stack[t][1].owner
  BY <1>1, <1>3, <1>9, <1>10 DEF TypeOK
<1>12. Polite(t) /\ UNCHANGED Rest(t)
  BY <1>7, <1>10 DEF Polite, Locals, Rest, TypeOK
<1>13. SparesTheRest(t)
  BY <1>3, <1>6, <1>7 DEF SparesTheRest
<1>14. Holds(f) = {p}
  BY <1>9 DEF Holds
<1>15. \A o \in Holds(f) : Mine(t, o)' /\ o \in Holds(stack[t][1])
  BY <1>3, <1>5, <1>6, <1>7, <1>14
<1>16. native # None /\ native.id = made.native
  <2>1. made.native \in Owners \X Nat
    BY <1>4 DEF PairObjects, Identities
  <2> QED BY <1>1, <2>1, GraphAssumption
<1>17. DenotesPair(made, p)'
  <2>1. Bound(n)' /\ Id(n)' = made.native
    BY <1>5, <1>7, <1>16, GraphAssumption DEF Bound, Id
  <2>2. Ready(p)' /\ made.main = Id(Main[p])' /\ made.secondary = Id(Secondary[p])'
    BY <1>4, <1>7, ReadyStays
  <2> QED BY <1>1, <1>4, <2>1, <2>2 DEF DenotesPair
<1>18. \A above : InPlace(f, 1, above)'
  BY <1>4, <1>7, <1>9, <1>17 DEF InPlace, Objects
<1>19. Local(t)'
  BY <1>2, <1>7, <1>9, <1>11, <1>12, <1>13, <1>15, <1>18, ReplaceKeeps
<1>20. BindingsAreSound'
  BY <1>4, <1>5, <1>7, BindingsStay
<1> QED BY <1>12, <1>19, <1>20

(* A call returns when its owner is bound.                                  *)
LEMMA InstallKeeps ==
  ASSUME TypeOK, NEW t \in Stores, Local(t), BindingsAreSound, Install(t)
  PROVE  Local(t)' /\ Polite(t) /\ BindingsAreSound'
<1>1. PICK o, made : o = Top(t).owner /\ made = Top(t).made
  OBVIOUS
<1>2. /\ stack[t] # <<>> /\ Top(t).at = "install" /\ Bind(o, made)
      /\ stack' = [stack EXCEPT ![t] = <<>> \o Tail(stack[t])]
  BY <1>1 DEF Install, Runs, Calls
<1>3. /\ Top(t) = stack[t][1] /\ Top(t) \in Frames /\ o \in Owners
      /\ \E above : InPlace(Top(t), 1, above)
      /\ \A x \in Holds(Top(t)) : Mine(t, x)
  BY <1>1, <1>2, TopFacts
<1>4. made \in sealed \cap Objects /\ (o \in Pairs => DenotesPair(made, o))
  BY <1>1, <1>2, <1>3 DEF InPlace
<1>5. Holds(Top(t)) = {o} /\ Mine(t, o)
  BY <1>1, <1>2, <1>3 DEF Holds
<1>6. /\ Grows /\ value'[o] = made /\ UNCHANGED <<at, units, half, claimed, todo, sealed>>
      /\ \A x \in Owners \ {o} : value'[x] = value[x] /\ (Mine(t, x) => Mine(t, x)')
      /\ \A q \in Stores \ {t} : Spares(q)
  BY <1>2, <1>3, <1>5, BindEffect
<1>7. Polite(t) /\ UNCHANGED Rest(t)
  BY <1>2, <1>6 DEF Polite, Locals, Rest, TypeOK
<1>8. SparesTheRest(t)
  BY <1>3, <1>5, <1>6 DEF SparesTheRest
<1>9. Bound(o)'
  BY <1>4, <1>6, GraphAssumption DEF Bound, Objects, NativeObjects, PairObjects, Identities
<1>10. stack'[t] = <<>> \o Tail(stack[t]) /\ o = stack[t][1].owner
  BY <1>1, <1>2, <1>3 DEF TypeOK
<1>11. Local(t)'
  BY <1>2, <1>6, <1>7, <1>8, <1>9, <1>10, PopKeeps
<1>12. o \in Pairs => DenotesPair(made, o)'
  BY <1>4, <1>6, DenotesStays
<1>13. BindingsAreSound'
  BY <1>4, <1>6, <1>12, BindingsStay
<1> QED BY <1>7, <1>11, <1>13

(* Every step keeps what its store relies on, and what the others do.       *)
LEMMA LocalStep ==
  ASSUME TypeOK, NEW t \in Stores, \A q \in Stores : Local(q), BindingsAreSound,
         Step(t) \/ Fail(t) \/ Reopen(t)
  PROVE  (\A q \in Stores : Local(q)') /\ BindingsAreSound'
<1>1. Local(t)' /\ Polite(t) /\ (InstallNative(t) \/ Install(t) => BindingsAreSound')
  BY TurnsKeep, PlanKeeps, TryPairKeeps, TryNativeKeeps, ClaimedKeeps, FinishReadyKeeps, WalkKeeps,
     LockKeeps, DependenciesKeep, LockNativeKeeps, EncodesKeep, InstallNativeKeeps, InstallKeeps
     DEF Step
<1>2. ASSUME NEW q \in Stores \ {t}
      PROVE  Local(q)'
  BY <1>1, OthersKeep DEF Polite
<1>3. BindingsAreSound'
  <2>1. CASE InstallNative(t) \/ Install(t)
    BY <1>1, <2>1
  <2>2. CASE value' = value
    BY <1>1, <2>2, BindingsStay DEF Polite
  <2>3. InstallNative(t) \/ Install(t) \/ value' = value
    BY DEF Step, Visit, Plan, TryPair, TryNative, Claimed, FinishReady, EndBatch, Walk, Lock,
           Dependencies, Resolve, LockNative, EncodeNative, EncodeIndex, EncodeFused, Installs,
           Fail, Reopen, slots
  <2> QED BY <2>1, <2>2, <2>3
<1> QED BY <1>1, <1>2, <1>3

-----------------------------------------------------------------------------
\* Types.

(* A stack remains a stack of frames.                                       *)
LEMMA CallsType ==
  ASSUME TypeOK, NEW t \in Stores, stack[t] # <<>>, NEW frames \in Seq(Frames), Calls(t, frames)
  PROVE  stack' \in [Stores -> Seq(Frames)]
<1>1. stack[t] \in Seq(Frames) /\ Tail(stack[t]) \in Seq(Frames)
  BY DEF TypeOK
<1>2. frames \o Tail(stack[t]) \in Seq(Frames)
  BY <1>1, Concatenated
<1>3. stack' = [stack EXCEPT ![t] = frames \o Tail(stack[t])]
  BY DEF Calls
<1> QED BY <1>2, <1>3 DEF TypeOK

(* A list of one frame.                                                     *)
LEMMA OneFrame ==
  \A f \in Frames : <<f>> \in Seq(Frames)
OBVIOUS

(* The steps of a batch keep the types.                                     *)
LEMMA BatchTypes ==
  ASSUME TypeOK, NEW t \in Stores, Local(t),
         \/ Visit(t) \/ Plan(t) \/ TryPair(t) \/ TryNative(t) \/ Claimed(t) \/ FinishReady(t)
         \/ EndBatch(t) \/ Walk(t) \/ Fail(t) \/ Reopen(t)
  PROVE  TypeOK'
<1> USE DEF TypeOK, batch, slots, catalog
<1>1. CASE Visit(t)
  BY <1>1 DEF Visit, Phases
<1>2. CASE Plan(t)
  BY <1>2 DEF Plan, Phases
<1>3. CASE TryPair(t)
  <2>1. /\ DOMAIN units' = Stores /\ DOMAIN half' = Stores /\ DOMAIN claimed' = Stores
        /\ UNCHANGED <<at, unbound, todo, stack, value, used, failures>>
    BY <1>3 DEF TryPair
  <2>2. lock' = lock \/ \E o : lock' = [lock EXCEPT ![o] = t]
    BY <1>3 DEF TryPair
  <2>3. lock' \in [Owners -> Stores \cup {None}]
    BY <2>2
  <2> QED BY <2>1, <2>3
<1>4. CASE TryNative(t)
  <2>1. /\ DOMAIN units' = Stores /\ DOMAIN half' = Stores /\ DOMAIN claimed' = Stores
        /\ UNCHANGED <<at, unbound, todo, stack, value, used, failures>>
    BY <1>4 DEF TryNative
  <2>2. PICK u \in Turn(t) :
          \/ lock' = [lock EXCEPT ![u.owner] = IF half[t] = u THEN None ELSE @]
          \/ lock' = [lock EXCEPT ![u.native] = t]
    BY <1>4 DEF TryNative
  <2>3. lock' \in [Owners -> Stores \cup {None}]
    <3>1. CASE lock' = [lock EXCEPT ![u.owner] = IF half[t] = u THEN None ELSE @]
      BY <3>1
    <3>2. CASE lock' = [lock EXCEPT ![u.native] = t]
      BY <3>2
    <3> QED BY <2>2, <3>1, <3>2
  <2> QED BY <2>1, <2>3
<1>5. CASE Claimed(t)
  BY ZenonT(40), <1>5 DEF Claimed, Without, Phases
<1>6. CASE FinishReady(t)
  <2>1. PICK u \in claimed[t] : \E f :
          /\ f = Frame(u.owner, IF u.owner \in Natives THEN "encode"
                                ELSE IF u.native = None THEN "index" ELSE "fused")
          /\ claimed' = [claimed EXCEPT ![t] = @ \ {u}]
          /\ stack' = [stack EXCEPT ![t] = <<f>>]
    BY <1>6 DEF FinishReady
  <2>2. IsReady(u)
    BY DEF Local, UnitsAreReady
  <2>3. PICK f :
          /\ f = Frame(u.owner, IF u.owner \in Natives THEN "encode"
                                ELSE IF u.native = None THEN "index" ELSE "fused")
          /\ stack' = [stack EXCEPT ![t] = <<f>>]
    BY <2>1
  <2>4. f \in Frames
    BY <2>2, <2>3 DEF Frame, Frames, Places, IsReady, Units
  <2>5. stack' \in [Stores -> Seq(Frames)]
    BY <2>3, <2>4, OneFrame
  <2> QED BY <1>6, <2>1, <2>5 DEF FinishReady
<1>7. CASE EndBatch(t)
  BY <1>7 DEF EndBatch, Phases
<1>8. CASE Walk(t)
  <2>1. CASE todo[t] = <<>>
    BY <1>8, <2>1 DEF Walk, Phases
  <2>2. CASE todo[t] # <<>>
    <3>1. PICK f : f = Frame(Head(todo[t]), "lock")
      OBVIOUS
    <3>2. todo[t] \in Seq(Owners) /\ Head(todo[t]) \in Owners /\ Tail(todo[t]) \in Seq(Owners)
      BY <2>2
    <3>3. f \in Frames
      BY <3>1, <3>2 DEF Frame, Frames, Places
    <3>4. stack' = [stack EXCEPT ![t] = <<f>>] /\ todo' = [todo EXCEPT ![t] = Tail(todo[t])]
      BY <1>8, <2>2, <3>1 DEF Walk
    <3>5. stack' \in [Stores -> Seq(Frames)]
      BY <3>3, <3>4, OneFrame
    <3>6. todo' \in [Stores -> Seq(Owners)]
      BY <3>2, <3>4
    <3> QED BY <1>8, <2>2, <3>5, <3>6 DEF Walk
  <2> QED BY <2>1, <2>2
<1>9. CASE Fail(t)
  BY <1>9 DEF Fail, Without, Phases
<1>10. CASE Reopen(t)
  <2>1. Roots[t] \in Seq(Owners)
    BY GraphAssumption
  <2> QED BY <1>10, <2>1 DEF Reopen, Phases
<1> QED BY <1>1, <1>2, <1>3, <1>4, <1>5, <1>6, <1>7, <1>8, <1>9, <1>10

(* So do the steps of calls.                                                *)
LEMMA CallTypes ==
  ASSUME TypeOK, NEW t \in Stores, Local(t), Lock(t) \/ Dependencies(t) \/ LockNative(t)
  PROVE  TypeOK'
<1>1. stack[t] # <<>> /\ UNCHANGED <<at, batch, todo, value, used, failures>>
  BY DEF Lock, Dependencies, Resolve, LockNative, Runs, slots, catalog
<1>2. Top(t) \in Frames /\ \E above : InPlace(Top(t), 1, above)
  BY <1>1, TopFacts
<1>3. \A place \in Places : [Top(t) EXCEPT !.at = place] \in Frames
  BY <1>2 DEF Frames
<1>4. lock' \in [Owners -> Stores \cup {None}]
  BY DEF Lock, Dependencies, Resolve, LockNative, slots, TypeOK
<1>5. stack' \in [Stores -> Seq(Frames)]
  <2>1. CASE Lock(t)
    <3>1. PICK f : f = [Top(t) EXCEPT !.at = IF Top(t).owner \in Natives THEN "encode" ELSE "main"]
      OBVIOUS
    <3>2. f \in Frames
      BY <1>2, <3>1 DEF Frames, Places
    <3>3. Calls(t, <<>>) \/ Calls(t, <<f>>)
      BY <2>1, <3>1 DEF Lock
    <3>4. <<>> \in Seq(Frames)
      OBVIOUS
    <3> QED BY <1>1, <3>2, <3>3, <3>4, CallsType, OneFrame
  <2>2. CASE Dependencies(t)
    <3>1. Top(t).owner \in Pairs
      BY <1>2, <2>2 DEF Dependencies, Resolve, Runs, InPlace
    <3>2. Main[Top(t).owner] \in Owners \cup {None} /\ Secondary[Top(t).owner] \in Owners \cup {None}
      BY <3>1, GraphAssumption DEF Owners
    <3>3. ASSUME NEW place, NEW d \in Owners \cup {None}, NEW next \in Places,
                 Resolve(t, place, d, next)
          PROVE  stack' \in [Stores -> Seq(Frames)]
      <4>1. d # None => Frame(d, "lock") \in Frames
        BY DEF Frame, Frames, Places
      <4>2. (IF d = None THEN <<>> ELSE <<Frame(d, "lock")>>) \in Seq(Frames)
        BY <4>1, OneFrame
      <4>3. <<[Top(t) EXCEPT !.at = next]>> \in Seq(Frames)
        BY <1>3, OneFrame
      <4> QED BY <1>1, <3>3, <4>2, <4>3, Concatenated, CallsType DEF Resolve
    <3> QED BY <2>2, <3>2, <3>3 DEF Dependencies, Places
  <2>3. CASE LockNative(t)
    <3>1. PICK place \in Places : Calls(t, <<[Top(t) EXCEPT !.at = place]>>)
      BY <2>3 DEF LockNative, Places
    <3> QED BY <1>1, <1>3, <3>1, CallsType, OneFrame
  <2> QED BY <2>1, <2>2, <2>3
<1> QED BY <1>1, <1>4, <1>5 DEF TypeOK, batch

(* And the steps that make objects and bind them.                           *)
LEMMA ObjectTypes ==
  ASSUME TypeOK, NEW t \in Stores, Local(t),
         EncodeNative(t) \/ EncodeIndex(t) \/ EncodeFused(t) \/ InstallNative(t) \/ Install(t)
  PROVE  TypeOK'
<1>1. PICK o, made : o = Top(t).owner /\ made = Top(t).made
  OBVIOUS
<1>2. stack[t] # <<>>
  BY DEF EncodeNative, EncodeIndex, EncodeFused, InstallNative, Install, Runs
<1>3. Top(t) \in Frames /\ o \in Owners /\ \E above : InPlace(Top(t), 1, above)
  BY <1>1, <1>2, TopFacts
<1>4. ASSUME NEW place \in Places, NEW object \in Objects, Installs(t, place, object),
             NEW objects, Acknowledge(objects)
      PROVE  TypeOK'
  <2>1. [Top(t) EXCEPT !.at = place, !.made = object] \in Frames
    BY <1>3 DEF Frames
  <2>2. stack' \in [Stores -> Seq(Frames)]
    BY <1>2, <1>4, <2>1, OneFrame, CallsType DEF Installs
  <2>3. used' \in [Owners -> Nat]
    BY <1>4 DEF Acknowledge, TypeOK
  <2> QED BY <1>4, <2>2, <2>3 DEF Installs, batch, slots, TypeOK
<1>5. CASE EncodeNative(t)
  <2>1. o \in Natives
    BY <1>1, <1>3, <1>5 DEF EncodeNative, Runs, InPlace
  <2>2. NativeObject(o) \in Objects
    BY <2>1, ObjectsMade DEF Objects
  <2> QED BY <1>1, <1>4, <1>5, <2>2 DEF EncodeNative, Places
<1>6. CASE EncodeIndex(t)
  <2>1. o \in Pairs /\ Bound(NativeOf[o])
    BY <1>1, <1>3, <1>6 DEF EncodeIndex, Runs, InPlace
  <2>2. NativeOf[o] \in Owners /\ NativeOf[o] # None
    BY <2>1, GraphAssumption DEF Owners
  <2>3. Id(NativeOf[o]) \in Identities
    BY <2>1, <2>2, IdentityOfBound
  <2>4. PairObject(o, Id(NativeOf[o])) \in Objects
    BY <2>1, <2>3, ObjectsMade DEF Objects
  <2> QED BY <1>1, <1>4, <1>6, <2>4 DEF EncodeIndex, Places
<1>7. CASE EncodeFused(t)
  <2>1. o \in Pairs
    BY <1>1, <1>3, <1>7 DEF EncodeFused, Runs, InPlace
  <2>2. NativeObject(NativeOf[o]).id \in Identities
    BY <2>1, ObjectsMade, GraphAssumption DEF NativeObjects
  <2>3. PairObject(o, NativeObject(NativeOf[o]).id) \in Objects
    BY <2>1, <2>2, ObjectsMade DEF Objects
  <2> QED BY <1>1, <1>4, <1>7, <2>3 DEF EncodeFused, Places
<1>8. ASSUME NEW x \in Owners, NEW object \in Objects, Bind(x, object),
             stack' \in [Stores -> Seq(Frames)]
      PROVE  TypeOK'
  BY <1>8 DEF Bind, batch, catalog, TypeOK
<1>9. CASE InstallNative(t)
  <2>1. o \in Pairs /\ made \in PairObjects
    BY <1>1, <1>3, <1>9 DEF InstallNative, Runs, InPlace
  <2>2. NativeOf[o] \in Owners /\ [id |-> made.native] \in Objects
    BY <2>1, GraphAssumption DEF Owners, Objects, NativeObjects, PairObjects
  <2>3. [Top(t) EXCEPT !.at = "install"] \in Frames
    BY <1>3 DEF Frames, Places
  <2>4. stack' \in [Stores -> Seq(Frames)]
    BY <1>2, <1>9, <2>3, OneFrame, CallsType DEF InstallNative
  <2> QED BY <1>1, <1>8, <1>9, <2>2, <2>4 DEF InstallNative
<1>10. CASE Install(t)
  <2>1. made \in Objects
    BY <1>1, <1>3, <1>10 DEF Install, Runs, InPlace
  <2>2. <<>> \in Seq(Frames)
    OBVIOUS
  <2>3. stack' \in [Stores -> Seq(Frames)]
    BY <1>2, <1>10, <2>2, CallsType DEF Install
  <2> QED BY <1>1, <1>3, <1>8, <1>10, <2>1, <2>3 DEF Install
<1> QED BY <1>5, <1>6, <1>7, <1>9, <1>10

(* No step loses a type.                                                    *)
LEMMA TypeStep ==
  ASSUME TypeOK, NEW t \in Stores, Local(t), Step(t) \/ Fail(t) \/ Reopen(t)
  PROVE  TypeOK'
BY BatchTypes, CallTypes, ObjectTypes DEF Step

-----------------------------------------------------------------------------
\* Waste.

(* What a store has made and not bound is under its own locks.              *)
LEMMA MadeFacts ==
  ASSUME TypeOK, NEW t \in Stores, Local(t)
  PROVE  /\ \A o \in Made(t) : Mine(t, o)
         /\ stack[t] = <<>> \/ Top(t).at \notin {"install", "install native"} => Made(t) = {}
<1>1. stack[t] = <<>> \/ Top(t).at \notin {"install", "install native"} => Made(t) = {}
  BY DEF Made, Runs
<1>2. CASE stack[t] # <<>> /\ Top(t).at \in {"install", "install native"}
  <2>1. Made(t) = Holds(Top(t))
    BY <1>2 DEF Made, Runs, Holds
  <2> QED BY <1>1, <1>2, <2>1, TopFacts
<1> QED BY <1>1, <1>2

(* A step that reserves no identity wastes none, unless it fails.           *)
LEMMA WasteStays ==
  ASSUME TypeOK, WasteIsBounded, Grows, used' = used, failures' \in Nat,
         \/ failures' = failures /\ \A q \in Stores : \A o \in Made(q) : o \in Made(q)' \/ value'[o] # None
         \/ failures' = failures + 1
  PROVE  WasteIsBounded'
<1> SUFFICES ASSUME NEW o \in Owners
             PROVE  /\ used'[o] <= failures' + 1
                    /\ value'[o] = None /\ (\A q \in Stores : o \notin Made(q)') => used'[o] <= failures'
  BY DEF WasteIsBounded
<1>1. /\ used[o] <= failures + 1 /\ used[o] \in Nat /\ failures \in Nat
      /\ value[o] = None /\ (\A q \in Stores : o \notin Made(q)) => used[o] <= failures
  BY DEF WasteIsBounded, TypeOK
<1>2. value'[o] = None => value[o] = None
  BY DEF Grows
<1>3. CASE failures' = failures + 1
  BY <1>1, <1>3
<1>4. CASE failures' = failures /\ \A q \in Stores : \A x \in Made(q) : x \in Made(q)' \/ value'[x] # None
  BY <1>1, <1>2, <1>4
<1> QED BY <1>3, <1>4

(* An object is made for an empty slot, for which none is being kept.       *)
LEMMA WasteOfMaking ==
  ASSUME TypeOK, WasteIsBounded, NEW t \in Stores, NEW made, UNCHANGED <<value, failures>>,
         used' = [o \in Owners |-> IF o \in made THEN used[o] + 1 ELSE used[o]],
         \A o \in made : value[o] = None /\ o \in Made(t)' /\ \A q \in Stores : o \notin Made(q),
         \A q \in Stores : \A o \in Made(q) : o \in Made(q)'
  PROVE  WasteIsBounded'
<1> SUFFICES ASSUME NEW o \in Owners
             PROVE  /\ used'[o] <= failures + 1
                    /\ value[o] = None /\ (\A q \in Stores : o \notin Made(q)') => used'[o] <= failures
  BY DEF WasteIsBounded
<1>1. /\ used[o] <= failures + 1 /\ used[o] \in Nat /\ failures \in Nat
      /\ value[o] = None /\ (\A q \in Stores : o \notin Made(q)) => used[o] <= failures
  BY DEF WasteIsBounded, TypeOK
<1>2. CASE o \in made
  <2>1. used[o] <= failures /\ used'[o] = used[o] + 1 /\ o \in Made(t)'
    BY <1>1, <1>2
  <2> QED BY <1>1, <2>1
<1>3. CASE o \notin made
  <2>1. used'[o] = used[o]
    BY <1>3
  <2> QED BY <1>1, <2>1
<1> QED BY <1>2, <1>3

(* One identity is reserved for each object that is made.                   *)
LEMMA Reserved ==
  ASSUME TypeOK, NEW objects, Acknowledge(objects), NEW made,
         \A o \in Owners : o \in made <=> \E x \in objects : x.id = New(o)
  PROVE  used' = [o \in Owners |-> IF o \in made THEN used[o] + 1 ELSE used[o]]
BY DEF Acknowledge

(* Making an object is what reserves identities.                            *)
LEMMA WasteOfEncoding ==
  ASSUME TypeOK, NEW t \in Stores, \A q \in Stores : Local(q), WasteIsBounded,
         EncodeNative(t) \/ EncodeIndex(t) \/ EncodeFused(t)
  PROVE  WasteIsBounded'
<1>1. PICK o, n : o = Top(t).owner /\ n = NativeOf[o]
  OBVIOUS
<1>2. stack[t] # <<>> /\ UNCHANGED <<value, failures>> /\ Top(t).at \in {"encode", "index", "fused"}
  BY DEF EncodeNative, EncodeIndex, EncodeFused, Runs, Installs, slots
<1>3. /\ Top(t) \in Frames /\ o \in Owners /\ \E above : InPlace(Top(t), 1, above)
      /\ \A x \in Holds(Top(t)) : Mine(t, x)
  BY <1>1, <1>2, TopFacts
<1>4. Made(t) = {}
  BY <1>2, MadeFacts
<1>5. \A x \in Holds(Top(t)) : value[x] = None /\ \A q \in Stores : x \notin Made(q)
  BY <1>3, <1>4, MadeFacts DEF Mine
<1>6. ASSUME NEW q \in Stores \ {t}
      PROVE  Made(q)' = Made(q)
  <2>1. stack'[q] = stack[q]
    BY DEF EncodeNative, EncodeIndex, EncodeFused, Installs, Calls, TypeOK
  <2> QED BY <2>1 DEF Made, Runs, Top
<1>7. \A q \in Stores : \A x \in Made(q) : x \in Made(q)'
  BY <1>4, <1>6
<1>8. ASSUME NEW place \in {"install", "install native"}, NEW object, Installs(t, place, object)
      PROVE  Made(t)' = IF place = "install" THEN {o} ELSE {o, n}
  <2>1. PICK f : f = [Top(t) EXCEPT !.at = place, !.made = object]
    OBVIOUS
  <2>2. f.at = place /\ f.owner = o
    BY <1>1, <1>3, <2>1 DEF Frames
  <2>3. stack'[t] = <<f>> \o Tail(stack[t])
    BY <1>8, <2>1 DEF Installs, Calls, TypeOK
  <2>4. stack[t] \in Seq(Frames)
    BY DEF TypeOK
  <2>5. <<f>> \o Tail(stack[t]) # <<>> /\ Head(<<f>> \o Tail(stack[t])) = f
    BY <1>2, <2>4, NewTop
  <2>6. stack'[t] # <<>> /\ Head(stack'[t]) = f
    BY <2>3, <2>5
  <2> QED BY <1>1, <2>2, <2>6 DEF Made, Runs, Top
<1>9. \A x, y : New(x) = New(y) => x = y
  BY DEF New
<1>10. CASE EncodeNative(t)
  <2>1. Made(t)' = {o} /\ Holds(Top(t)) = {o}
    BY <1>1, <1>8, <1>10 DEF EncodeNative, Runs, Holds
  <2>2. Acknowledge({NativeObject(o)})
    BY <1>1, <1>10 DEF EncodeNative
  <2>3. \A x \in Owners : x \in {o} <=> \E y \in {NativeObject(o)} : y.id = New(x)
    BY <1>9 DEF NativeObject
  <2>4. used' = [x \in Owners |-> IF x \in {o} THEN used[x] + 1 ELSE used[x]]
    <3>1. PICK made : made = {o}
      OBVIOUS
    <3>2. used' = [x \in Owners |-> IF x \in made THEN used[x] + 1 ELSE used[x]]
      BY <2>2, <2>3, <3>1, Reserved
    <3> QED BY <3>1, <3>2
  <2> QED BY <1>2, <1>5, <1>7, <2>1, <2>4, WasteOfMaking
<1>11. CASE EncodeIndex(t)
  <2>1. Made(t)' = {o} /\ Holds(Top(t)) = {o}
    BY <1>1, <1>8, <1>11 DEF EncodeIndex, Runs, Holds
  <2>2. PICK object : object = PairObject(o, Id(n)) /\ Acknowledge({object})
    BY <1>1, <1>11 DEF EncodeIndex
  <2>3. \A x \in Owners : x \in {o} <=> \E y \in {object} : y.id = New(x)
    BY <1>9, <2>2 DEF PairObject
  <2>4. used' = [x \in Owners |-> IF x \in {o} THEN used[x] + 1 ELSE used[x]]
    <3>1. PICK made : made = {o}
      OBVIOUS
    <3>2. used' = [x \in Owners |-> IF x \in made THEN used[x] + 1 ELSE used[x]]
      BY <2>2, <2>3, <3>1, Reserved
    <3> QED BY <3>1, <3>2
  <2> QED BY <1>2, <1>5, <1>7, <2>1, <2>4, WasteOfMaking
<1>12. CASE EncodeFused(t)
  <2>1. Made(t)' = {o, n} /\ Holds(Top(t)) = {o, n}
    BY <1>1, <1>8, <1>12 DEF EncodeFused, Runs, Holds
  <2>2. PICK native, object :
          /\ native = NativeObject(n) /\ object = PairObject(o, native.id)
          /\ Acknowledge({native, object})
    BY <1>1, <1>12 DEF EncodeFused
  <2>3. \A x \in Owners : x \in {o, n} <=> \E y \in {native, object} : y.id = New(x)
    <3>1. native.id = New(n) /\ object.id = New(o)
      BY <2>2 DEF NativeObject, PairObject
    <3> QED BY <1>9, <3>1
  <2>4. used' = [x \in Owners |-> IF x \in {o, n} THEN used[x] + 1 ELSE used[x]]
    <3>1. PICK made : made = {o, n}
      OBVIOUS
    <3>2. used' = [x \in Owners |-> IF x \in made THEN used[x] + 1 ELSE used[x]]
      BY SMTT(20), <2>2, <2>3, <3>1, Reserved
    <3> QED BY <3>1, <3>2
  <2> QED BY <1>2, <1>5, <1>7, <2>1, <2>4, WasteOfMaking
<1> QED BY <1>10, <1>11, <1>12

(* A failure may waste one identity of an owner, nothing else wastes any.   *)
LEMMA WasteStep ==
  ASSUME TypeOK, TypeOK', NEW t \in Stores, \A q \in Stores : Local(q), Local(t)', BindingsAreSound,
         WasteIsBounded, Step(t) \/ Fail(t) \/ Reopen(t)
  PROVE  WasteIsBounded'
<1>1. Polite(t)
  BY TurnsKeep, PlanKeeps, TryPairKeeps, TryNativeKeeps, ClaimedKeeps, FinishReadyKeeps, WalkKeeps,
     LockKeeps, DependenciesKeep, LockNativeKeeps, EncodesKeep, InstallNativeKeeps, InstallKeeps
     DEF Step
<1>2. Grows /\ failures' \in Nat
  BY <1>1 DEF Polite, TypeOK
<1>3. ASSUME NEW q \in Stores \ {t}
      PROVE  Made(q)' = Made(q)
  BY <1>1 DEF Polite, Locals, Made, Runs, Top
<1>4. CASE EncodeNative(t) \/ EncodeIndex(t) \/ EncodeFused(t)
  BY <1>4, WasteOfEncoding
<1>5. CASE Fail(t)
  BY <1>2, <1>5, WasteStays DEF Fail, catalog
<1>6. CASE InstallNative(t)
  <2>1. PICK p, n : p = Top(t).owner /\ n = NativeOf[p]
    OBVIOUS
  <2>2. /\ stack[t] # <<>> /\ Top(t).at = "install native" /\ used' = used /\ failures' = failures
    BY <1>6 DEF InstallNative, Runs, Bind, catalog
  <2>3. Top(t) \in Frames /\ \E above : InPlace(Top(t), 1, above)
    BY <2>2, TopFacts
  <2>4. p \in Pairs /\ Top(t).made \in PairObjects
    BY <2>1, <2>2, <2>3 DEF InPlace
  <2>5. n \in Owners /\ value'[n] # None
    <3>1. n \in Owners /\ value'[n] = [id |-> Top(t).made.native]
      BY <1>6, <2>1, <2>4, GraphAssumption DEF InstallNative, Bind, Owners, TypeOK
    <3>2. Top(t).made.native \in Owners \X Nat
      BY <2>4 DEF PairObjects, Identities
    <3> QED BY <3>1, <3>2, GraphAssumption
  <2>6. Made(t) = {p, n}
    BY <2>1, <2>2 DEF Made, Runs
  <2>7. p \in Made(t)'
    <3>1. PICK f : f = [Top(t) EXCEPT !.at = "install"]
      OBVIOUS
    <3>2. f.at = "install" /\ f.owner = p
      BY <2>1, <2>3, <3>1 DEF Frames
    <3>3. stack'[t] = <<f>> \o Tail(stack[t])
      BY <1>6, <3>1 DEF InstallNative, Calls, TypeOK
    <3>4. stack[t] \in Seq(Frames)
      BY DEF TypeOK
    <3>5. <<f>> \o Tail(stack[t]) # <<>> /\ Head(<<f>> \o Tail(stack[t])) = f
      BY <2>2, <3>4, NewTop
    <3>6. stack'[t] # <<>> /\ Head(stack'[t]) = f
      BY <3>3, <3>5
    <3> QED BY <3>2, <3>6 DEF Made, Runs, Top
  <2>8. \A q \in Stores : \A o \in Made(q) : o \in Made(q)' \/ value'[o] # None
    BY <1>3, <2>5, <2>6, <2>7
  <2> QED BY <1>2, <2>2, <2>8, WasteStays
<1>7. CASE Install(t)
  <2>1. PICK o : o = Top(t).owner
    OBVIOUS
  <2>2. /\ stack[t] # <<>> /\ Top(t).at = "install" /\ used' = used /\ failures' = failures
    BY <1>7 DEF Install, Runs, Bind, catalog
  <2>3. Top(t) \in Frames /\ o \in Owners /\ \E above : InPlace(Top(t), 1, above)
    BY <2>1, <2>2, TopFacts
  <2>4. value'[o] = Top(t).made /\ Top(t).made \in Objects
    BY <1>7, <2>1, <2>2, <2>3 DEF Install, Bind, InPlace, TypeOK
  <2>5. value'[o] # None
    BY <2>4, GraphAssumption DEF Objects, NativeObjects, PairObjects, Identities
  <2>6. Made(t) = {o}
    BY <2>1, <2>2 DEF Made, Runs
  <2> QED BY <1>2, <1>3, <2>2, <2>5, <2>6, WasteStays
<1>8. CASE \/ Visit(t) \/ Plan(t) \/ TryPair(t) \/ TryNative(t) \/ Claimed(t) \/ FinishReady(t)
           \/ EndBatch(t) \/ Walk(t) \/ Lock(t) \/ Dependencies(t) \/ LockNative(t) \/ Reopen(t)
  <2>1. used' = used /\ failures' = failures
    BY <1>8 DEF Visit, Plan, TryPair, TryNative, Claimed, FinishReady, EndBatch, Walk, Lock,
                Dependencies, Resolve, LockNative, Reopen, catalog
  <2>2. stack[t] = <<>> \/ Top(t).at \notin {"install", "install native"}
    <3>1. at[t] \notin {"finish", "walk"} => stack[t] = <<>>
      BY DEF Local, InPhase
    <3> QED BY <1>8, <3>1 DEF Visit, Plan, TryPair, TryNative, Claimed, FinishReady, EndBatch, Walk,
                Lock, Dependencies, Resolve, LockNative, Reopen, Runs
  <2>3. Made(t) = {}
    BY <2>2, MadeFacts
  <2> QED BY <1>2, <1>3, <2>1, <2>3, WasteStays
<1> QED BY <1>4, <1>5, <1>6, <1>7, <1>8 DEF Step

-----------------------------------------------------------------------------

(* No store has begun.                                                      *)
LEMMA InitHolds == Init => IInv
<1> SUFFICES ASSUME Init
             PROVE  IInv
  OBVIOUS
<1>1. TypeOK
  BY GraphAssumption DEF Init, TypeOK, Phases
<1>2. ASSUME NEW t \in Stores
      PROVE  Local(t)
  <2>1. /\ at[t] = "new" /\ units[t] = {} /\ half[t] = None /\ claimed[t] = {}
        /\ todo[t] = Roots[t] /\ stack[t] = <<>> /\ Depth(t) = {}
    BY DEF Init, Depth
  <2> QED BY <2>1 DEF Local, InPhase, UnitsAreReady, ClaimsAreHeld, FramesAreHeld,
                      FramesAreInPlace, RootsAreReached
<1>3. BindingsAreSound
  BY DEF Init, BindingsAreSound, Owners
<1>4. WasteIsBounded
  BY DEF Init, WasteIsBounded
<1> QED BY <1>1, <1>2, <1>3, <1>4 DEF IInv

(* The invariant is inductive.                                              *)
LEMMA StepHolds == IInv /\ [Next]_vars => IInv'
<1> SUFFICES ASSUME IInv, [Next]_vars
             PROVE  IInv'
  OBVIOUS
<1>1. ASSUME NEW t \in Stores, Step(t) \/ Fail(t) \/ Reopen(t)
      PROVE  IInv'
  BY <1>1, TypeStep, LocalStep, WasteStep DEF IInv
<1>2. CASE UNCHANGED vars
  <2>1. /\ TypeOK' /\ Grows /\ \A q \in Stores : Spares(q) /\ UNCHANGED Locals(q)
    BY <1>2 DEF IInv, TypeOK, Grows, Spares, Mine, Locals, vars, batch, slots, catalog
  <2>2. \A q \in Stores : Local(q)'
    BY <2>1, OthersKeep DEF IInv
  <2>3. BindingsAreSound'
    BY <1>2, <2>1, BindingsStay DEF IInv, vars, slots
  <2>4. used' = used /\ failures' = failures /\ stack' = stack /\ failures' \in Nat
    BY <1>2 DEF vars, catalog, IInv, TypeOK
  <2>5. \A q \in Stores : Made(q)' = Made(q)
    BY <2>4 DEF Made, Runs, Top
  <2>6. WasteIsBounded'
    BY <2>1, <2>4, <2>5, WasteStays DEF IInv
  <2> QED BY <2>1, <2>2, <2>3, <2>6 DEF IInv
<1> QED BY <1>1, <1>2 DEF Next

(* However many stores seal the same graphs at once, and however often they
   fail: a binding denotes exactly the graph of its owner as the catalog has
   acknowledged it, a store that returns has bound all its roots, and an
   owner has one object and at most one more for each failure.              *)
THEOREM OwnersHold == FairSpec => []OwnersAreSealedOnce
<1>1. IInv => OwnersAreSealedOnce
  <2> SUFFICES ASSUME IInv
               PROVE  OwnersAreSealedOnce
    OBVIOUS
  <2>1. \A o \in Owners : value[o] # None => value[o] \in sealed
    BY DEF IInv, BindingsAreSound
  <2>2. ASSUME NEW p \in Pairs, value[p] # None
        PROVE  /\ value[NativeOf[p]] # None /\ value[p].native = Id(NativeOf[p])
               /\ Bound(Main[p]) /\ value[p].main = Id(Main[p])
               /\ Bound(Secondary[p]) /\ value[p].secondary = Id(Secondary[p])
    <3>1. DenotesPair(value[p], p) /\ NativeOf[p] # None
      BY <2>2, GraphAssumption DEF IInv, BindingsAreSound, Owners
    <3> QED BY <3>1 DEF DenotesPair, Ready, Bound
  <2>3. \A t \in Stores : at[t] = "done" => \A o \in ToSet(Roots[t]) : Bound(o)
    BY DEF IInv, Local, RootsAreReached
  <2>4. \A o \in Owners : used[o] <= 1 + failures
    BY DEF IInv, WasteIsBounded, TypeOK
  <2> QED BY <2>1, <2>2, <2>3, <2>4 DEF OwnersAreSealedOnce, BindingsDenoteTheGraph, OneObjectPerOwner
<1> QED BY <1>1, InitHolds, StepHolds, PTL DEF FairSpec

----------------------------------------------------------------------------
(* The registry: how often a list holds an owner                           *)

SpotsOf(s, o) == {i \in DOMAIN s : s[i] = o}

\* Sets that a function pairs off have one size.
LEMMA PairedOff ==
  ASSUME NEW S, NEW T, IsFiniteSet(S), NEW f \in [S -> T],
         \A a, b \in S : f[a] = f[b] => a = b, \A t \in T : \E a \in S : f[a] = t
  PROVE  IsFiniteSet(T) /\ Cardinality(T) = Cardinality(S)
<1>1. DOMAIN f = S
  OBVIOUS
<1>2. f \in Bijection(S, T)
  BY <1>1 DEF Bijection, Injection, Surjection, IsInjective
<1>3. ExistsBijection(S, T)
  BY <1>2 DEF ExistsBijection
<1>4. QED
  BY <1>3, FS_Bijection

LEMMA TimesType ==
  ASSUME NEW S, NEW s \in Seq(S), NEW o
  PROVE  /\ IsFiniteSet(SpotsOf(s, o)) /\ Times(s, o) \in Nat /\ Times(s, o) = Cardinality(SpotsOf(s, o))
         /\ Times(s, o) = 0 <=> \A i \in DOMAIN s : s[i] # o
         /\ o \in ToSet(s) <=> Times(s, o) > 0
<1>1. Len(s) \in Nat /\ DOMAIN s = 1..Len(s) /\ SpotsOf(s, o) \subseteq 1..Len(s)
  BY DEF SpotsOf
<1>2. IsFiniteSet(SpotsOf(s, o))
  <2>1. 1 \in Int /\ Len(s) \in Int
    OBVIOUS
  <2>2. IsFiniteSet(1..Len(s))
    BY <2>1, FS_Interval
  <2>3. QED
    BY <1>1, <2>2, FS_Subset
<1>3. Cardinality(SpotsOf(s, o)) \in Nat /\ (Cardinality(SpotsOf(s, o)) = 0 <=> SpotsOf(s, o) = {})
  BY <1>2, FS_CardinalityType, FS_EmptySet
<1>4. Times(s, o) = Cardinality(SpotsOf(s, o))
  BY DEF Times, SpotsOf
<1>5. SpotsOf(s, o) = {} <=> \A i \in DOMAIN s : s[i] # o
  BY DEF SpotsOf
<1>6. o \in ToSet(s) <=> ~(\A i \in DOMAIN s : s[i] # o)
  BY DEF ToSet
<1> HIDE DEF SpotsOf
<1>7. QED
  BY <1>2, <1>3, <1>4, <1>5, <1>6

LEMMA TimesEmpty == \A o : Times(<<>>, o) = 0
<1> SUFFICES ASSUME NEW o PROVE Times(<<>>, o) = 0
  OBVIOUS
<1>1. <<>> \in Seq({}) /\ \A i \in DOMAIN <<>> : <<>>[i] # o
  OBVIOUS
<1>2. QED
  BY <1>1, TimesType

\* What lists hold together, each holds of its own.
LEMMA TimesConcat ==
  ASSUME NEW S, NEW s \in Seq(S), NEW t \in Seq(S), NEW o
  PROVE  Times(s \o t, o) = Times(s, o) + Times(t, o)
<1> DEFINE m == Len(s)
           n == Len(t)
           u == s \o t
           A == SpotsOf(s, o)
           B == SpotsOf(t, o)
           C == {m + i : i \in B}
           f == [i \in B |-> m + i]
<1>1. /\ m \in Nat /\ n \in Nat /\ u \in Seq(S) /\ DOMAIN s = 1..m /\ DOMAIN t = 1..n /\ DOMAIN u = 1..(m + n)
      /\ \A i \in 1..m : u[i] = s[i]
      /\ \A i \in 1..n : u[m + i] = t[i]
  BY ConcatProperties
<1> HIDE DEF u
<1>2. \A i : i \in A <=> i \in 1..m /\ s[i] = o
  BY <1>1 DEF SpotsOf
<1>3. \A i : i \in B <=> i \in 1..n /\ t[i] = o
  BY <1>1 DEF SpotsOf
<1>4. IsFiniteSet(A) /\ IsFiniteSet(B) /\ Times(s, o) = Cardinality(A) /\ Times(t, o) = Cardinality(B)
      /\ Times(s, o) \in Nat /\ Times(t, o) \in Nat /\ Times(u, o) = Cardinality(SpotsOf(u, o))
  BY <1>1, TimesType
<1> HIDE DEF A, B, m, n
<1>5. IsFiniteSet(C) /\ Cardinality(C) = Cardinality(B)
  <2>1. f \in [B -> C]
    OBVIOUS
  <2>2. \A a, b \in B : f[a] = f[b] => a = b
    BY <1>1, <1>3
  <2>3. \A c \in C : \E a \in B : f[a] = c
    OBVIOUS
  <2> HIDE DEF C, f
  <2>4. QED
    BY <1>4, <2>1, <2>2, <2>3, PairedOff
<1>6. A \cap C = {}
  BY <1>1, <1>2, <1>3
<1>7. SpotsOf(u, o) = A \cup C
  <2>1. ASSUME NEW i \in SpotsOf(u, o) PROVE i \in A \cup C
    <3>1. i \in 1..(m + n) /\ u[i] = o
      BY <1>1 DEF SpotsOf
    <3>2. CASE i <= m
      BY <1>1, <1>2, <3>1, <3>2
    <3>3. CASE i > m
      <4>1. i - m \in 1..n /\ m + (i - m) = i
        BY <1>1, <3>1, <3>3
      <4>2. i - m \in B
        BY <1>1, <1>3, <3>1, <4>1
      <4>3. QED
        BY <4>1, <4>2
    <3>4. QED
      BY <1>1, <3>1, <3>2, <3>3
  <2>2. ASSUME NEW i \in A PROVE i \in SpotsOf(u, o)
    BY <1>1, <1>2 DEF SpotsOf
  <2>3. ASSUME NEW i \in C PROVE i \in SpotsOf(u, o)
    <3>1. PICK j \in B : i = m + j
      OBVIOUS
    <3>2. j \in 1..n /\ t[j] = o /\ m + j \in 1..(m + n)
      BY <1>1, <1>3
    <3>3. QED
      BY <1>1, <3>1, <3>2 DEF SpotsOf
  <2>4. QED
    BY <2>1, <2>2, <2>3
<1> HIDE DEF C
<1>8. Cardinality(A \cup C) = Cardinality(A) + Cardinality(C) - Cardinality(A \cap C)
  BY <1>4, <1>5, FS_Union
<1>9. Cardinality(A \cap C) = 0
  BY <1>6, FS_EmptySet
<1>10. QED
  BY <1>4, <1>5, <1>7, <1>8, <1>9 DEF u

LEMMA TimesOne ==
  ASSUME NEW c, NEW o
  PROVE  Times(<<c>>, o) = IF c = o THEN 1 ELSE 0
<1>1. SpotsOf(<<c>>, o) = IF c = o THEN {1} ELSE {}
  BY DEF SpotsOf
<1>2. Times(<<c>>, o) = Cardinality(SpotsOf(<<c>>, o))
  BY DEF Times, SpotsOf
<1>3. QED
  BY <1>1, <1>2, FS_Singleton, FS_EmptySet

LEMMA TimesAppend ==
  ASSUME NEW S, NEW s \in Seq(S), NEW c \in S, NEW o
  PROVE  Times(Append(s, c), o) = Times(s, o) + (IF c = o THEN 1 ELSE 0)
<1> DEFINE u == <<c>>
<1>1. Append(s, c) = s \o u /\ u \in Seq(S) /\ Times(u, o) = IF c = o THEN 1 ELSE 0
  BY TimesOne
<1> HIDE DEF u
<1>2. QED
  BY <1>1, TimesConcat

LEMMA TimesHead ==
  ASSUME NEW S, NEW s \in Seq(S), s # <<>>, NEW o
  PROVE  Times(s, o) = (IF Head(s) = o THEN 1 ELSE 0) + Times(Tail(s), o)
<1>1. s = <<Head(s)>> \o Tail(s) /\ <<Head(s)>> \in Seq(S) /\ Tail(s) \in Seq(S)
  OBVIOUS
<1> DEFINE h == <<Head(s)>>
           t == Tail(s)
<1>2. Times(h, o) = IF Head(s) = o THEN 1 ELSE 0
  BY TimesOne
<1>3. s = h \o t /\ h \in Seq(S) /\ t \in Seq(S)
  BY <1>1
<1> HIDE DEF h, t
<1>4. Times(h \o t, o) = Times(h, o) + Times(t, o)
  BY <1>3, TimesConcat
<1>5. QED
  BY <1>2, <1>3, <1>4 DEF t

\* The order does not matter.
LEMMA TimesReverse ==
  ASSUME NEW S, NEW s \in Seq(S), NEW o
  PROVE  Reverse(s) \in Seq(S) /\ Times(Reverse(s), o) = Times(s, o)
<1> DEFINE n == Len(s)
           r == Reverse(s)
           A == SpotsOf(s, o)
           B == SpotsOf(r, o)
           f == [i \in A |-> (n - i) + 1]
<1>1. /\ n \in Nat /\ DOMAIN s = 1..n /\ r = [i \in 1..n |-> s[(n - i) + 1]] /\ \A i \in 1..n : s[i] \in S
  BY DEF Reverse
<1>2. \A i \in 1..n : (n - i) + 1 \in 1..n /\ (n - ((n - i) + 1)) + 1 = i
  BY <1>1
<1>3. r \in [1..n -> S] /\ r \in Seq(S) /\ DOMAIN r = 1..n /\ \A i \in 1..n : r[i] = s[(n - i) + 1]
  BY <1>1, <1>2, IsASeq
<1> HIDE DEF r
<1>4. /\ \A i : i \in A <=> i \in 1..n /\ s[i] = o
      /\ \A i : i \in B <=> i \in 1..n /\ r[i] = o
  BY <1>1, <1>3 DEF SpotsOf
<1>5. IsFiniteSet(A) /\ Times(s, o) = Cardinality(A) /\ Times(r, o) = Cardinality(B)
  BY <1>3, TimesType
<1> HIDE DEF A, B, n
<1>6. f \in [A -> B]
  BY <1>2, <1>3, <1>4
<1>7. \A a, b \in A : f[a] = f[b] => a = b
  BY <1>1, <1>4
<1>8. \A b \in B : \E a \in A : f[a] = b
  <2> SUFFICES ASSUME NEW b \in B PROVE \E a \in A : f[a] = b
    OBVIOUS
  <2>1. (n - b) + 1 \in A /\ (n - ((n - b) + 1)) + 1 = b
    BY <1>2, <1>3, <1>4
  <2>2. QED
    BY <2>1
<1> HIDE DEF f
<1>9. Cardinality(B) = Cardinality(A)
  BY <1>5, <1>6, <1>7, <1>8, PairedOff
<1>10. QED
  BY <1>3, <1>5, <1>9 DEF r

----------------------------------------------------------------------------
(* What holds a reference *)

Holders == RegistryOwners \cup {Nobody}
AllRoots(list) == list.pairs \o list.natives

IsLive(o, es) == o \in RegistryOwners /\ IdOf[o] \in DOMAIN es /\ es[IdOf[o]].value = o
OnCall(o, cs) == \E i \in DOMAIN cs : cs[i].owner = o

\* What each holder has acquired: a call so far, a live owner all its children.
Holdings(cs, es) ==
  [p \in Holders |->
     IF OnCall(p, cs) THEN cs[CHOOSE i \in DOMAIN cs : cs[i].owner = p].done
     ELSE IF IsLive(p, es) THEN ChildrenOf[p] ELSE <<>>]
Uses(h, o) == Total([p \in Holders |-> Times(h[p], o)], Holders)

CallRecords == [owner : Holders, todo : Seq(RegistryOwners), done : Seq(RegistryOwners)]
IsTable(es) ==
  /\ es = [id \in DOMAIN es |-> es[id]]
  /\ \A id \in DOMAIN es : es[id] \in [value : RegistryOwners, references : Nat \ {0}] /\ IdOf[es[id].value] = id
RegistryTypeOK ==
  /\ IsTable(entries) /\ calls \in Seq(CallRecords) /\ releases \in Seq(RegistryOwners)
  /\ registered \in [pairs : Seq(RegistryOwners), natives : Seq(RegistryOwners)]
  /\ asked \in [pairs : Seq(RegistryOwners), natives : Seq(RegistryOwners)]

AreDistinct(cs) == \A i, j \in DOMAIN cs : cs[i].owner = cs[j].owner => i = j

\* A call waits for the one above it, its first child not yet acquired; nobody else refers to that.
CallIsSound(i) ==
  /\ calls[i].owner = Nobody <=> i = 1
  /\ i = 1 => calls[i].done \o calls[i].todo = AllRoots(asked)
  /\ i > 1 => /\ calls[i - 1].todo # <<>> /\ Head(calls[i - 1].todo) = calls[i].owner
              /\ calls[i].done \o calls[i].todo = ChildrenOf[calls[i].owner]
              /\ IsLive(calls[i].owner, entries) /\ entries[IdOf[calls[i].owner]].references = 1

References(o) ==
  Times(AllRoots(registered), o) + Uses(Holdings(calls, entries), o) + Times(releases, o)
    + (IF OnCall(o, calls) THEN 1 ELSE 0)
CountIsBalanced(o) ==
  References(o) = IF IsLive(o, entries) THEN entries[IdOf[o]].references ELSE 0

RegistryIInv ==
  /\ RegistryTypeOK
  /\ AreDistinct(calls) /\ \A i \in DOMAIN calls : CallIsSound(i)
  /\ \A o \in RegistryOwners : CountIsBalanced(o)

LEMMA HoldersFinite ==
  ASSUME RegistryAssumption
  PROVE  IsFiniteSet(Holders) /\ RegistryOwners \subseteq Holders /\ Nobody \in Holders
  BY FS_AddElement DEF Holders, RegistryAssumption

LEMMA OnCallHolds ==
  ASSUME NEW cs, NEW es, AreDistinct(cs), NEW i \in DOMAIN cs, cs[i].owner \in Holders
  PROVE  Holdings(cs, es)[cs[i].owner] = cs[i].done
<1> DEFINE p == cs[i].owner
           j == CHOOSE k \in DOMAIN cs : cs[k].owner = p
<1>1. j \in DOMAIN cs /\ cs[j].owner = p
  OBVIOUS
<1> HIDE DEF j
<1>2. j = i
  BY <1>1 DEF AreDistinct
<1>3. OnCall(p, cs)
  BY DEF OnCall
<1>4. Holdings(cs, es)[p] = cs[j].done
  BY <1>3 DEF Holdings, j
<1>5. QED
  BY <1>2, <1>4

LEMMA OffCallHolds ==
  ASSUME NEW cs, NEW es, NEW p \in Holders, ~OnCall(p, cs)
  PROVE  Holdings(cs, es)[p] = IF IsLive(p, es) THEN ChildrenOf[p] ELSE <<>>
  BY DEF Holdings

LEMMA HoldingsType ==
  ASSUME RegistryAssumption, NEW cs \in Seq(CallRecords), NEW es
  PROVE  Holdings(cs, es) \in [Holders -> Seq(RegistryOwners)]
<1> SUFFICES ASSUME NEW p \in Holders PROVE Holdings(cs, es)[p] \in Seq(RegistryOwners)
  BY DEF Holdings
<1>1. CASE OnCall(p, cs)
  <2> DEFINE j == CHOOSE k \in DOMAIN cs : cs[k].owner = p
  <2>1. j \in DOMAIN cs
    BY <1>1 DEF OnCall
  <2> HIDE DEF j
  <2>2. cs[j] \in CallRecords
    BY <2>1
  <2>3. Holdings(cs, es)[p] = cs[j].done
    BY <1>1 DEF Holdings, j
  <2>4. QED
    BY <2>2, <2>3 DEF CallRecords
<1>2. CASE ~OnCall(p, cs)
  <2>1. p \in RegistryOwners => ChildrenOf[p] \in Seq(RegistryOwners)
    BY DEF RegistryAssumption
  <2>2. <<>> \in Seq(RegistryOwners)
    OBVIOUS
  <2>3. IsLive(p, es) => p \in RegistryOwners
    BY DEF IsLive
  <2>4. QED
    BY <1>2, <2>1, <2>2, <2>3, OffCallHolds
<1>3. QED
  BY <1>1, <1>2

LEMMA UsesFacts ==
  ASSUME RegistryAssumption, NEW h \in [Holders -> Seq(RegistryOwners)], NEW o
  PROVE  /\ [p \in Holders |-> Times(h[p], o)] \in [Holders -> Nat]
         /\ Uses(h, o) \in Nat
         /\ Uses(h, o) = 0 <=> \A p \in Holders : Times(h[p], o) = 0
         /\ \A p \in Holders : Times(h[p], o) <= Uses(h, o) /\ Times(h[p], o) \in Nat
<1> DEFINE w == [p \in Holders |-> Times(h[p], o)]
<1>1. \A p \in Holders : Times(h[p], o) \in Nat
  BY TimesType
<1>2. w \in [Holders -> Nat] /\ \A p \in Holders : w[p] = Times(h[p], o)
  BY <1>1
<1> HIDE DEF w
<1>3. Total(w, Holders) \in Nat /\ (Total(w, Holders) = 0 <=> \A p \in Holders : w[p] = 0)
  BY <1>2, HoldersFinite, TotalType, TotalZero
<1>4. \A p \in Holders : w[p] <= Total(w, Holders)
  BY <1>2, HoldersFinite, TotalRemove
<1>5. QED
  BY <1>1, <1>2, <1>3, <1>4 DEF Uses, w

\* What one holder acquires or gives up changes the uses by as much.
LEMMA UsesChange ==
  ASSUME RegistryAssumption, NEW h \in [Holders -> Seq(RegistryOwners)], NEW x \in Holders,
         NEW s \in Seq(RegistryOwners), NEW o
  PROVE  /\ Uses([h EXCEPT ![x] = s], o) = Uses(h, o) - Times(h[x], o) + Times(s, o)
         /\ Times(h[x], o) <= Uses(h, o)
<1> DEFINE g == [h EXCEPT ![x] = s]
           v == [p \in Holders |-> Times(h[p], o)]
           w == [p \in Holders |-> Times(g[p], o)]
<1>1. g \in [Holders -> Seq(RegistryOwners)] /\ g[x] = s /\ \A p \in Holders \ {x} : g[p] = h[p]
  OBVIOUS
<1> HIDE DEF g, Holders
<1>2. v \in [Holders -> Nat] /\ w \in [Holders -> Nat]
  BY <1>1, UsesFacts
<1>3. v[x] = Times(h[x], o) /\ w[x] = Times(s, o) /\ \A p \in Holders \ {x} : v[p] = w[p]
  BY <1>1
<1> HIDE DEF v, w
<1>4. Total(w, Holders) = Total(v, Holders) - v[x] + w[x] /\ v[x] <= Total(v, Holders)
  <2>1. IsFiniteSet(Holders)
    BY HoldersFinite
  <2>2. ASSUME NEW f \in [Holders -> Nat], NEW k \in [Holders -> Nat], \A p \in Holders \ {x} : f[p] = k[p]
        PROVE  Total(k, Holders) = Total(f, Holders) - f[x] + k[x] /\ f[x] <= Total(f, Holders)
    BY ZenonT(30), <2>1, <2>2, TotalChange
  <2>3. QED
    BY <1>2, <1>3, <2>2
<1>5. QED
  BY <1>3, <1>4 DEF Uses, v, w, g

\* Taking over the head of what is left.
LEMMA TakingKeeps ==
  ASSUME NEW S, NEW d \in Seq(S), NEW t \in Seq(S), t # <<>>
  PROVE  /\ Head(t) \in S /\ Tail(t) \in Seq(S) /\ Append(d, Head(t)) \in Seq(S)
         /\ Append(d, Head(t)) \o Tail(t) = d \o t
         /\ Head(t) \in ToSet(d \o t)
<1>1. Head(t) \in S /\ Tail(t) \in Seq(S) /\ Append(d, Head(t)) \in Seq(S) /\ Len(t) > 0 /\ Head(t) = t[1]
  OBVIOUS
<1>2. Append(d, Head(t)) \o Tail(t) = d \o t
  OBVIOUS
<1>3. Len(d) + 1 \in DOMAIN (d \o t) /\ (d \o t)[Len(d) + 1] = t[1]
  BY <1>1, ConcatProperties
<1>4. Head(t) \in ToSet(d \o t)
  BY <1>1, <1>3 DEF ToSet
<1>5. QED
  BY <1>1, <1>2, <1>4

\* The calls in progress.
LEMMA CallFacts ==
  ASSUME RegistryAssumption, RegistryIInv
  PROVE  /\ Len(calls) \in Nat /\ DOMAIN calls = 1..Len(calls)
         /\ \A i \in 1..Len(calls) :
              /\ calls[i] \in CallRecords /\ calls[i].owner \in Holders
              /\ calls[i].todo \in Seq(RegistryOwners) /\ calls[i].done \in Seq(RegistryOwners)
         /\ \A i \in 1..Len(calls) : i = 1 =>
              calls[i].owner = Nobody /\ calls[i].done \o calls[i].todo = AllRoots(asked)
         /\ \A i \in 1..Len(calls) : i > 1 =>
              /\ calls[i].owner \in RegistryOwners /\ calls[i].owner # Nobody
              /\ i - 1 \in 1..Len(calls) /\ calls[i - 1].todo # <<>> /\ Head(calls[i - 1].todo) = calls[i].owner
              /\ calls[i].done \o calls[i].todo = ChildrenOf[calls[i].owner]
              /\ IsLive(calls[i].owner, entries) /\ entries[IdOf[calls[i].owner]].references = 1
<1>1. Len(calls) \in Nat /\ DOMAIN calls = 1..Len(calls)
      /\ \A i \in 1..Len(calls) : calls[i] \in CallRecords /\ CallIsSound(i)
  BY DEF RegistryIInv, RegistryTypeOK
<1>2. \A i \in 1..Len(calls) : /\ calls[i] \in CallRecords /\ calls[i].owner \in Holders
              /\ calls[i].todo \in Seq(RegistryOwners) /\ calls[i].done \in Seq(RegistryOwners)
  BY <1>1 DEF CallRecords
<1>3. ASSUME NEW i \in 1..Len(calls)
      PROVE  /\ calls[i].owner = Nobody <=> i = 1
             /\ i = 1 => calls[i].done \o calls[i].todo = AllRoots(asked)
             /\ i > 1 => /\ calls[i - 1].todo # <<>> /\ Head(calls[i - 1].todo) = calls[i].owner
                         /\ calls[i].done \o calls[i].todo = ChildrenOf[calls[i].owner]
                         /\ IsLive(calls[i].owner, entries) /\ entries[IdOf[calls[i].owner]].references = 1
  <2>1. CallIsSound(i)
    BY <1>1
  <2>2. QED
    BY <2>1 DEF CallIsSound
<1>4. \A i \in 1..Len(calls) : i > 1 => i - 1 \in 1..Len(calls)
  BY <1>1
<1>5. \A i \in 1..Len(calls) : i > 1 => calls[i].owner # Nobody /\ calls[i].owner \in RegistryOwners
  <2> SUFFICES ASSUME NEW i \in 1..Len(calls), i > 1
      PROVE  calls[i].owner # Nobody /\ calls[i].owner \in RegistryOwners
    OBVIOUS
  <2>1. i # 1
    BY <1>1
  <2>2. calls[i].owner # Nobody
    BY <1>3, <2>1
  <2>3. QED
    BY <1>2, <2>2 DEF Holders
<1>6. QED
  BY <1>1, <1>2, <1>3, <1>4, <1>5

\* Who is next is on no call: owners refer only to what was made before them.
LEMMA NextIsOffCall ==
  ASSUME RegistryAssumption, RegistryIInv, calls # <<>>, calls[Len(calls)].todo # <<>>
  PROVE  /\ Head(calls[Len(calls)].todo) \in RegistryOwners
         /\ ~OnCall(Head(calls[Len(calls)].todo), calls)
<1> DEFINE n == Len(calls)
           o == Head(calls[n].todo)
<1>1. /\ n \in 1..n /\ n \in Nat /\ DOMAIN calls = 1..n
      /\ \A i \in 1..n : i = 1 => calls[i].owner = Nobody
      /\ \A i \in 1..n : i > 1 =>
           /\ calls[i].owner \in RegistryOwners /\ calls[i - 1].todo # <<>>
           /\ Head(calls[i - 1].todo) = calls[i].owner
           /\ calls[i].done \o calls[i].todo = ChildrenOf[calls[i].owner]
  <2>1. n # 0 /\ n \in Nat /\ DOMAIN calls = 1..n
    BY DEF RegistryIInv, RegistryTypeOK
  <2>2. n \in 1..n
    BY <2>1
  <2> HIDE DEF n
  <2>3. ASSUME NEW i \in 1..n
        PROVE  /\ i = 1 => calls[i].owner = Nobody
               /\ i > 1 =>
                    /\ calls[i].owner \in RegistryOwners /\ calls[i - 1].todo # <<>>
                    /\ Head(calls[i - 1].todo) = calls[i].owner
                    /\ calls[i].done \o calls[i].todo = ChildrenOf[calls[i].owner]
    BY CallFacts DEF n
  <2>4. QED
    BY <2>1, <2>2, <2>3
<1>2. \A i \in 1..n :
          /\ calls[i].owner \in Holders /\ calls[i].todo \in Seq(RegistryOwners)
          /\ calls[i].done \in Seq(RegistryOwners)
  BY CallFacts
<1>3. o \in RegistryOwners
  BY <1>1, <1>2
<1>4. ASSUME NEW k \in 1..n, calls[k].owner = o
      PROVE  FALSE
  <2>1. k > 1
    BY <1>1, <1>3, <1>4 DEF RegistryAssumption
  <2> DEFINE S == {calls[j].owner : j \in k..n}
  <2>2. \A j \in k..n : j \in 1..n /\ j > 1 /\ calls[j].owner \in RegistryOwners
    <3> SUFFICES ASSUME NEW j \in k..n PROVE j \in 1..n /\ j > 1 /\ calls[j].owner \in RegistryOwners
      OBVIOUS
    <3> HIDE DEF n
    <3>1. j \in 1..n /\ j > 1
      BY <1>1, <2>1
    <3>2. QED
      BY <1>1, <3>1
  <2>3. S \in SUBSET RegistryOwners /\ S # {}
    BY <1>1, <2>2
  <2>4. PICK x \in S : \A p \in S : x \notin ToSet(ChildrenOf[p])
    <3> HIDE DEF S
    <3>1. QED
      BY <2>3 DEF RegistryAssumption
  <2>5. ASSUME NEW j \in k..n, calls[j].todo # <<>>
        PROVE  Head(calls[j].todo) # x
    <3>1. Head(calls[j].todo) \in ToSet(calls[j].done \o calls[j].todo)
      BY <1>2, <2>2, <2>5, TakingKeeps
    <3>2. Head(calls[j].todo) \in ToSet(ChildrenOf[calls[j].owner])
      BY <1>1, <2>2, <3>1
    <3>3. QED
      BY <2>4, <3>2
  <2>6. PICK j \in k..n : calls[j].owner = x
    BY <2>4
  <2>7. CASE j = k
    BY <1>1, <1>4, <2>5, <2>6, <2>7
  <2>8. CASE j > k
    <3>1. j - 1 \in k..n /\ calls[j - 1].todo # <<>> /\ Head(calls[j - 1].todo) = x
      <4> HIDE DEF n
      <4>1. j \in 1..n /\ j > 1 /\ j - 1 \in k..n
        BY <1>1, <2>1, <2>8
      <4>2. QED
        BY <1>1, <2>6, <4>1
    <3>2. QED
      BY <2>5, <3>1
  <2>9. QED
    BY <2>6, <2>7, <2>8
<1>5. QED
  BY <1>1, <1>3, <1>4 DEF OnCall

\* A holder holds the same when it waits at the same place with the same, or waits nowhere and lives as before.
LEMMA HoldsSame ==
  ASSUME NEW cs, NEW es, NEW ds, NEW fs, AreDistinct(cs), AreDistinct(ds), NEW p \in Holders,
         \/ \E i \in DOMAIN cs : i \in DOMAIN ds /\ cs[i].owner = p /\ ds[i].owner = p /\ ds[i].done = cs[i].done
         \/ ~OnCall(p, cs) /\ ~OnCall(p, ds) /\ (IsLive(p, fs) <=> IsLive(p, es))
  PROVE  Holdings(ds, fs)[p] = Holdings(cs, es)[p]
<1>1. CASE \E i \in DOMAIN cs : i \in DOMAIN ds /\ cs[i].owner = p /\ ds[i].owner = p /\ ds[i].done = cs[i].done
  BY <1>1, OnCallHolds
<1>2. CASE ~OnCall(p, cs) /\ ~OnCall(p, ds) /\ (IsLive(p, fs) <=> IsLive(p, es))
  BY <1>2, OffCallHolds
<1>3. QED
  BY <1>1, <1>2

LEMMA RegistryInitial ==
  ASSUME RegistryAssumption, RegistryInit
  PROVE  RegistryIInv
<1>1. entries = <<>> /\ calls = <<>> /\ releases = <<>> /\ registered = NoRoots /\ asked = NoRoots
  BY DEF RegistryInit
<1>2. RegistryTypeOK
  BY <1>1 DEF RegistryTypeOK, IsTable, NoRoots
<1>3. \A p \in Holders : ~OnCall(p, calls) /\ ~IsLive(p, entries)
  BY <1>1 DEF OnCall, IsLive
<1>4. AreDistinct(calls) /\ \A i \in DOMAIN calls : CallIsSound(i)
  BY <1>1 DEF AreDistinct
<1> DEFINE h == Holdings(calls, entries)
<1>5. \A p \in Holders : h[p] = <<>>
  BY <1>3, OffCallHolds
<1>6. h \in [Holders -> Seq(RegistryOwners)]
  BY <1>2, HoldingsType DEF RegistryTypeOK
<1>7. \A o : Uses(h, o) = 0
  <2> HIDE DEF h
  <2>1. QED
    BY <1>5, <1>6, UsesFacts, TimesEmpty
<1>8. \A o : Times(AllRoots(registered), o) = 0 /\ Times(releases, o) = 0
  BY <1>1, TimesEmpty DEF AllRoots, NoRoots
<1> HIDE DEF h
<1>9. ASSUME NEW o \in RegistryOwners
      PROVE  CountIsBalanced(o)
  <2>1. ~IsLive(o, entries) /\ ~OnCall(o, calls)
    BY <1>3, HoldersFinite
  <2>2. QED
    BY <1>7, <1>8, <2>1 DEF CountIsBalanced, References, h
<1>10. QED
  BY <1>2, <1>4, <1>9 DEF RegistryIInv

LEMMA CountTypes ==
  ASSUME RegistryAssumption, RegistryTypeOK
  PROVE  /\ AllRoots(registered) \in Seq(RegistryOwners) /\ AllRoots(asked) \in Seq(RegistryOwners)
         /\ Holdings(calls, entries) \in [Holders -> Seq(RegistryOwners)]
         /\ \A o : /\ Times(AllRoots(registered), o) \in Nat /\ Times(AllRoots(asked), o) \in Nat
                   /\ Times(releases, o) \in Nat /\ Uses(Holdings(calls, entries), o) \in Nat
<1>1. AllRoots(registered) \in Seq(RegistryOwners) /\ AllRoots(asked) \in Seq(RegistryOwners)
  BY DEF RegistryTypeOK, AllRoots
<1>2. releases \in Seq(RegistryOwners) /\ calls \in Seq(CallRecords)
  BY DEF RegistryTypeOK
<1>3. Holdings(calls, entries) \in [Holders -> Seq(RegistryOwners)]
  BY <1>2, HoldingsType
<1>4. \A o : Uses(Holdings(calls, entries), o) \in Nat
  BY <1>3, UsesFacts
<1>5. \A o : Times(AllRoots(registered), o) \in Nat /\ Times(AllRoots(asked), o) \in Nat /\ Times(releases, o) \in Nat
  BY <1>1, <1>2, TimesType
<1>6. QED
  BY <1>1, <1>3, <1>4, <1>5

\* How replace ends so far is not counted.
LEMMA RegistryOutcomeKeeps ==
  ASSUME RegistryIInv, UNCHANGED <<entries, registered, asked, calls, releases>>
  PROVE  RegistryIInv'
  BY DEF RegistryIInv, RegistryTypeOK, CallIsSound, CountIsBalanced, References

LEMMA RegistryReplaceKeeps ==
  ASSUME RegistryAssumption, RegistryIInv, NEW list \in RootLists, replace(list)
  PROVE  RegistryIInv'
<1> DEFINE c == Call(Nobody, AllRoots(list))
<1>1. /\ calls = <<>> /\ releases = <<>> /\ calls' = <<c>> /\ asked' = list
      /\ UNCHANGED <<entries, registered, releases>> /\ RegistryTypeOK
  BY DEF replace, Returned, RegistryIInv, AllRoots
<1>2. /\ list \in [pairs : Seq(RegistryOwners), natives : Seq(RegistryOwners)]
      /\ AllRoots(list) \in Seq(RegistryOwners)
  BY DEF RegistryAssumption, AllRoots
<1>3. c.owner = Nobody /\ c.done = <<>> /\ c.todo = AllRoots(list) /\ c \in CallRecords
  BY <1>2 DEF Call, CallRecords, Holders
<1> HIDE DEF c
<1>4. calls' \in Seq(CallRecords) /\ Len(calls') = 1 /\ DOMAIN calls' = {1} /\ calls'[1] = c
  BY <1>1, <1>3
<1>5. RegistryTypeOK'
  BY <1>1, <1>2, <1>4 DEF RegistryTypeOK
<1>6. AreDistinct(calls)  /\ AreDistinct(calls')
  BY <1>1, <1>4 DEF AreDistinct
<1>7. \A i \in DOMAIN calls' : CallIsSound(i)'
  <2> SUFFICES ASSUME NEW i \in DOMAIN calls' PROVE CallIsSound(i)'
    OBVIOUS
  <2>1. i = 1 /\ calls'[i] = c
    BY <1>4
  <2>2. c.done \o c.todo = AllRoots(list)
    BY <1>2, <1>3
  <2>3. AllRoots(asked)' = AllRoots(list)
    BY <1>1 DEF AllRoots
  <2>4. calls'[i].owner = Nobody /\ i = 1 /\ ~(i > 1)
    BY <1>3, <2>1
  <2>5. calls'[i].done \o calls'[i].todo = AllRoots(asked)'
    BY <1>3, <2>1, <2>2, <2>3
  <2>6. QED
    BY <2>4, <2>5 DEF CallIsSound
<1>8. Holdings(calls', entries') = Holdings(calls, entries)
  <2>1. \A p \in Holders \ {Nobody} : ~OnCall(p, calls) /\ ~OnCall(p, calls')
    BY <1>1, <1>3, <1>4 DEF OnCall
  <2>2. \A p \in Holders \ {Nobody} : Holdings(calls', entries')[p] = Holdings(calls, entries)[p]
    BY <1>1, <2>1, OffCallHolds
  <2>3. Holdings(calls, entries)[Nobody] = <<>>
    <3>1. ~OnCall(Nobody, calls)
      BY <1>1 DEF OnCall
    <3>2. ~IsLive(Nobody, entries)
      BY DEF IsLive, RegistryAssumption
    <3>3. QED
      BY <3>1, <3>2, HoldersFinite, OffCallHolds
  <2>4. Holdings(calls', entries')[Nobody] = <<>>
    BY <1>3, <1>4, <1>6, HoldersFinite, OnCallHolds
  <2>5. \A p \in Holders : Holdings(calls', entries')[p] = Holdings(calls, entries)[p]
    BY <2>2, <2>3, <2>4
  <2>6. QED
    BY <2>5 DEF Holdings
<1>9. ASSUME NEW o \in RegistryOwners
      PROVE  CountIsBalanced(o)'
  <2>1. ~OnCall(o, calls) /\ ~OnCall(o, calls')
    BY <1>1, <1>3, <1>4 DEF OnCall, RegistryAssumption
  <2>2. CountIsBalanced(o)
    BY DEF RegistryIInv
  <2>3. QED
    BY <1>1, <1>8, <2>1, <2>2 DEF CountIsBalanced, References
<1>10. QED
  BY <1>5, <1>6, <1>7, <1>9 DEF RegistryIInv

LEMMA RegistryClearKeeps ==
  ASSUME RegistryAssumption, RegistryIInv, clear
  PROVE  RegistryIInv'
<1>1. /\ calls = <<>> /\ releases = <<>> /\ registered' = NoRoots
      /\ releases' = registered.natives \o registered.pairs
      /\ UNCHANGED <<entries, asked, calls>> /\ RegistryTypeOK
  BY DEF clear, Returned, RegistryIInv
<1>2. registered.natives \in Seq(RegistryOwners) /\ registered.pairs \in Seq(RegistryOwners)
  BY <1>1 DEF RegistryTypeOK
<1>3. RegistryTypeOK'
  BY <1>1, <1>2 DEF RegistryTypeOK, NoRoots
<1>4. AreDistinct(calls') /\ \A i \in DOMAIN calls' : CallIsSound(i)'
  BY <1>1 DEF AreDistinct
<1>5. ASSUME NEW o \in RegistryOwners
      PROVE  CountIsBalanced(o)'
  <2>1. Times(AllRoots(registered), o) = Times(registered.pairs, o) + Times(registered.natives, o)
    BY <1>2, TimesConcat DEF AllRoots
  <2>2. Times(releases', o) = Times(registered.natives, o) + Times(registered.pairs, o)
    BY <1>1, <1>2, TimesConcat
  <2>3. Times(AllRoots(registered)', o) = 0 /\ Times(releases, o) = 0
    BY <1>1, TimesEmpty DEF NoRoots, AllRoots
  <2>4. Times(registered.natives, o) \in Nat /\ Times(registered.pairs, o) \in Nat
    BY <1>2, TimesType
  <2>5. CountIsBalanced(o) /\ Uses(Holdings(calls, entries), o) \in Nat
    BY <1>1, CountTypes DEF RegistryIInv
  <2>6. References(o)' = References(o)
    BY <1>1, <2>1, <2>2, <2>3, <2>4, <2>5 DEF References
  <2>7. QED
    BY <1>1, <2>5, <2>6 DEF CountIsBalanced
<1>6. QED
  BY <1>3, <1>4, <1>5 DEF RegistryIInv

Recounted(es, id, r) ==
  [i \in DOMAIN es |-> IF i = id THEN [value |-> es[i].value, references |-> r] ELSE es[i]]

LEMMA RecountFacts ==
  ASSUME NEW es, IsTable(es), NEW id \in DOMAIN es, NEW r \in Nat \ {0}, NEW fs, fs = Recounted(es, id, r)
  PROVE  /\ IsTable(fs) /\ DOMAIN fs = DOMAIN es
         /\ \A i \in DOMAIN es :
             /\ fs[i].value = es[i].value
             /\ fs[i].references = IF i = id THEN r ELSE es[i].references
         /\ \A x : IsLive(x, fs) <=> IsLive(x, es)
<1>1. \A i \in DOMAIN es : es[i] \in [value : RegistryOwners, references : Nat \ {0}] /\ IdOf[es[i].value] = i
  BY DEF IsTable
<1>2. DOMAIN fs = DOMAIN es /\ fs = [i \in DOMAIN fs |-> fs[i]]
  BY DEF Recounted
<1>3. \A i \in DOMAIN es \ {id} : fs[i] = es[i]
  BY DEF Recounted
<1>4. fs[id] = [value |-> es[id].value, references |-> r]
  BY DEF Recounted
<1>5. \A i \in DOMAIN es : fs[i].value = es[i].value /\ fs[i].references = IF i = id THEN r ELSE es[i].references
  BY <1>3, <1>4
<1>6. \A i \in DOMAIN fs : fs[i] \in [value : RegistryOwners, references : Nat \ {0}] /\ IdOf[fs[i].value] = i
  BY <1>1, <1>2, <1>3, <1>4
<1>7. IsTable(fs)
  BY <1>2, <1>6 DEF IsTable
<1>8. \A x : IsLive(x, fs) <=> IsLive(x, es)
  BY <1>2, <1>5 DEF IsLive
<1>9. QED
  BY <1>2, <1>5, <1>7, <1>8

LEMMA RecountIs ==
  ASSUME NEW es, IsTable(es), NEW id \in DOMAIN es
  PROVE  /\ es[id].references \in Nat \ {0} /\ es[id].references + 1 \in Nat \ {0}
         /\ [es EXCEPT ![id].references = @ + 1] = Recounted(es, id, es[id].references + 1)
         /\ [es EXCEPT ![id].references = @ - 1] = Recounted(es, id, es[id].references - 1)
<1>1. es = [i \in DOMAIN es |-> es[i]] /\ es[id].references \in Nat \ {0}
  BY DEF IsTable
<1>2. PICK v, n : es[id] = [value |-> v, references |-> n]
  BY DEF IsTable
<1>3. es[id].value = v /\ es[id].references = n
  BY <1>2
<1>4. ASSUME NEW r
      PROVE  [es EXCEPT ![id].references = r] = Recounted(es, id, r)
  <2> DEFINE f == [es EXCEPT ![id].references = r]
             g == Recounted(es, id, r)
  <2>1. DOMAIN f = DOMAIN es /\ f = [i \in DOMAIN es |-> f[i]]
    BY <1>1
  <2>2. f[id] = [value |-> v, references |-> r]
    BY <1>1, <1>2
  <2>3. \A i \in DOMAIN es : i # id => f[i] = es[i]
    BY <1>1
  <2>4. g = [i \in DOMAIN es |-> g[i]] /\ g[id] = [value |-> v, references |-> r]
        /\ \A i \in DOMAIN es : i # id => g[i] = es[i]
    BY <1>3 DEF Recounted
  <2> HIDE DEF f, g
  <2>5. \A i \in DOMAIN es : f[i] = g[i]
    BY <2>2, <2>3, <2>4
  <2>6. f = g
    BY <2>1, <2>4, <2>5
  <2>7. QED
    BY <2>6 DEF f, g
<1>5. es[id].references + 1 \in Nat \ {0}
  BY <1>1
<1>6. QED
  BY <1>1, <1>4, <1>5

LEMMA TopCall ==
  ASSUME RegistryAssumption, RegistryIInv, calls # <<>>
  PROVE  /\ Len(calls) \in 1..Len(calls) /\ Caller = calls[Len(calls)] /\ Caller \in CallRecords
         /\ Caller.owner \in Holders /\ Caller.todo \in Seq(RegistryOwners) /\ Caller.done \in Seq(RegistryOwners)
         /\ Holdings(calls, entries)[Caller.owner] = Caller.done
<1>1. calls \in Seq(CallRecords) /\ AreDistinct(calls)
  BY DEF RegistryIInv, RegistryTypeOK
<1>2. Len(calls) \in Nat /\ Len(calls) \in 1..Len(calls) /\ Len(calls) \in DOMAIN calls /\ Caller = calls[Len(calls)]
  BY <1>1 DEF Caller, Last
<1>3. Caller \in CallRecords /\ Caller.owner \in Holders /\ Caller.todo \in Seq(RegistryOwners)
      /\ Caller.done \in Seq(RegistryOwners)
  BY <1>2, CallFacts
<1>4. Holdings(calls, entries)[Caller.owner] = Caller.done
  BY <1>1, <1>2, <1>3, OnCallHolds
<1>5. QED
  BY <1>2, <1>3, <1>4

LEMMA TookFacts ==
  ASSUME NEW c \in CallRecords, c.todo # <<>>
  PROVE  /\ Took(c) \in CallRecords /\ Took(c).owner = c.owner
         /\ Took(c).done = Append(c.done, Head(c.todo)) /\ Took(c).todo = Tail(c.todo)
         /\ Took(c).done \o Took(c).todo = c.done \o c.todo
<1>1. c.owner \in Holders /\ c.todo \in Seq(RegistryOwners) /\ c.done \in Seq(RegistryOwners)
  BY DEF CallRecords
<1>2. /\ Tail(c.todo) \in Seq(RegistryOwners) /\ Append(c.done, Head(c.todo)) \in Seq(RegistryOwners)
      /\ Append(c.done, Head(c.todo)) \o Tail(c.todo) = c.done \o c.todo
  BY <1>1, TakingKeeps
<1>3. Took(c) = [owner |-> c.owner, todo |-> Tail(c.todo), done |-> Append(c.done, Head(c.todo))]
  BY DEF Took
<1> DEFINE u == Took(c)
           a == Tail(c.todo)
           b == Append(c.done, Head(c.todo))
<1> HIDE DEF u, a, b
<1>4. u = [owner |-> c.owner, todo |-> a, done |-> b] /\ a \in Seq(RegistryOwners) /\ b \in Seq(RegistryOwners)
  BY <1>2, <1>3 DEF u, a, b
<1>5. u \in CallRecords /\ u.owner = c.owner /\ u.todo = a /\ u.done = b
  BY <1>1, <1>4 DEF CallRecords
<1>6. QED
  BY <1>2, <1>5 DEF u, a, b

LEMMA RegistryAgainKeeps ==
  ASSUME RegistryAssumption, RegistryIInv, acquire_again
  PROVE  RegistryIInv'
<1> DEFINE n == Len(calls)
           c == Caller
           o == Head(c.todo)
           id == IdOf[o]
           r == entries[id].references + 1
           h == Holdings(calls, entries)
           g == Holdings(calls', entries')
<1>1. /\ calls # <<>> /\ c.todo # <<>> /\ id \in DOMAIN entries /\ entries[id].value = o
      /\ entries' = [entries EXCEPT ![id].references = @ + 1]
      /\ calls' = [calls EXCEPT ![n] = Took(@)]
      /\ UNCHANGED <<registered, asked, releases>>
  BY DEF acquire_again, Acquiring, Found
<1>2. /\ n \in 1..n /\ c = calls[n] /\ c \in CallRecords /\ c.owner \in Holders
      /\ c.done \in Seq(RegistryOwners) /\ Holdings(calls, entries)[c.owner] = c.done
  BY <1>1, TopCall
<1>3. calls \in Seq(CallRecords) /\ IsTable(entries) /\ RegistryTypeOK /\ AreDistinct(calls)
  BY DEF RegistryIInv, RegistryTypeOK
<1>4. o \in RegistryOwners /\ ~OnCall(o, calls) /\ id = IdOf[o]
  BY <1>1, <1>2, NextIsOffCall
<1>5. /\ Took(c) \in CallRecords /\ Took(c).owner = c.owner /\ Took(c).done = Append(c.done, o)
      /\ Took(c).done \o Took(c).todo = c.done \o c.todo
  BY <1>1, <1>2, TookFacts
<1> HIDE DEF c
<1>6. /\ n \in Nat /\ DOMAIN calls = 1..n /\ DOMAIN calls' = 1..n /\ calls' \in Seq(CallRecords) /\ Len(calls') = n
      /\ calls'[n] = Took(c) /\ \A i \in 1..n : i # n => calls'[i] = calls[i]
  BY SMTT(20), <1>1, <1>2, <1>3, <1>5
<1> HIDE DEF n
<1>7. \A i \in 1..n :
          /\ calls'[i].owner = calls[i].owner
          /\ calls'[i].done \o calls'[i].todo = calls[i].done \o calls[i].todo
  BY <1>2, <1>5, <1>6
<1>8. AreDistinct(calls')
  BY <1>3, <1>6, <1>7 DEF AreDistinct
<1>9. r \in Nat \ {0} /\ entries' = Recounted(entries, id, r)
  BY <1>1, <1>3, RecountIs
<1> HIDE DEF r, o, id
<1>10. /\ IsTable(entries') /\ DOMAIN entries' = DOMAIN entries
       /\ \A i \in DOMAIN entries :
            entries'[i].value = entries[i].value
            /\ entries'[i].references = IF i = id THEN r ELSE entries[i].references
       /\ \A x : IsLive(x, entries') <=> IsLive(x, entries)
  BY <1>1, <1>3, <1>9, RecountFacts
<1>11. RegistryTypeOK'
  BY <1>1, <1>3, <1>6, <1>10 DEF RegistryTypeOK
<1>12. \A x : OnCall(x, calls') <=> OnCall(x, calls)
  BY <1>6, <1>7 DEF OnCall
<1>13. g = [h EXCEPT ![c.owner] = Append(c.done, o)]
  <2>1. Holdings(calls', entries')[c.owner] = Append(c.done, o)
    BY <1>2, <1>5, <1>6, <1>8, OnCallHolds
  <2>2. ASSUME NEW p \in Holders \ {c.owner}
        PROVE  Holdings(calls', entries')[p] = Holdings(calls, entries)[p]
    <3>1. CASE OnCall(p, calls)
      <4>1. PICK i \in 1..n : calls[i].owner = p
        BY <1>6, <3>1 DEF OnCall
      <4>2. i # n
        BY <1>2, <4>1
      <4>3. QED
        BY <1>3, <1>6, <1>8, <4>1, <4>2, HoldsSame
    <3>2. CASE ~OnCall(p, calls)
      BY <1>3, <1>8, <1>10, <1>12, <3>2, HoldsSame
    <3>3. QED
      BY <3>1, <3>2
  <2>3. QED
    <3>1. g \in [Holders -> Seq(RegistryOwners)] /\ h \in [Holders -> Seq(RegistryOwners)]
      BY <1>3, <1>6, HoldingsType
    <3> HIDE DEF g, h
    <3>2. g[c.owner] = Append(c.done, o) /\ \A p \in Holders \ {c.owner} : g[p] = h[p]
      BY <2>1, <2>2 DEF g, h
    <3>3. QED
      BY <1>2, <3>1, <3>2
<1> HIDE DEF g, h
<1>14. ASSUME NEW i \in DOMAIN calls'
       PROVE  CallIsSound(i)'
  <2>1. i \in 1..n
    BY <1>6
  <2>2. AllRoots(asked)' = AllRoots(asked)
    BY <1>1
  <2>3. CASE i = 1
    BY <1>6, <1>7, <2>1, <2>2, <2>3, CallFacts DEF CallIsSound, n
  <2>4. CASE i > 1
    <3> DEFINE q == calls[i].owner
    <3>1. /\ q \in RegistryOwners /\ q # Nobody /\ i - 1 \in 1..n /\ calls[i - 1].todo # <<>>
          /\ Head(calls[i - 1].todo) = q /\ calls[i].done \o calls[i].todo = ChildrenOf[q]
          /\ IsLive(q, entries) /\ entries[IdOf[q]].references = 1
      BY <2>1, <2>4, CallFacts DEF n
    <3>2. calls'[i - 1] = calls[i - 1]
      BY <1>6, <2>1, <3>1
    <3>3. q # o
      BY <1>4, <1>6, <2>1 DEF OnCall
    <3>4. IdOf[q] # id /\ IdOf[q] \in DOMAIN entries
      BY <1>1, <3>1, <3>3 DEF IsLive
    <3>5. IsLive(q, entries') /\ entries'[IdOf[q]].references = 1
      BY <1>10, <3>1, <3>4
    <3>6. calls'[i].owner = q /\ calls'[i].done \o calls'[i].todo = ChildrenOf[q]
      BY <1>7, <2>1, <3>1
    <3>7. i # 1
      BY <2>4
    <3> HIDE DEF q
    <3>8. QED
      BY <3>1, <3>2, <3>5, <3>6, <3>7 DEF CallIsSound
  <2>5. QED
    BY <1>6, <2>1, <2>3, <2>4
<1>15. ASSUME NEW x \in RegistryOwners
       PROVE  CountIsBalanced(x)'
  <2> DEFINE one == IF o = x THEN 1 ELSE 0
  <2>1. Uses(g, x)
        = Uses(h, x) - Times(c.done, x) + Times(Append(c.done, o), x)
    <3>1. Append(c.done, o) \in Seq(RegistryOwners) /\ h \in [Holders -> Seq(RegistryOwners)]
      BY <1>2, <1>3, <1>4, CountTypes DEF h
    <3>2. QED
      <4>1. h[c.owner] = c.done
        BY <1>2 DEF h
      <4>2. /\ Uses([h EXCEPT ![c.owner] = Append(c.done, o)], x)
               = Uses(h, x) - Times(h[c.owner], x) + Times(Append(c.done, o), x)
            /\ Times(h[c.owner], x) <= Uses(h, x)
        BY <1>2, <3>1, UsesChange
      <4>3. QED
        BY <1>13, <4>1, <4>2
  <2>2. Times(Append(c.done, o), x) = Times(c.done, x) + one /\ Times(c.done, x) \in Nat
    BY <1>2, <1>4, TimesAppend, TimesType
  <2>3. Uses(h, x) \in Nat
    BY <1>3, CountTypes DEF h
  <2>4. Uses(g, x) = Uses(h, x) + one
    BY <2>1, <2>2, <2>3
  <2>5. Times(AllRoots(registered), x) \in Nat /\ Times(releases, x) \in Nat
    BY <1>3, CountTypes
  <2>6. References(x)' = References(x) + one
    <3> DEFINE on == IF OnCall(x, calls) THEN 1 ELSE 0
    <3>1. References(x) = Times(AllRoots(registered), x) + Uses(h, x) + Times(releases, x) + on
      BY DEF References, h
    <3>2. References(x)' = Times(AllRoots(registered), x) + Uses(g, x) + Times(releases, x) + on
      BY <1>1, <1>12 DEF References, AllRoots, g
    <3>3. on \in Nat /\ one \in Nat
      OBVIOUS
    <3> HIDE DEF on, one
    <3>4. QED
      BY <2>3, <2>4, <2>5, <3>1, <3>2, <3>3
  <2>7. CountIsBalanced(x)
    BY DEF RegistryIInv
  <2>8. CASE x = o
    <3>1. IsLive(x, entries) /\ IsLive(x, entries')
      BY <1>1, <1>4, <1>10, <2>8 DEF IsLive
    <3>2. entries'[IdOf[x]].references = entries[IdOf[x]].references + 1
      BY <1>1, <1>4, <1>10, <2>8 DEF r
    <3>3. QED
      BY <2>6, <2>7, <2>8, <3>1, <3>2 DEF CountIsBalanced
  <2>9. CASE x # o
    <3>1. IsLive(x, entries) => IdOf[x] # id /\ IdOf[x] \in DOMAIN entries
      BY <1>1, <2>9 DEF IsLive
    <3>2. References(x) \in Nat
      BY <2>3, <2>5 DEF References, h
    <3>3. References(x)' = References(x)
      BY <2>6, <2>9, <3>2
    <3>4. QED
      BY <1>10, <2>7, <3>1, <3>3 DEF CountIsBalanced
  <2>10. QED
    BY <2>8, <2>9
<1>16. QED
  BY <1>8, <1>11, <1>14, <1>15 DEF RegistryIInv

\* What is counted, apart: one term of each kind.
LEMMA ReferencesAre ==
  ASSUME RegistryAssumption, RegistryIInv, NEW x
  PROVE  /\ References(x) = Times(AllRoots(registered), x) + Uses(Holdings(calls, entries), x) + Times(releases, x)
                            + (IF OnCall(x, calls) THEN 1 ELSE 0)
         /\ Times(AllRoots(registered), x) \in Nat /\ Times(AllRoots(asked), x) \in Nat
         /\ Times(releases, x) \in Nat /\ Uses(Holdings(calls, entries), x) \in Nat
         /\ (IF OnCall(x, calls) THEN 1 ELSE 0) \in Nat
         /\ x \in RegistryOwners => CountIsBalanced(x)
<1>1. RegistryTypeOK
  BY DEF RegistryIInv
<1>2. Times(AllRoots(registered), x) \in Nat /\ Times(AllRoots(asked), x) \in Nat
      /\ Times(releases, x) \in Nat /\ Uses(Holdings(calls, entries), x) \in Nat
  BY <1>1, CountTypes
<1>3. QED
  BY <1>2 DEF References, RegistryIInv

LEMMA RegistryInsertKeeps ==
  ASSUME RegistryAssumption, RegistryIInv, insert
  PROVE  RegistryIInv'
<1> DEFINE n == Len(calls)
           c == Caller
           o == Head(c.todo)
           id == IdOf[o]
           d == Call(o, ChildrenOf[o])
           h == Holdings(calls, entries)
           g == Holdings(calls', entries')
<1>1. /\ calls # <<>> /\ c.todo # <<>> /\ id \notin DOMAIN entries
      /\ entries' = Entered(o) /\ calls' = Append(calls, d)
      /\ UNCHANGED <<registered, asked, releases>>
  BY DEF insert, Acquiring, Found
<1>2. /\ n \in 1..n /\ c = calls[n] /\ c \in CallRecords
  BY <1>1, TopCall
<1>3. calls \in Seq(CallRecords) /\ IsTable(entries) /\ RegistryTypeOK /\ AreDistinct(calls)
  BY DEF RegistryIInv, RegistryTypeOK
<1>4. o \in RegistryOwners /\ ~OnCall(o, calls) /\ id = IdOf[o] /\ o = Head(c.todo)
  BY <1>1, <1>2, NextIsOffCall
<1>5. /\ ChildrenOf[o] \in Seq(RegistryOwners) /\ o \in Holders
      /\ d.owner = o /\ d.done = <<>> /\ d.todo = ChildrenOf[o]
  BY <1>4, HoldersFinite DEF Call, RegistryAssumption
<1>6. d \in CallRecords /\ d.done \o d.todo = ChildrenOf[o]
  BY <1>5 DEF Call, CallRecords
<1> HIDE DEF c, o, id, d
<1>7. /\ n \in Nat /\ DOMAIN calls = 1..n /\ DOMAIN calls' = 1..(n + 1) /\ calls' \in Seq(CallRecords)
      /\ Len(calls') = n + 1
      /\ calls'[n + 1] = d /\ \A i \in 1..n : calls'[i] = calls[i]
  BY <1>1, <1>3, <1>6
<1> HIDE DEF n
<1>8. AreDistinct(calls')
  <2>1. \A i \in 1..n : calls[i].owner # o
    BY <1>4, <1>7 DEF OnCall
  <2> SUFFICES ASSUME NEW i \in 1..(n + 1), NEW j \in 1..(n + 1), calls'[i].owner = calls'[j].owner
      PROVE  i = j
    BY <1>7 DEF AreDistinct
  <2>2. (i \in 1..n \/ i = n + 1) /\ (j \in 1..n \/ j = n + 1)
    BY <1>7
  <2>3. QED
    BY <1>3, <1>5, <1>7, <2>1, <2>2 DEF AreDistinct
<1>9. /\ entries' = [i \in DOMAIN entries' |-> entries'[i]] /\ DOMAIN entries' = DOMAIN entries \cup {id}
      /\ entries'[id] = [value |-> o, references |-> 1]
      /\ \A i \in DOMAIN entries : entries'[i] = entries[i]
  BY <1>1, <1>4 DEF Entered
<1>10. IsTable(entries')
  BY <1>3, <1>4, <1>9 DEF IsTable
<1>11. \A x : IsLive(x, entries') <=> x = o \/ IsLive(x, entries)
  BY <1>1, <1>4, <1>9 DEF IsLive
<1>12. ~IsLive(o, entries) /\ IsLive(o, entries')
  BY <1>1, <1>4, <1>11 DEF IsLive
<1>13. RegistryTypeOK'
  BY <1>1, <1>3, <1>7, <1>10 DEF RegistryTypeOK
<1>14. \A x : OnCall(x, calls') <=> x = o \/ OnCall(x, calls)
  <2>1. ASSUME NEW x, OnCall(x, calls) PROVE OnCall(x, calls')
    BY <1>7, <2>1 DEF OnCall
  <2>2. OnCall(o, calls')
    BY <1>5, <1>7 DEF OnCall
  <2>3. ASSUME NEW x, x # o, OnCall(x, calls') PROVE OnCall(x, calls)
    <3>1. PICK i \in 1..(n + 1) : calls'[i].owner = x
      BY <1>7, <2>3 DEF OnCall
    <3>2. i \in 1..n
      BY <1>5, <1>7, <2>3, <3>1
    <3>3. QED
      BY <1>7, <3>1, <3>2 DEF OnCall
  <2>4. QED
    BY <2>1, <2>2, <2>3
<1>15. g = h
  <2>1. g[o] = <<>>
    BY <1>5, <1>7, <1>8, OnCallHolds
  <2>2. h[o] = <<>>
    BY <1>4, <1>5, <1>12, OffCallHolds
  <2>3. ASSUME NEW p \in Holders \ {o}
        PROVE  g[p] = h[p]
    <3>1. CASE OnCall(p, calls)
      <4>1. PICK i \in 1..n : calls[i].owner = p
        BY <1>7, <3>1 DEF OnCall
      <4>2. i \in DOMAIN calls /\ i \in DOMAIN calls' /\ calls'[i] = calls[i]
        BY <1>7
      <4>3. QED
        BY <1>3, <1>8, <4>1, <4>2, HoldsSame
    <3>2. CASE ~OnCall(p, calls)
      BY <1>3, <1>8, <1>11, <1>14, <3>2, HoldsSame
    <3>3. QED
      BY <3>1, <3>2
  <2>4. g \in [Holders -> Seq(RegistryOwners)] /\ h \in [Holders -> Seq(RegistryOwners)]
    BY <1>3, <1>7, HoldingsType
  <2> HIDE DEF g, h
  <2>5. \A p \in Holders : g[p] = h[p]
    BY <2>1, <2>2, <2>3
  <2>6. QED
    BY <2>4, <2>5
<1> HIDE DEF g, h
<1>16. ASSUME NEW i \in DOMAIN calls'
       PROVE  CallIsSound(i)'
  <2>1. i \in 1..n \/ i = n + 1
    BY <1>7
  <2>2. AllRoots(asked)' = AllRoots(asked)
    BY <1>1 DEF AllRoots
  <2>3. CASE i = 1
    <3>1. i \in 1..n
      BY <1>2, <2>3
    <3>2. calls'[i].owner = Nobody /\ calls'[i].done \o calls'[i].todo = AllRoots(asked)'
      BY <1>7, <2>2, <2>3, <3>1, CallFacts DEF n
    <3>3. QED
      BY <2>3, <3>2 DEF CallIsSound
  <2>4. CASE i \in 1..n /\ i > 1
    <3> DEFINE q == calls[i].owner
    <3>1. /\ q \in RegistryOwners /\ q # Nobody /\ i - 1 \in 1..n /\ calls[i - 1].todo # <<>>
          /\ Head(calls[i - 1].todo) = q /\ calls[i].done \o calls[i].todo = ChildrenOf[q]
          /\ IsLive(q, entries) /\ entries[IdOf[q]].references = 1
      BY <2>4, CallFacts DEF n
    <3>2. calls'[i - 1] = calls[i - 1] /\ calls'[i] = calls[i] /\ i # 1
      BY <1>7, <2>4, <3>1
    <3>3. IsLive(q, entries') /\ entries'[IdOf[q]].references = 1
      BY <1>9, <1>11, <3>1 DEF IsLive
    <3>4. calls'[i].owner = q /\ calls'[i].done \o calls'[i].todo = ChildrenOf[q]
      BY <3>1, <3>2
    <3> HIDE DEF q
    <3>5. QED
      BY <3>1, <3>2, <3>3, <3>4 DEF CallIsSound
  <2>5. CASE i = n + 1
    <3>1. calls'[i] = d /\ calls'[i - 1] = c /\ i # 1 /\ i > 1
      BY <1>2, <1>7, <2>5
    <3>2. calls'[i].owner = o /\ calls'[i].done \o calls'[i].todo = ChildrenOf[o] /\ o # Nobody
      BY <1>4, <1>5, <1>6, <3>1 DEF RegistryAssumption
    <3>3. entries'[IdOf[o]].references = 1
      BY <1>4, <1>9
    <3>4. calls'[i - 1].todo # <<>> /\ Head(calls'[i - 1].todo) = o
      BY <1>1, <1>4, <3>1
    <3>5. QED
      BY <1>12, <3>1, <3>2, <3>3, <3>4 DEF CallIsSound
  <2>6. QED
    BY <1>7, <2>1, <2>3, <2>4, <2>5
<1>17. ASSUME NEW x \in RegistryOwners
       PROVE  CountIsBalanced(x)'
  <2>1. AllRoots(registered)' = AllRoots(registered) /\ releases' = releases
    BY <1>1 DEF AllRoots
  <2>2. References(x)' = Times(AllRoots(registered), x) + Uses(h, x) + Times(releases, x)
                         + (IF x = o \/ OnCall(x, calls) THEN 1 ELSE 0)
    BY <1>14, <1>15, <2>1 DEF References, g
  <2>3. /\ References(x) = Times(AllRoots(registered), x) + Uses(h, x) + Times(releases, x)
                           + (IF OnCall(x, calls) THEN 1 ELSE 0)
        /\ Times(AllRoots(registered), x) \in Nat /\ Uses(h, x) \in Nat /\ Times(releases, x) \in Nat
        /\ CountIsBalanced(x)
    BY ReferencesAre DEF h
  <2>4. CASE x = o
    <3>1. References(x) = 0
      BY <1>12, <2>3, <2>4 DEF CountIsBalanced
    <3>2. References(x)' = References(x) + 1
      BY <1>4, <2>2, <2>3, <2>4
    <3>3. IsLive(x, entries') /\ entries'[IdOf[x]].references = 1
      BY <1>4, <1>9, <1>12, <2>4
    <3>4. QED
      BY <3>1, <3>2, <3>3 DEF CountIsBalanced
  <2>5. CASE x # o
    <3>1. References(x)' = References(x)
      BY <2>2, <2>3, <2>5
    <3>2. IsLive(x, entries) => entries'[IdOf[x]] = entries[IdOf[x]]
      BY <1>9 DEF IsLive
    <3>3. QED
      BY <1>11, <2>3, <2>5, <3>1, <3>2 DEF CountIsBalanced
  <2>6. QED
    BY <2>4, <2>5
<1>18. QED
  BY <1>8, <1>13, <1>16, <1>17 DEF RegistryIInv

LEMMA FrontFacts ==
  ASSUME NEW S, NEW s \in Seq(S), s # <<>>
  PROVE  Front(s) \in Seq(S) /\ Len(Front(s)) = Len(s) - 1 /\ \A i \in 1..(Len(s) - 1) : Front(s)[i] = s[i]
<1>1. Len(s) \in Nat /\ Len(s) > 0
  OBVIOUS
<1>2. /\ 1 \in 1..(Len(s) + 1) /\ Len(s) - 1 \in 0..Len(s) /\ Len(s) - 1 \in Nat
      /\ \A i \in 1..(Len(s) - 1) : i \in 1..Len(s)
  BY <1>1
<1>3. SubSeq(s, 1, Len(s) - 1) = [i \in 1..(Len(s) - 1) |-> s[i]]
  <2>1. SubSeq(s, 1, Len(s) - 1) = [i \in 1..((1 + (Len(s) - 1)) - 1) |-> s[(i + 1) - 1]]
    BY <1>1, <1>2
  <2>2. (1 + (Len(s) - 1)) - 1 = Len(s) - 1 /\ \A i \in 1..(Len(s) - 1) : (i + 1) - 1 = i
    BY <1>1
  <2>3. QED
    BY <2>1, <2>2
<1> DEFINE f == [i \in 1..(Len(s) - 1) |-> s[i]]
<1>4. f \in Seq(S) /\ Len(f) = Len(s) - 1 /\ \A i \in 1..(Len(s) - 1) : f[i] = s[i]
  BY <1>1, <1>2
<1> QED
  BY <1>3, <1>4 DEF Front

LEMMA RegistryReturnsKeeps ==
  ASSUME RegistryAssumption, RegistryIInv, acquire_returns
  PROVE  RegistryIInv'
<1> DEFINE n == Len(calls)
           m == n - 1
           c == Caller
           b == calls[m]
           o == c.owner
           h == Holdings(calls, entries)
           g == Holdings(calls', entries')
           s == Append(b.done, o)
<1>1. /\ calls # <<>> /\ c.todo = <<>> /\ n > 1
      /\ calls' = [Front(calls) EXCEPT ![m] = Took(@)]
      /\ UNCHANGED <<entries, registered, asked, releases>>
  BY DEF acquire_returns, Acquiring
<1>2. /\ n \in 1..n /\ n \in Nat /\ c = calls[n] /\ c \in CallRecords /\ h[o] = c.done
      /\ c.done \in Seq(RegistryOwners)
  BY <1>1, TopCall, CallFacts
<1>3. calls \in Seq(CallRecords) /\ RegistryTypeOK /\ AreDistinct(calls)
  BY DEF RegistryIInv, RegistryTypeOK
<1>4. m \in 1..n /\ m \in Nat /\ m # n /\ n = m + 1
  BY <1>1, <1>2
<1>5. /\ b \in CallRecords /\ b.owner \in Holders /\ b.todo \in Seq(RegistryOwners) /\ b.done \in Seq(RegistryOwners)
      /\ b.todo # <<>> /\ Head(b.todo) = o /\ o \in RegistryOwners /\ o # Nobody
      /\ c.done \o c.todo = ChildrenOf[o] /\ IsLive(o, entries)
  BY <1>1, <1>2, <1>4, CallFacts
<1>6. c.done = ChildrenOf[o] /\ o \in Holders
  BY <1>1, <1>2, <1>5, HoldersFinite
<1>7. /\ Took(b) \in CallRecords /\ Took(b).owner = b.owner /\ Took(b).done = s
      /\ Took(b).done \o Took(b).todo = b.done \o b.todo
  BY <1>5, TookFacts
<1>8. h[b.owner] = b.done /\ b.owner # o
  <2>1. m \in DOMAIN calls /\ n \in DOMAIN calls
    BY <1>2, <1>4, CallFacts
  <2>2. h[b.owner] = b.done
    BY <1>3, <1>5, <2>1, OnCallHolds
  <2>3. calls[m].owner = calls[n].owner => m = n
    BY <1>3, <2>1 DEF AreDistinct
  <2>4. QED
    BY <1>2, <1>4, <2>2, <2>3
<1> HIDE DEF c
<1>9. /\ DOMAIN calls = 1..n /\ DOMAIN calls' = 1..m /\ calls' \in Seq(CallRecords) /\ Len(calls') = m
      /\ calls'[m] = Took(b) /\ \A i \in 1..m : i # m => calls'[i] = calls[i]
  <2> DEFINE f == Front(calls)
  <2>1. f \in Seq(CallRecords) /\ Len(f) = m /\ \A i \in 1..m : f[i] = calls[i]
    BY <1>1, <1>3, <1>4, FrontFacts
  <2>2. calls' = [f EXCEPT ![m] = Took(f[m])]
    BY <1>1
  <2> HIDE DEF f
  <2> HIDE DEF n
  <2>7. m \in 1..m
    BY <1>1, <1>4
  <2>3. f[m] = b /\ m \in 1..m
    BY <2>1, <2>7
  <2> HIDE DEF b, m
  <2>4. /\ DOMAIN calls' = 1..m /\ calls' \in Seq(CallRecords) /\ Len(calls') = m
        /\ calls'[m] = Took(b) /\ \A i \in 1..m : i # m => calls'[i] = f[i]
    BY <1>7, <2>1, <2>2, <2>3
  <2>5. DOMAIN calls = 1..n
    BY <1>3 DEF n
  <2>6. QED
    BY <2>1, <2>4, <2>5
<1> HIDE DEF n, m, b, o, s
<1>10. \A i \in 1..m : i \in 1..n
  BY <1>4
<1>11. \A i \in 1..m :
           /\ calls'[i].owner = calls[i].owner
           /\ calls'[i].done \o calls'[i].todo = calls[i].done \o calls[i].todo
  BY <1>7, <1>9 DEF b
<1>12. AreDistinct(calls')
  BY <1>3, <1>9, <1>10, <1>11 DEF AreDistinct
<1>13. RegistryTypeOK'
  BY <1>1, <1>3, <1>9 DEF RegistryTypeOK
<1>14. calls[m].owner = b.owner /\ calls[n].owner = o
  BY <1>2 DEF b, o
<1>15. \A x : OnCall(x, calls') <=> x # o /\ OnCall(x, calls)
  <2>1. ASSUME NEW x, OnCall(x, calls') PROVE x # o /\ OnCall(x, calls)
    <3>1. PICK i \in 1..m : calls[i].owner = x
      BY <1>9, <1>11, <2>1 DEF OnCall
    <3>2. i # n /\ i \in 1..n /\ n \in 1..n
      BY <1>2, <1>4, <3>1
    <3>3. QED
      BY <1>3, <1>9, <1>14, <3>1, <3>2 DEF OnCall, AreDistinct
  <2>2. ASSUME NEW x, x # o, OnCall(x, calls) PROVE OnCall(x, calls')
    <3>1. PICK i \in 1..n : calls[i].owner = x
      BY <1>9, <2>2 DEF OnCall
    <3>2. i \in 1..m
      BY <1>4, <1>14, <2>2, <3>1
    <3>3. QED
      BY <1>9, <1>11, <3>1, <3>2 DEF OnCall
  <2>3. QED
    BY <2>1, <2>2
<1>16. g = [h EXCEPT ![b.owner] = s]
  <2>1. m \in DOMAIN calls' /\ calls'[m].owner = b.owner /\ calls'[m].done = s
    BY <1>1, <1>4, <1>7, <1>9
  <2>2. g[b.owner] = s
    BY <1>5, <1>12, <2>1, OnCallHolds
  <2>3. g[o] = h[o]
    <3>1. ~OnCall(o, calls') /\ IsLive(o, entries')
      BY <1>1, <1>5, <1>15
    <3>2. g[o] = ChildrenOf[o]
      BY <1>6, <3>1, OffCallHolds
    <3>3. QED
      BY <1>2, <1>6, <3>2
  <2>4. ASSUME NEW p \in Holders, p # o, p # b.owner
        PROVE  g[p] = h[p]
    <3>1. CASE OnCall(p, calls)
      <4>1. PICK i \in 1..n : calls[i].owner = p
        BY <1>9, <3>1 DEF OnCall
      <4>2. i \in 1..m /\ i # m
        BY <1>4, <1>14, <2>4, <4>1
      <4>3. i \in DOMAIN calls /\ i \in DOMAIN calls' /\ calls'[i] = calls[i]
        BY <1>9, <4>1, <4>2
      <4>4. QED
        BY <1>3, <1>12, <4>1, <4>3, HoldsSame
    <3>2. CASE ~OnCall(p, calls)
      <4>1. ~OnCall(p, calls') /\ (IsLive(p, entries') <=> IsLive(p, entries))
        BY <1>1, <1>15, <3>2
      <4>2. QED
        BY <1>3, <1>12, <3>2, <4>1, HoldsSame
    <3>3. QED
      BY <3>1, <3>2
  <2>5. g \in [Holders -> Seq(RegistryOwners)] /\ h \in [Holders -> Seq(RegistryOwners)]
    BY <1>3, <1>9, HoldingsType
  <2> HIDE DEF g, h
  <2>6. \A p \in Holders : p # b.owner => g[p] = h[p]
    BY <2>3, <2>4
  <2>7. QED
    BY <1>5, <2>2, <2>5, <2>6
<1>17. h \in [Holders -> Seq(RegistryOwners)]
  BY <1>3, CountTypes
<1> HIDE DEF g, h
<1>18. ASSUME NEW i \in DOMAIN calls'
       PROVE  CallIsSound(i)'
  <2>1. i \in 1..m /\ i \in 1..n
    BY <1>9, <1>10
  <2>2. AllRoots(asked)' = AllRoots(asked)
    BY <1>1 DEF AllRoots
  <2>3. CASE i = 1
    <3>1. calls'[i].owner = Nobody /\ calls'[i].done \o calls'[i].todo = AllRoots(asked)'
      BY <1>11, <2>1, <2>2, <2>3, CallFacts DEF n
    <3>2. QED
      BY <2>3, <3>1 DEF CallIsSound
  <2>4. CASE i > 1
    <3> DEFINE q == calls[i].owner
    <3>1. /\ q \in RegistryOwners /\ q # Nobody /\ i - 1 \in 1..n /\ calls[i - 1].todo # <<>>
          /\ Head(calls[i - 1].todo) = q /\ calls[i].done \o calls[i].todo = ChildrenOf[q]
          /\ IsLive(q, entries) /\ entries[IdOf[q]].references = 1
      BY <2>1, <2>4, CallFacts DEF n
    <3>2. calls'[i - 1] = calls[i - 1] /\ i # 1
      BY <1>4, <1>9, <2>1, <2>4
    <3>3. calls'[i].owner = q /\ calls'[i].done \o calls'[i].todo = ChildrenOf[q]
      BY <1>11, <2>1, <3>1
    <3>4. IsLive(q, entries') /\ entries'[IdOf[q]].references = 1
      BY <1>1, <3>1
    <3> HIDE DEF q
    <3>5. QED
      BY <3>1, <3>2, <3>3, <3>4 DEF CallIsSound
  <2>5. QED
    BY <1>4, <2>1, <2>3, <2>4
<1>19. ASSUME NEW x \in RegistryOwners
       PROVE  CountIsBalanced(x)'
  <2> DEFINE one == IF o = x THEN 1 ELSE 0
             on == IF OnCall(x, calls) THEN 1 ELSE 0
             off == IF x # o /\ OnCall(x, calls) THEN 1 ELSE 0
  <2>1. AllRoots(registered)' = AllRoots(registered) /\ releases' = releases /\ entries' = entries
    BY <1>1 DEF AllRoots
  <2>2. References(x)' = Times(AllRoots(registered), x) + Uses(g, x) + Times(releases, x) + off
    BY <1>15, <2>1 DEF References, g
  <2>3. /\ References(x) = Times(AllRoots(registered), x) + Uses(h, x) + Times(releases, x) + on
        /\ Times(AllRoots(registered), x) \in Nat /\ Uses(h, x) \in Nat /\ Times(releases, x) \in Nat
        /\ CountIsBalanced(x)
    BY ReferencesAre DEF h
  <2>4. Uses(g, x) = Uses(h, x) + one
    <3>1. s \in Seq(RegistryOwners)
      BY <1>5 DEF s
    <3>2. /\ Uses([h EXCEPT ![b.owner] = s], x) = Uses(h, x) - Times(h[b.owner], x) + Times(s, x)
          /\ Times(h[b.owner], x) <= Uses(h, x)
      BY <1>5, <1>17, <3>1, UsesChange
    <3>3. Times(s, x) = Times(b.done, x) + one /\ Times(b.done, x) \in Nat
      BY <1>5, TimesAppend, TimesType DEF s
    <3>4. QED
      BY <1>8, <1>16, <2>3, <3>2, <3>3
  <2>5. OnCall(o, calls)
    BY <1>2, <1>9, <1>14 DEF OnCall
  <2>6. on = off + one /\ off \in Nat /\ one \in Nat
    BY <2>5
  <2> HIDE DEF on, off, one
  <2>7. References(x)' = References(x)
    BY <2>2, <2>3, <2>4, <2>6
  <2>8. QED
    BY <2>1, <2>3, <2>7 DEF CountIsBalanced
<1>20. QED
  BY <1>12, <1>13, <1>18, <1>19 DEF RegistryIInv

LEMMA RegistryReplacedKeeps ==
  ASSUME RegistryAssumption, RegistryIInv, replace_returns
  PROVE  RegistryIInv'
<1> DEFINE c == Caller
           h == Holdings(calls, entries)
           g == Holdings(calls', entries')
<1>1. /\ calls # <<>> /\ c.todo = <<>> /\ Len(calls) = 1 /\ releases = <<>>
      /\ registered' = asked /\ releases' = registered.natives \o registered.pairs /\ calls' = <<>>
      /\ UNCHANGED <<entries, asked>> /\ RegistryTypeOK
  BY DEF replace_returns, Acquiring, RegistryIInv
<1>2. registered.natives \in Seq(RegistryOwners) /\ registered.pairs \in Seq(RegistryOwners)
  BY <1>1 DEF RegistryTypeOK
<1>3. RegistryTypeOK'
  BY <1>1, <1>2 DEF RegistryTypeOK
<1>4. AreDistinct(calls') /\ \A i \in DOMAIN calls' : CallIsSound(i)'
  BY <1>1 DEF AreDistinct
<1>5. c = calls[1] /\ h[c.owner] = c.done /\ c.done \in Seq(RegistryOwners)
  BY <1>1, TopCall
<1>6. c.owner = Nobody /\ c.done \o c.todo = AllRoots(asked) /\ DOMAIN calls = {1}
  <2>1. 1 \in 1..Len(calls) /\ 1..Len(calls) = {1}
    BY <1>1
  <2>2. QED
    BY <1>5, <2>1, CallFacts
<1>7. c.done = AllRoots(asked)
  BY <1>1, <1>5, <1>6
<1> HIDE DEF c
<1>8. \A x \in Holders : x # Nobody => ~OnCall(x, calls)
  BY <1>5, <1>6 DEF OnCall
<1>9. \A x : ~OnCall(x, calls')
  BY <1>1 DEF OnCall
<1>10. g = [h EXCEPT ![Nobody] = <<>>]
  <2>1. g[Nobody] = <<>>
    <3>1. ~IsLive(Nobody, entries')
      BY DEF IsLive, RegistryAssumption
    <3>2. QED
      BY <1>9, <3>1, HoldersFinite, OffCallHolds
  <2>2. \A p \in Holders : p # Nobody => g[p] = h[p]
    BY <1>1, <1>8, <1>9, OffCallHolds
  <2>3. calls \in Seq(CallRecords) /\ calls' \in Seq(CallRecords)
    BY <1>1, <1>3 DEF RegistryTypeOK
  <2>4. g \in [Holders -> Seq(RegistryOwners)] /\ h \in [Holders -> Seq(RegistryOwners)]
    BY <2>3, HoldingsType
  <2> HIDE DEF g, h
  <2>5. QED
    BY <2>1, <2>2, <2>4, HoldersFinite
<1>11. h \in [Holders -> Seq(RegistryOwners)]
  BY <1>1, CountTypes
<1> HIDE DEF g, h
<1>12. ASSUME NEW x \in RegistryOwners
       PROVE  CountIsBalanced(x)'
  <2>1. Times(AllRoots(registered), x) = Times(registered.pairs, x) + Times(registered.natives, x)
    BY <1>2, TimesConcat DEF AllRoots
  <2>2. Times(releases', x) = Times(registered.natives, x) + Times(registered.pairs, x)
    BY <1>1, <1>2, TimesConcat
  <2>3. Times(registered.natives, x) \in Nat /\ Times(registered.pairs, x) \in Nat /\ Times(releases, x) = 0
    BY <1>1, <1>2, TimesType, TimesEmpty
  <2>4. ~OnCall(x, calls) /\ ~OnCall(x, calls') /\ AllRoots(registered)' = AllRoots(asked)
    BY <1>1, <1>8, <1>9, HoldersFinite DEF RegistryAssumption, AllRoots
  <2>5. References(x)' = Times(AllRoots(asked), x) + Uses(g, x) + Times(releases', x)
    <3>1. calls' \in Seq(CallRecords)
      BY <1>3 DEF RegistryTypeOK
    <3>2. g \in [Holders -> Seq(RegistryOwners)]
      BY <3>1, HoldingsType DEF g
    <3>3. Uses(g, x) \in Nat /\ Times(releases', x) \in Nat
      BY <2>2, <2>3, <3>2, UsesFacts
    <3>4. References(x)' = Times(AllRoots(registered)', x) + Uses(g, x) + Times(releases', x)
                           + (IF OnCall(x, calls') THEN 1 ELSE 0)
      BY DEF References, g
    <3>5. Times(AllRoots(asked), x) \in Nat
      BY ReferencesAre
    <3>6. QED
      BY <2>4, <3>3, <3>4, <3>5
  <2>6. /\ References(x) = Times(AllRoots(registered), x) + Uses(h, x) + Times(releases, x)
        /\ Uses(h, x) \in Nat /\ Times(AllRoots(asked), x) \in Nat /\ CountIsBalanced(x)
    BY <2>3, <2>4, ReferencesAre DEF h
  <2>7. /\ Uses([h EXCEPT ![Nobody] = <<>>], x) = Uses(h, x) - Times(h[Nobody], x) + Times(<<>>, x)
        /\ Times(h[Nobody], x) <= Uses(h, x)
    <3>1. <<>> \in Seq(RegistryOwners) /\ Nobody \in Holders
      BY HoldersFinite
    <3>2. QED
      BY <1>11, <3>1, UsesChange
  <2>8. Uses(g, x) = Uses(h, x) - Times(AllRoots(asked), x)
    BY <1>5, <1>6, <1>7, <1>10, <2>6, <2>7, TimesEmpty
  <2>9. References(x)' = References(x)
    BY <2>1, <2>2, <2>3, <2>5, <2>6, <2>8
  <2>10. QED
    BY <1>1, <2>6, <2>9 DEF CountIsBalanced
<1>13. QED
  BY <1>3, <1>4, <1>12 DEF RegistryIInv

LEMMA ErasedFacts ==
  ASSUME IsTable(entries), NEW q, IsLive(q, entries), NEW fs, fs = Erased(IdOf[q])
  PROVE  /\ IsTable(fs)
         /\ \A x : IsLive(x, fs) <=> x # q /\ IsLive(x, entries)
         /\ \A x : IsLive(x, fs) => fs[IdOf[x]] = entries[IdOf[x]]
<1> DEFINE id == IdOf[q]
<1>1. id \in DOMAIN entries /\ entries[id].value = q
  BY DEF IsLive
<1>2. DOMAIN fs = DOMAIN entries \ {id} /\ fs = [i \in DOMAIN fs |-> fs[i]] /\ \A i \in DOMAIN fs : fs[i] = entries[i]
  BY DEF Erased
<1>3. IsTable(fs)
  BY <1>2 DEF IsTable
<1>4. \A x : IsLive(x, fs) => x # q /\ IsLive(x, entries) /\ fs[IdOf[x]] = entries[IdOf[x]]
  BY <1>2 DEF IsLive
<1>5. ASSUME NEW x, x # q, IsLive(x, entries)
      PROVE  IsLive(x, fs)
  <2>1. IdOf[x] # id
    BY <1>1, <1>5 DEF IsLive
  <2> HIDE DEF id
  <2>2. QED
    BY <1>2, <1>5, <2>1 DEF IsLive
<1>6. QED
  BY <1>3, <1>4, <1>5

LEMMA RegistryRollbackKeeps ==
  ASSUME RegistryAssumption, RegistryIInv, rollback
  PROVE  RegistryIInv'
<1> DEFINE n == Len(calls)
           m == n - 1
           c == Caller
           o == c.owner
           h == Holdings(calls, entries)
           g == Holdings(calls', entries')
<1>1. /\ calls # <<>> /\ releases = <<>>
      /\ entries' = IF o = Nobody THEN entries ELSE Erased(IdOf[o])
      /\ releases' = Reverse(c.done) /\ calls' = Front(calls)
      /\ UNCHANGED <<registered, asked>>
  BY DEF rollback, RolledBack
<1>2. /\ n \in 1..n /\ n \in Nat /\ DOMAIN calls = 1..n /\ c = calls[n] /\ o \in Holders
      /\ h[o] = c.done /\ c.done \in Seq(RegistryOwners)
  BY <1>1, TopCall, CallFacts
<1>3. calls \in Seq(CallRecords) /\ RegistryTypeOK /\ AreDistinct(calls) /\ IsTable(entries)
  BY DEF RegistryIInv, RegistryTypeOK
<1>4. o # Nobody => o \in RegistryOwners /\ IsLive(o, entries) /\ entries[IdOf[o]].references = 1
  <2>1. n = 1 => o = Nobody
    BY <1>2, CallFacts
  <2>2. n > 1 => o \in RegistryOwners /\ IsLive(o, entries) /\ entries[IdOf[o]].references = 1
    BY <1>2, CallFacts
  <2> HIDE DEF n
  <2>3. n = 1 \/ n > 1
    BY <1>2
  <2>4. QED
    BY <2>1, <2>2, <2>3
<1> HIDE DEF c
<1>5. /\ IsTable(entries')
      /\ \A x \in RegistryOwners : IsLive(x, entries') <=> x # o /\ IsLive(x, entries)
      /\ \A x : IsLive(x, entries') => entries'[IdOf[x]] = entries[IdOf[x]]
  <2>1. CASE o = Nobody
    BY <1>1, <1>3, <2>1 DEF RegistryAssumption
  <2>2. CASE o # Nobody
    <3> HIDE DEF o
    <3>1. entries' = Erased(IdOf[o]) /\ IsLive(o, entries)
      BY <1>1, <1>4, <2>2
    <3>2. /\ IsTable(entries')
          /\ \A x : IsLive(x, entries') <=> x # o /\ IsLive(x, entries)
          /\ \A x : IsLive(x, entries') => entries'[IdOf[x]] = entries[IdOf[x]]
      BY <1>3, <3>1, ErasedFacts
    <3>3. QED
      BY <3>2
  <2>3. QED
    BY <2>1, <2>2
<1>6. /\ DOMAIN calls' = 1..m /\ calls' \in Seq(CallRecords) /\ m \in Nat
      /\ \A i \in 1..m : calls'[i] = calls[i] /\ i \in 1..n /\ i # n
  <2>1. calls' \in Seq(CallRecords) /\ Len(calls') = m /\ \A i \in 1..m : calls'[i] = calls[i]
    BY <1>1, <1>3, FrontFacts
  <2> HIDE DEF n
  <2>2. m \in Nat /\ \A i \in 1..m : i \in 1..n /\ i # n
    BY <1>2
  <2>3. DOMAIN calls' = 1..m
    BY <2>1, <2>2
  <2>4. QED
    BY <2>1, <2>2, <2>3
<1>7. \A i \in 1..n : i # n => i \in 1..m
  <2> HIDE DEF n
  <2>1. QED
    BY <1>2
<1> HIDE DEF n, m
<1>8. AreDistinct(calls')
  BY <1>2, <1>3, <1>6 DEF AreDistinct
<1>9. Reverse(c.done) \in Seq(RegistryOwners)
      /\ \A x : Times(Reverse(c.done), x) = Times(c.done, x) /\ Times(c.done, x) \in Nat
  BY <1>2, TimesReverse, TimesType
<1>10. RegistryTypeOK'
  BY <1>1, <1>3, <1>5, <1>6, <1>9 DEF RegistryTypeOK
<1>11. \A i \in 1..m : calls[i].owner # o
  BY <1>2, <1>3, <1>6 DEF AreDistinct
<1>12. \A x : OnCall(x, calls') <=> x # o /\ OnCall(x, calls)
  <2>1. ASSUME NEW x, OnCall(x, calls') PROVE x # o /\ OnCall(x, calls)
    BY <1>2, <1>6, <1>11, <2>1 DEF OnCall
  <2>2. ASSUME NEW x, x # o, OnCall(x, calls) PROVE OnCall(x, calls')
    <3>1. PICK i \in 1..n : calls[i].owner = x
      BY <1>2, <2>2 DEF OnCall
    <3>2. i \in 1..m
      BY <1>2, <1>7, <2>2, <3>1
    <3>3. QED
      BY <1>6, <3>1, <3>2 DEF OnCall
  <2>3. QED
    BY <2>1, <2>2
<1>13. ~IsLive(o, entries') /\ OnCall(o, calls)
  <2>1. ~IsLive(o, entries')
    BY <1>4, <1>5 DEF IsLive, RegistryAssumption
  <2>2. QED
    BY <1>2, <2>1 DEF OnCall
<1> HIDE DEF o
<1>14. g = [h EXCEPT ![o] = <<>>]
  <2>1. g[o] = <<>>
    BY <1>2, <1>12, <1>13, OffCallHolds
  <2>2. ASSUME NEW p \in Holders, p # o
        PROVE  g[p] = h[p]
    <3>1. CASE OnCall(p, calls)
      <4>1. PICK i \in 1..m : calls'[i].owner = p
        BY <1>6, <1>12, <2>2, <3>1 DEF OnCall
      <4>2. i \in DOMAIN calls /\ i \in DOMAIN calls' /\ calls'[i] = calls[i]
        BY <1>2, <1>6
      <4>3. QED
        BY <1>3, <1>8, <4>1, <4>2, HoldsSame
    <3>2. CASE ~OnCall(p, calls)
      <4>1. ~OnCall(p, calls') /\ (IsLive(p, entries') <=> IsLive(p, entries))
        BY <1>5, <1>12, <2>2, <3>2 DEF IsLive
      <4>2. QED
        BY <1>3, <1>8, <3>2, <4>1, HoldsSame
    <3>3. QED
      BY <3>1, <3>2
  <2>3. g \in [Holders -> Seq(RegistryOwners)] /\ h \in [Holders -> Seq(RegistryOwners)]
    BY <1>3, <1>6, HoldingsType
  <2> HIDE DEF g, h
  <2>4. QED
    BY <1>2, <2>1, <2>2, <2>3
<1>15. h \in [Holders -> Seq(RegistryOwners)]
  BY <1>3, CountTypes
<1> HIDE DEF g, h
<1>16. ASSUME NEW i \in DOMAIN calls'
       PROVE  CallIsSound(i)'
  <2>1. i \in 1..m /\ i \in 1..n
    BY <1>6
  <2>2. AllRoots(asked)' = AllRoots(asked) /\ calls'[i] = calls[i]
    BY <1>1, <1>6, <2>1 DEF AllRoots
  <2>3. CASE i = 1
    <3>1. calls'[i].owner = Nobody /\ calls'[i].done \o calls'[i].todo = AllRoots(asked)'
      BY <2>1, <2>2, <2>3, CallFacts DEF n
    <3>2. QED
      BY <2>3, <3>1 DEF CallIsSound
  <2>4. CASE i > 1
    <3> DEFINE q == calls[i].owner
    <3>1. /\ q \in RegistryOwners /\ q # Nobody /\ i - 1 \in 1..n /\ calls[i - 1].todo # <<>>
          /\ Head(calls[i - 1].todo) = q /\ calls[i].done \o calls[i].todo = ChildrenOf[q]
          /\ IsLive(q, entries) /\ entries[IdOf[q]].references = 1
      BY <2>1, <2>4, CallFacts DEF n
    <3>2. i - 1 \in 1..m /\ i # 1
      BY <1>6, <2>1, <2>4
    <3>3. calls'[i - 1] = calls[i - 1]
      BY <1>6, <3>2
    <3>4. IsLive(q, entries') /\ entries'[IdOf[q]].references = 1
      BY <1>5, <1>11, <2>1, <3>1
    <3>5. calls'[i].owner = q /\ calls'[i].done \o calls'[i].todo = ChildrenOf[q]
      BY <2>2, <3>1
    <3> HIDE DEF q
    <3>6. QED
      BY <3>1, <3>2, <3>3, <3>4, <3>5 DEF CallIsSound
  <2>5. QED
    BY <1>6, <2>1, <2>3, <2>4
<1>17. ASSUME NEW x \in RegistryOwners
       PROVE  CountIsBalanced(x)'
  <2> DEFINE one == IF o = x THEN 1 ELSE 0
             on == IF OnCall(x, calls) THEN 1 ELSE 0
             off == IF x # o /\ OnCall(x, calls) THEN 1 ELSE 0
  <2>1. AllRoots(registered)' = AllRoots(registered)
    BY <1>1 DEF AllRoots
  <2>2. References(x)' = Times(AllRoots(registered), x) + Uses(g, x) + Times(c.done, x) + off
    BY <1>1, <1>9, <1>12, <2>1 DEF References, g
  <2>3. /\ References(x) = Times(AllRoots(registered), x) + Uses(h, x) + Times(releases, x) + on
        /\ Times(AllRoots(registered), x) \in Nat /\ Uses(h, x) \in Nat
        /\ CountIsBalanced(x)
    BY ReferencesAre DEF h
  <2>4. Times(releases, x) = 0
    BY <1>1, TimesEmpty
  <2>5. Uses(g, x) = Uses(h, x) - Times(c.done, x)
    <3>1. <<>> \in Seq(RegistryOwners)
      OBVIOUS
    <3>2. /\ Uses([h EXCEPT ![o] = <<>>], x) = Uses(h, x) - Times(h[o], x) + Times(<<>>, x)
          /\ Times(h[o], x) <= Uses(h, x)
      BY <1>2, <1>15, <3>1, UsesChange
    <3>3. Times(<<>>, x) = 0 /\ Times(h[o], x) = Times(c.done, x) /\ Times(c.done, x) \in Nat
      BY <1>2, <1>9, TimesEmpty
    <3>4. QED
      BY <1>14, <2>3, <3>2, <3>3
  <2>6. on = off + one /\ off \in Nat /\ one \in Nat
    BY <1>13
  <2>7. References(x) = References(x)' + one /\ References(x)' \in Int
    <3>1. Times(c.done, x) \in Nat
      BY <1>9
    <3> HIDE DEF on, off, one
    <3>2. QED
      BY <2>2, <2>3, <2>4, <2>5, <2>6, <3>1
  <2>8. CASE x = o
    <3>1. IsLive(x, entries) /\ entries[IdOf[x]].references = 1 /\ ~IsLive(x, entries')
      BY <1>4, <1>13, <2>8 DEF RegistryAssumption
    <3>2. QED
      BY <2>3, <2>7, <2>8, <3>1 DEF CountIsBalanced
  <2>9. CASE x # o
    <3>1. References(x)' = References(x)
      BY <2>7, <2>9
    <3>2. QED
      BY <1>5, <2>3, <2>9, <3>1 DEF CountIsBalanced
  <2>10. QED
    BY <2>8, <2>9
<1>18. QED
  BY <1>8, <1>10, <1>16, <1>17 DEF RegistryIInv

\* Who has a reference still to be released is live, and on no call.
LEMMA ReleasedIsLive ==
  ASSUME RegistryAssumption, RegistryIInv, releases # <<>>
  PROVE  /\ Head(releases) \in RegistryOwners /\ Tail(releases) \in Seq(RegistryOwners)
         /\ \A x : Times(releases, x) = (IF Head(releases) = x THEN 1 ELSE 0) + Times(Tail(releases), x)
                   /\ Times(Tail(releases), x) \in Nat
         /\ IsLive(Head(releases), entries) /\ ~OnCall(Head(releases), calls)
<1> DEFINE q == Head(releases)
           rest == Tail(releases)
<1>1. releases \in Seq(RegistryOwners) /\ q \in RegistryOwners /\ rest \in Seq(RegistryOwners)
  BY DEF RegistryIInv, RegistryTypeOK
<1>2. \A x : Times(releases, x) = (IF q = x THEN 1 ELSE 0) + Times(rest, x) /\ Times(rest, x) \in Nat
  BY <1>1, TimesHead, TimesType
<1> HIDE DEF q, rest
<1>3. Times(releases, q) = 1 + Times(rest, q) /\ Times(rest, q) \in Nat
  BY <1>2
<1> DEFINE on == IF OnCall(q, calls) THEN 1 ELSE 0
           a == Times(AllRoots(registered), q)
           b == Uses(Holdings(calls, entries), q)
<1>4. /\ References(q) = a + b + Times(releases, q) + on /\ a \in Nat /\ b \in Nat /\ on \in Nat /\ CountIsBalanced(q)
  BY <1>1, ReferencesAre
<1>5. OnCall(q, calls) => on = 1
  OBVIOUS
<1> HIDE DEF a, b, on
<1>6. References(q) >= 1 + on /\ References(q) \in Nat
  BY <1>3, <1>4
<1>7. IsLive(q, entries) /\ entries[IdOf[q]].references = References(q)
  BY <1>4, <1>6 DEF CountIsBalanced
<1>8. ~OnCall(q, calls)
  <2> SUFFICES ASSUME OnCall(q, calls) PROVE FALSE
    OBVIOUS
  <2>1. PICK i \in 1..Len(calls) : calls[i].owner = q
    BY CallFacts DEF OnCall
  <2>2. i > 1
    <3>1. q # Nobody
      BY <1>1 DEF RegistryAssumption
    <3>2. i # 1
      BY <2>1, <3>1, CallFacts
    <3>3. Len(calls) \in Nat
      BY CallFacts
    <3>4. QED
      BY <3>2, <3>3
  <2>3. entries[IdOf[q]].references = 1
    BY <2>1, <2>2, CallFacts
  <2>4. QED
    BY <1>5, <1>6, <1>7, <2>3
<1>9. QED
  BY <1>1, <1>2, <1>7, <1>8 DEF q, rest

LEMMA RegistryReleaseKeeps ==
  ASSUME RegistryAssumption, RegistryIInv, release
  PROVE  RegistryIInv'
<1> DEFINE q == Head(releases)
           rest == Tail(releases)
           id == IdOf[q]
           n == entries[id].references
           h == Holdings(calls, entries)
           g == Holdings(calls', entries')
<1>1. /\ releases # <<>> /\ UNCHANGED <<registered, asked, calls>>
      /\ IF n > 1
         THEN entries' = [entries EXCEPT ![id].references = @ - 1] /\ releases' = rest
         ELSE entries' = Erased(id) /\ releases' = Reverse(ChildrenOf[entries[id].value]) \o rest
  BY DEF release
<1>2. /\ q \in RegistryOwners /\ rest \in Seq(RegistryOwners) /\ IsLive(q, entries) /\ ~OnCall(q, calls)
      /\ \A x : Times(releases, x) = (IF q = x THEN 1 ELSE 0) + Times(rest, x) /\ Times(rest, x) \in Nat
  BY <1>1, ReleasedIsLive
<1>3. calls \in Seq(CallRecords) /\ RegistryTypeOK /\ AreDistinct(calls) /\ IsTable(entries)
      /\ AllRoots(registered)' = AllRoots(registered)
      /\ AllRoots(asked)' = AllRoots(asked)
  BY <1>1 DEF RegistryIInv, RegistryTypeOK, AllRoots
<1>4. id \in DOMAIN entries /\ entries[id].value = q /\ n \in Nat \ {0}
  BY <1>2, <1>3 DEF IsLive, IsTable
<1>5. q \in Holders /\ ChildrenOf[q] \in Seq(RegistryOwners) /\ h[q] = ChildrenOf[q]
  BY <1>2, HoldersFinite, OffCallHolds DEF RegistryAssumption
<1>6. calls' = calls /\ AreDistinct(calls')
  BY <1>1, <1>3
<1>7. h \in [Holders -> Seq(RegistryOwners)] /\ g \in [Holders -> Seq(RegistryOwners)]
  BY <1>3, <1>6, HoldingsType
\* A live owner on a call has one reference, and is not this one.
<1>8. ASSUME \A x \in RegistryOwners : x # q /\ IsLive(x, entries) =>
               IsLive(x, entries') /\ entries'[IdOf[x]] = entries[IdOf[x]]
      PROVE  \A i \in DOMAIN calls' : CallIsSound(i)'
  <2> SUFFICES ASSUME NEW i \in DOMAIN calls' PROVE CallIsSound(i)'
    OBVIOUS
  <2>1. CallIsSound(i)
    BY <1>6 DEF RegistryIInv
  <2>2. i \in 1..Len(calls)
    BY <1>6, CallFacts
  <2>3. i > 1 => IsLive(calls[i].owner, entries') /\ entries'[IdOf[calls[i].owner]] = entries[IdOf[calls[i].owner]]
    <3> SUFFICES ASSUME i > 1
        PROVE  IsLive(calls[i].owner, entries') /\ entries'[IdOf[calls[i].owner]] = entries[IdOf[calls[i].owner]]
      OBVIOUS
    <3>1. calls[i].owner \in RegistryOwners /\ IsLive(calls[i].owner, entries)
      BY <2>2, CallFacts
    <3>2. calls[i].owner # q
      BY <1>2, <2>2, CallFacts DEF OnCall
    <3>3. QED
      BY <1>8, <3>1, <3>2
  <2>4. QED
    BY <1>3, <1>6, <2>1, <2>3 DEF CallIsSound
<1>9. CASE n > 1
  <2>1. entries' = Recounted(entries, id, n - 1) /\ releases' = rest
    <3>1. entries' = [entries EXCEPT ![id].references = @ - 1] /\ releases' = rest
      BY <1>1, <1>9
    <3>2. QED
      BY <1>3, <1>4, <3>1, RecountIs
  <2>2. n - 1 \in Nat \ {0}
    BY <1>4, <1>9
  <2> DEFINE k == n - 1
  <2>3. /\ IsTable(entries') /\ DOMAIN entries' = DOMAIN entries
        /\ \A i \in DOMAIN entries :
             entries'[i].value = entries[i].value
             /\ entries'[i].references = IF i = id THEN k ELSE entries[i].references
        /\ \A x : IsLive(x, entries') <=> IsLive(x, entries)
    <3>1. entries' = Recounted(entries, id, k) /\ k \in Nat \ {0}
      BY <2>1, <2>2
    <3> HIDE DEF k, id
    <3>2. QED
      BY <1>3, <1>4, <3>1, RecountFacts
  <2>4. \A x \in RegistryOwners :
            x # q /\ IsLive(x, entries) => IsLive(x, entries') /\ entries'[IdOf[x]] = entries[IdOf[x]]
    <3> SUFFICES ASSUME NEW x \in RegistryOwners, x # q, IsLive(x, entries)
        PROVE  IsLive(x, entries') /\ entries'[IdOf[x]] = entries[IdOf[x]]
      OBVIOUS
    <3>1. IdOf[x] \in DOMAIN entries /\ IdOf[x] # id
      BY <1>4 DEF IsLive
    <3>2. entries'[IdOf[x]] = entries[IdOf[x]]
      BY <2>1, <3>1 DEF Recounted
    <3>3. QED
      BY <2>3, <3>2
  <2>5. RegistryTypeOK'
    BY <1>1, <1>2, <1>3, <2>1, <2>3 DEF RegistryTypeOK
  <2>6. g = h
    <3>1. \A p \in Holders : g[p] = h[p]
      BY <1>6, <2>3 DEF Holdings
    <3> HIDE DEF g, h
    <3>2. QED
      BY <1>7, <3>1
  <2>7. ASSUME NEW x \in RegistryOwners
        PROVE  CountIsBalanced(x)'
    <3> DEFINE one == IF q = x THEN 1 ELSE 0
               on == IF OnCall(x, calls) THEN 1 ELSE 0
    <3>1. References(x)' = Times(AllRoots(registered), x) + Uses(h, x) + Times(rest, x) + on
      BY <1>3, <1>6, <2>1, <2>6 DEF References
    <3>2. /\ References(x) = Times(AllRoots(registered), x) + Uses(h, x) + Times(releases, x) + on
          /\ Times(AllRoots(registered), x) \in Nat /\ Uses(h, x) \in Nat /\ on \in Nat
          /\ CountIsBalanced(x)
      BY ReferencesAre
    <3>3. Times(releases, x) = one + Times(rest, x) /\ Times(rest, x) \in Nat /\ one \in Nat
      BY <1>2
    <3> HIDE DEF one, on, h, rest
    <3>4. References(x) = References(x)' + one /\ References(x)' \in Nat
      BY <3>1, <3>2, <3>3
    <3>5. CASE x = q
      <4>1. one = 1 /\ IsLive(x, entries) /\ IsLive(x, entries')
        BY <1>2, <2>3, <3>5 DEF one
      <4>2. entries[IdOf[x]].references = n /\ entries'[IdOf[x]].references = n - 1
        BY <1>4, <2>3, <3>5
      <4>3. References(x) = n /\ n \in Nat
        BY <1>4, <3>2, <4>1, <4>2 DEF CountIsBalanced
      <4> HIDE DEF n
      <4>4. References(x)' = n - 1
        BY <3>4, <4>1, <4>3
      <4>5. QED
        BY <4>1, <4>2, <4>4 DEF CountIsBalanced, n
    <3>6. CASE x # q
      <4>1. References(x)' = References(x)
        BY <3>4, <3>6 DEF one
      <4>2. QED
        BY <2>3, <2>4, <3>2, <3>6, <4>1 DEF CountIsBalanced
    <3>7. QED
      BY <3>5, <3>6
  <2>8. QED
    BY <1>6, <1>8, <2>4, <2>5, <2>7 DEF RegistryIInv
<1>10. CASE ~(n > 1)
  <2> DEFINE kids == ChildrenOf[q]
             back == Reverse(kids)
  <2>1. n = 1 /\ entries' = Erased(id) /\ releases' = back \o rest
    BY <1>1, <1>4, <1>10
  <2>2. /\ back \in Seq(RegistryOwners) /\ back \o rest \in Seq(RegistryOwners)
        /\ \A x : Times(back \o rest, x) = Times(kids, x) + Times(rest, x) /\ Times(kids, x) \in Nat
    <3>1. back \in Seq(RegistryOwners) /\ \A x : Times(back, x) = Times(kids, x) /\ Times(kids, x) \in Nat
      BY <1>5, TimesReverse, TimesType
    <3> HIDE DEF back, rest
    <3>2. QED
      BY <1>2, <3>1, TimesConcat
  <2>3. /\ IsTable(entries')
        /\ \A x : IsLive(x, entries') <=> x # q /\ IsLive(x, entries)
        /\ \A x : IsLive(x, entries') => entries'[IdOf[x]] = entries[IdOf[x]]
    <3> HIDE DEF q
    <3>1. QED
      BY <1>2, <1>3, <2>1, ErasedFacts
  <2>4. RegistryTypeOK'
    BY <1>1, <1>3, <2>1, <2>2, <2>3 DEF RegistryTypeOK
  <2>5. g = [h EXCEPT ![q] = <<>>]
    <3>1. g[q] = <<>>
      BY <1>2, <1>5, <1>6, <2>3, OffCallHolds
    <3>2. \A p \in Holders : p # q => g[p] = h[p]
      BY <1>6, <2>3 DEF Holdings
    <3> HIDE DEF g, h, q
    <3>3. QED
      BY <1>5, <1>7, <3>1, <3>2
  <2>6. ASSUME NEW x \in RegistryOwners
        PROVE  CountIsBalanced(x)'
    <3> DEFINE one == IF q = x THEN 1 ELSE 0
               on == IF OnCall(x, calls) THEN 1 ELSE 0
    <3>1. References(x)' = Times(AllRoots(registered), x) + Uses(g, x) + (Times(kids, x) + Times(rest, x)) + on
      BY <1>3, <1>6, <2>1, <2>2 DEF References
    <3>2. /\ References(x) = Times(AllRoots(registered), x) + Uses(h, x) + Times(releases, x) + on
          /\ Times(AllRoots(registered), x) \in Nat /\ Uses(h, x) \in Nat /\ on \in Nat
          /\ CountIsBalanced(x)
      BY ReferencesAre
    <3>3. Times(releases, x) = one + Times(rest, x) /\ Times(rest, x) \in Nat /\ one \in Nat
      BY <1>2
    <3> HIDE DEF one, on, h, g, rest, kids
    <3>4. Uses(g, x) = Uses(h, x) - Times(kids, x) /\ Times(kids, x) \in Nat
      <4>1. <<>> \in Seq(RegistryOwners) /\ Times(<<>>, x) = 0 /\ Times(kids, x) \in Nat
        BY <2>2, TimesEmpty
      <4> HIDE DEF q
      <4>2. /\ Uses([h EXCEPT ![q] = <<>>], x) = Uses(h, x) - Times(h[q], x) + Times(<<>>, x)
            /\ Times(h[q], x) <= Uses(h, x)
        BY <1>5, <1>7, <4>1, UsesChange
      <4>3. h[q] = kids
        BY <1>5 DEF kids
      <4>4. QED
        BY <2>5, <3>2, <4>1, <4>2, <4>3
    <3>5. References(x) = References(x)' + one /\ References(x)' \in Int
      BY <3>1, <3>2, <3>3, <3>4
    <3>6. CASE x = q
      <4>1. one = 1 /\ IsLive(x, entries) /\ ~IsLive(x, entries')
        BY <1>2, <2>3, <3>6 DEF one
      <4>2. entries[IdOf[x]].references = 1
        BY <2>1, <3>6
      <4>3. References(x) = 1
        BY <3>2, <4>1, <4>2 DEF CountIsBalanced
      <4>4. References(x)' = 0
        BY <3>5, <4>1, <4>3
      <4>5. QED
        BY <4>1, <4>4 DEF CountIsBalanced
    <3>7. CASE x # q
      <4>1. References(x)' = References(x)
        BY <3>5, <3>7 DEF one
      <4>2. QED
        BY <2>3, <3>2, <3>7, <4>1 DEF CountIsBalanced
    <3>8. QED
      BY <3>6, <3>7
  <2>7. QED
    BY <1>6, <1>8, <2>3, <2>4, <2>6 DEF RegistryIInv
<1>11. QED
  BY <1>9, <1>10

\* Between calls, who is live is what the roots reach, and what the live have acquired is their children.
LEMMA LiveIsReached ==
  ASSUME RegistryAssumption, RegistryIInv, Returned
  PROVE  \A o \in RegistryOwners : IsLive(o, entries) <=> o \in Reached
<1> DEFINE L == {o \in RegistryOwners : IsLive(o, entries)}
           R == AllRoots(registered)
           h == Holdings(calls, entries)
<1>1. RegistryTypeOK /\ calls = <<>> /\ releases = <<>>
  BY DEF Returned, RegistryIInv
<1>2. R \in Seq(RegistryOwners) /\ h \in [Holders -> Seq(RegistryOwners)]
  BY <1>1, CountTypes
<1>3. \A p \in RegistryOwners : p \in Holders /\ ChildrenOf[p] \in Seq(RegistryOwners)
  BY HoldersFinite DEF RegistryAssumption
<1>4. \A p \in Holders : h[p] = IF IsLive(p, entries) THEN ChildrenOf[p] ELSE <<>>
  BY <1>1, OffCallHolds DEF OnCall
<1> HIDE DEF h, R
<1>5. ASSUME NEW o \in RegistryOwners
      PROVE  IsLive(o, entries) <=> o \in ToSet(R) \/ \E p \in L : o \in ToSet(ChildrenOf[p])
  <2>1. /\ References(o) = Times(R, o) + Uses(h, o)
        /\ Times(R, o) \in Nat /\ Uses(h, o) \in Nat /\ CountIsBalanced(o)
    <3>1. Times(releases, o) = 0 /\ ~OnCall(o, calls)
      BY <1>1, TimesEmpty DEF OnCall
    <3>2. QED
      BY <3>1, ReferencesAre DEF R, h
  <2>2. IsLive(o, entries) <=> References(o) # 0
    <3>1. IsLive(o, entries) => entries[IdOf[o]].references \in Nat \ {0}
      BY <1>1 DEF RegistryTypeOK, IsTable, IsLive
    <3>2. QED
      BY <2>1, <3>1 DEF CountIsBalanced
  <2>3. o \in ToSet(R) <=> Times(R, o) # 0
    BY <1>2, <2>1, TimesType
  <2>4. Uses(h, o) # 0 <=> \E p \in Holders : Times(h[p], o) # 0
    BY <1>2, UsesFacts
  <2>5. ASSUME NEW p \in Holders
        PROVE  Times(h[p], o) # 0 <=> p \in L /\ o \in ToSet(ChildrenOf[p])
    <3>1. CASE IsLive(p, entries)
      <4>1. p \in RegistryOwners /\ h[p] = ChildrenOf[p] /\ p \in L
        BY <1>4, <3>1 DEF IsLive
      <4>2. o \in ToSet(ChildrenOf[p]) <=> Times(ChildrenOf[p], o) > 0
        BY <1>3, <4>1, TimesType
      <4>3. Times(ChildrenOf[p], o) \in Nat
        BY <1>3, <4>1, TimesType
      <4>4. QED
        BY <4>1, <4>2, <4>3
    <3>2. CASE ~IsLive(p, entries)
      <4>1. Times(h[p], o) = 0
        BY <1>4, <3>2, TimesEmpty
      <4>2. QED
        BY <3>2, <4>1
    <3>3. QED
      BY <3>1, <3>2
  <2>6. Uses(h, o) # 0 <=> \E p \in L : o \in ToSet(ChildrenOf[p])
    BY <1>3, <2>4, <2>5
  <2>7. References(o) # 0 <=> Times(R, o) # 0 \/ Uses(h, o) # 0
    BY <2>1
  <2>8. QED
    BY <2>2, <2>3, <2>6, <2>7
<1>6. ASSUME NEW s \in Seq(RegistryOwners)
      PROVE  ToSet(s) \subseteq RegistryOwners
  BY DEF ToSet
<1>7. ToSet(R) \subseteq L /\ HasChildren(L) /\ L \in SUBSET RegistryOwners
  BY <1>2, <1>3, <1>5, <1>6 DEF HasChildren
<1>8. Reached \subseteq L
  BY <1>7 DEF Reached, R, AllRoots
<1>9. ToSet(R) \subseteq Reached
  BY <1>2, <1>6 DEF Reached, R, AllRoots
<1>10. ASSUME NEW p \in Reached, NEW o \in ToSet(ChildrenOf[p])
       PROVE  o \in Reached
  <2>1. p \in RegistryOwners /\ o \in RegistryOwners
    BY <1>3, <1>6 DEF Reached
  <2> SUFFICES ASSUME NEW S \in SUBSET RegistryOwners, HasChildren(S),
                      ToSet(registered.pairs \o registered.natives) \subseteq S
      PROVE  o \in S
    BY <2>1 DEF Reached
  <2>2. p \in S
    BY DEF Reached
  <2>3. QED
    BY <2>2 DEF HasChildren
<1>11. L \subseteq Reached
  <2> DEFINE S == L \ Reached
  <2> SUFFICES ASSUME S # {} PROVE FALSE
    OBVIOUS
  <2>1. S \in SUBSET RegistryOwners
    OBVIOUS
  <2>2. PICK o \in S : \A p \in S : o \notin ToSet(ChildrenOf[p])
    <3> HIDE DEF S
    <3>1. QED
      BY <2>1 DEF RegistryAssumption
  <2>3. o \in ToSet(R) \/ \E p \in L : o \in ToSet(ChildrenOf[p])
    BY <1>5
  <2>4. \E p \in L : o \in ToSet(ChildrenOf[p]) /\ p \notin S
    BY <1>9, <2>2, <2>3
  <2>5. QED
    BY <1>10, <2>4
<1>12. QED
  BY <1>8, <1>11

LEMMA RegistryIsExact ==
  ASSUME RegistryAssumption, RegistryIInv
  PROVE  CountsAreExact
<1> SUFFICES ASSUME Returned
    PROVE  /\ DOMAIN entries = {IdOf[o] : o \in Reached}
           /\ \A o \in Reached :
                entries[IdOf[o]] = [value |-> o,
                  references |-> Times(registered.pairs \o registered.natives, o)
                    + SumFunction([p \in Reached |-> Times(ChildrenOf[p], o)])]
  BY DEF CountsAreExact
<1>1. RegistryTypeOK /\ calls = <<>> /\ releases = <<>>
  BY DEF Returned, RegistryIInv
<1>2. IsTable(entries)
  BY <1>1 DEF RegistryTypeOK
<1>3. Reached \subseteq RegistryOwners /\ Reached \subseteq Holders
  BY HoldersFinite DEF Reached
<1>4. DOMAIN entries = {IdOf[o] : o \in Reached}
  <2>1. ASSUME NEW id \in DOMAIN entries PROVE \E o \in Reached : id = IdOf[o]
    <3> DEFINE o == entries[id].value
    <3>1. o \in RegistryOwners /\ IdOf[o] = id /\ IsLive(o, entries)
      BY <1>2 DEF IsTable, IsLive
    <3>2. QED
      BY <3>1, LiveIsReached
  <2>2. ASSUME NEW o \in Reached PROVE IdOf[o] \in DOMAIN entries
    BY <1>3, LiveIsReached DEF IsLive
  <2>3. QED
    BY <2>1, <2>2
<1>5. ASSUME NEW o \in Reached
      PROVE  entries[IdOf[o]] = [value |-> o,
               references |-> Times(registered.pairs \o registered.natives, o)
                 + SumFunction([p \in Reached |-> Times(ChildrenOf[p], o)])]
  <2> DEFINE h == Holdings(calls, entries)
             w == [p \in Holders |-> Times(h[p], o)]
             v == [p \in Reached |-> Times(ChildrenOf[p], o)]
  <2>1. IsLive(o, entries) /\ o \in RegistryOwners
    BY <1>3, LiveIsReached
  <2>2. entries[IdOf[o]] = [value |-> o, references |-> entries[IdOf[o]].references]
    BY <1>2, <2>1 DEF IsTable, IsLive
  <2>3. /\ entries[IdOf[o]].references = Times(AllRoots(registered), o) + Total(w, Holders)
        /\ Times(AllRoots(registered), o) \in Nat
    <3>1. Times(releases, o) = 0 /\ ~OnCall(o, calls)
      BY <1>1, TimesEmpty DEF OnCall
    <3>2. /\ References(o) = Times(AllRoots(registered), o) + Uses(h, o)
          /\ Times(AllRoots(registered), o) \in Nat /\ Uses(h, o) \in Nat /\ CountIsBalanced(o)
      BY <2>1, <3>1, ReferencesAre
    <3>3. Uses(h, o) = Total(w, Holders)
      BY DEF Uses
    <3> HIDE DEF h, w
    <3>4. QED
      BY <2>1, <3>2, <3>3 DEF CountIsBalanced
  <2>4. h \in [Holders -> Seq(RegistryOwners)]
    BY <1>1, CountTypes
  <2>5. w \in [Holders -> Nat]
    <3> HIDE DEF h
    <3>1. QED
      BY <2>4, UsesFacts
  <2>6. \A p \in Holders : h[p] = IF IsLive(p, entries) THEN ChildrenOf[p] ELSE <<>>
    BY <1>1, OffCallHolds DEF OnCall
  <2>7. \A p \in Holders : IsLive(p, entries) <=> p \in Reached
    <3>1. \A p \in Holders : IsLive(p, entries) => p \in RegistryOwners
      BY DEF IsLive
    <3>2. QED
      BY <1>3, <3>1, LiveIsReached
  <2>8. \A p \in Holders \ Reached : w[p] = 0
    BY <2>6, <2>7, TimesEmpty
  <2>9. \A p \in Reached : w[p] = v[p]
    BY <1>3, <2>6, <2>7
  <2>10. IsFiniteSet(Holders) /\ IsFiniteSet(Reached)
    BY <1>3, HoldersFinite, FS_Subset
  <2>11. DOMAIN v = Reached
    OBVIOUS
  <2> HIDE DEF w, v, h
  <2>12. Total(w, Holders) = Total(w, Reached)
    BY <1>3, <2>5, <2>8, <2>10, TotalZeros
  <2>13. Total(w, Reached) = Total(v, Reached)
    BY <2>9, TotalSame
  <2>14. SumFunction(v) = Total(v, Reached)
    BY <2>10, <2>11, SumIsTotal
  <2>15. entries[IdOf[o]].references = Times(AllRoots(registered), o) + SumFunction(v)
    BY <2>3, <2>12, <2>13, <2>14
  <2>16. QED
    BY <2>2, <2>15 DEF v, AllRoots
<1>6. QED
  BY <1>4, <1>5

(* Theorem: between calls the registry holds exactly what its registered roots
   reach, each owner counted once per root and per live owner referring to it,
   wherever an acquisition was refused or failed (replace, acquire_pair,
   release_pair, clear).                                                      *)
THEOREM RegistryCounts == RegistrySpec => []CountsAreExact
<1> USE RegistryAssumption
<1>1. RegistryInit => RegistryIInv
  BY RegistryInitial
<1>2. RegistryIInv /\ [RegistryNext]_registryVars => RegistryIInv'
  <2> SUFFICES ASSUME RegistryIInv, [RegistryNext]_registryVars PROVE RegistryIInv'
    OBVIOUS
  <2>1. CASE UNCHANGED registryVars
    BY <2>1, RegistryOutcomeKeeps DEF registryVars
  <2>2. CASE \E list \in RootLists : replace(list)
    BY <2>2, RegistryReplaceKeeps
  <2>3. CASE acquire_again
    BY <2>3, RegistryAgainKeeps
  <2>4. CASE refuse_other
    BY <2>4, RegistryOutcomeKeeps DEF refuse_other
  <2>5. CASE throw
    BY <2>5, RegistryOutcomeKeeps DEF throw
  <2>6. CASE insert
    BY <2>6, RegistryInsertKeeps
  <2>7. CASE acquire_returns
    BY <2>7, RegistryReturnsKeeps
  <2>8. CASE replace_returns
    BY <2>8, RegistryReplacedKeeps
  <2>9. CASE rollback
    BY <2>9, RegistryRollbackKeeps
  <2>10. CASE release
    BY <2>10, RegistryReleaseKeeps
  <2>11. CASE clear
    BY <2>11, RegistryClearKeeps
  <2>12. QED
    BY <2>1, <2>2, <2>3, <2>4, <2>5, <2>6, <2>7, <2>8, <2>9, <2>10, <2>11 DEF RegistryNext
<1>3. RegistryIInv => CountsAreExact
  BY RegistryIsExact
<1>4. QED
  BY <1>1, <1>2, <1>3, PTL DEF RegistrySpec
=============================================================================
