----------------------------- MODULE NurseryMap -----------------------------
(***************************************************************************)
(* nursery_map: transient AVL trees that share nodes with the snapshots    *)
(* frozen from them and with the maps thawed from those.  A node is edited *)
(* in place exactly if it carries the edit token of the map that edits it. *)
(***************************************************************************)
EXTENDS Integers, FiniteSets, Sequences, FiniteSetsExt, SequencesExt

CONSTANTS
  NurseryKeys,    \* numbers, in the comparator's order
  NurseryValues,
  Transients,     \* variables that hold a transient map
  Snapshots,      \* variables that hold a snapshot
  MaxNodes        \* nodes alive at once (a bound of the model)

VARIABLES
  nodes,      \* the heap; a node's edit is the transient that holds the token it carries
  transient,  \* each transient's root, size, whether its edit token is open, and failed
  snapshot,   \* each snapshot's root and size
  denoted     \* the map each of them stands for (history)

nurseryVars == <<nodes, transient, snapshot, denoted>>

Nil == 0
Sides == {"left", "right"}
Opposite(side) == IF side = "left" THEN "right" ELSE "left"

NoMap == [k \in {} |-> Nil]
Blank == [key |-> Nil, value |-> Nil, edit |-> Nil, height |-> 0, child |-> [s \in Sides |-> Nil]]
NewTransient(root, size) == [root |-> root, size |-> size, open |-> FALSE, failed |-> FALSE]

NurseryInit ==
  /\ nodes = [i \in 0..MaxNodes |-> Blank]
  /\ transient = [t \in Transients |-> NewTransient(Nil, 0)]
  /\ snapshot = [s \in Snapshots |-> [root |-> Nil, size |-> 0]]
  /\ denoted = [m \in Transients \cup Snapshots |-> NoMap]

-----------------------------------------------------------------------------
\* Reading.

RECURSIVE NodesUnder(_, _)
NodesUnder(heap, i) ==
  IF i = Nil THEN {} ELSE {i} \cup UNION {NodesUnder(heap, heap[i].child[s]) : s \in Sides}

\* find_in, as the function of all keys it finds something for.
RECURSIVE Found(_, _, _)
Found(heap, i, key) ==
  IF i = Nil THEN {}
  ELSE IF key < heap[i].key THEN Found(heap, heap[i].child["left"], key)
  ELSE IF heap[i].key < key THEN Found(heap, heap[i].child["right"], key)
  ELSE {heap[i].value}

\* visit_in
RECURSIVE Visited(_, _)
Visited(heap, i) ==
  IF i = Nil THEN <<>>
  ELSE Visited(heap, heap[i].child["left"]) \o <<heap[i].key>> \o Visited(heap, heap[i].child["right"])

-----------------------------------------------------------------------------
\* Editing.  A tree under edit is its heap, the node an owner's pointer leads
\* to, the free nodes, and what the edit has found out.

Tree(heap, at, free, entry) == [heap |-> heap, at |-> at, free |-> free, entry |-> entry]

\* Mutant of editable: every node may be written.
editable_shared(t, edit) == t

editable(t, edit) ==
  LET copy == Min(t.free) IN
  IF t.heap[t.at].edit = edit THEN t
  ELSE Tree([t.heap EXCEPT ![copy] = [t.heap[t.at] EXCEPT !.edit = edit]],
            copy, t.free \ {copy}, t.entry)

Height(heap, i) == heap[i].height
Balance(heap, i, side) == Height(heap, heap[i].child[side]) - Height(heap, heap[i].child[Opposite(side)])
Refreshed(heap, i) ==
  [heap EXCEPT ![i].height = 1 + Max({Height(heap, heap[i].child[s]) : s \in Sides})]

\* The subtree at a child of t.at, and t with that child replaced.
ChildOf(t, side) == [t EXCEPT !.at = t.heap[t.at].child[side]]
WithChild(t, side, u) == [u EXCEPT !.heap = [u.heap EXCEPT ![t.at].child[side] = u.at], !.at = t.at]

\* rotate_left and rotate_right: the other side's child comes up.
Rotated(t, side, edit) ==
  LET other == Opposite(side)
      up == editable(ChildOf(t, other), edit)
      down == Refreshed([up.heap EXCEPT ![t.at].child[other] = up.heap[up.at].child[side]], t.at)
  IN  [up EXCEPT !.heap = Refreshed([down EXCEPT ![up.at].child[side] = t.at], up.at)]

Rebalanced(t, edit) ==
  LET r == [t EXCEPT !.heap = Refreshed(t.heap, t.at)]
      heavy == {s \in Sides : Balance(r.heap, r.at, s) > 1}
      side == CHOOSE s \in heavy : TRUE
      child == editable(ChildOf(r, side), edit)
      turned == IF Balance(child.heap, child.at, side) < 0 THEN Rotated(child, side, edit) ELSE child
  IN  IF heavy = {} THEN r ELSE Rotated(WithChild(r, side, turned), Opposite(side), edit)

SideOf(t, key) == IF key < t.heap[t.at].key THEN "left" ELSE "right"

RECURSIVE Inserted(_, _, _, _)
Inserted(t, key, value, edit) ==
  LET own == editable(t, edit)
      side == SideOf(t, key)
      new == Min(t.free)
  IN  CASE t.at = Nil ->
             Tree([t.heap EXCEPT ![new] = [Blank EXCEPT !.key = key, !.value = value,
                                                        !.edit = edit, !.height = 1]],
                  new, t.free \ {new}, "added")
        [] t.at # Nil /\ t.heap[t.at].key = key ->
             [own EXCEPT !.heap = [own.heap EXCEPT ![own.at].value = value], !.entry = "assigned"]
        [] OTHER ->
             Rebalanced(WithChild(own, side, Inserted(ChildOf(own, side), key, value, edit)), edit)

\* remove_first: the tree without its first entry, and that entry.
RECURSIVE FirstRemoved(_, _)
FirstRemoved(t, edit) ==
  LET own == editable(t, edit) IN
  IF t.heap[t.at].child["left"] = Nil
  THEN [t EXCEPT !.at = t.heap[t.at].child["right"], !.entry = t.heap[t.at]]
  ELSE Rebalanced(WithChild(own, "left", FirstRemoved(ChildOf(own, "left"), edit)), edit)

RECURSIVE Removed(_, _, _)
Removed(t, key, edit) ==
  LET own == editable(t, edit)
      side == SideOf(t, key)
      only == {s \in Sides : t.heap[t.at].child[s] = Nil}
      right == FirstRemoved(ChildOf(own, "right"), edit)
      joined == WithChild(own, "right", right)
  IN  CASE t.at = Nil -> [t EXCEPT !.entry = "absent"]
        [] t.at # Nil /\ t.heap[t.at].key # key ->
             LET below == WithChild(own, side, Removed(ChildOf(own, side), key, edit))
             IN  IF below.entry = "absent" THEN below ELSE Rebalanced(below, edit)
        [] t.at # Nil /\ t.heap[t.at].key = key /\ only # {} ->
             [t EXCEPT !.at = t.heap[t.at].child[Opposite(CHOOSE s \in only : TRUE)],
                       !.entry = "erased"]
        [] OTHER ->
             Rebalanced([joined EXCEPT !.entry = "erased",
               !.heap = [joined.heap EXCEPT ![own.at].key = right.entry.key,
                                            ![own.at].value = right.entry.value]], edit)

-----------------------------------------------------------------------------
\* Operations.  A node nobody reaches is free to be made anew; what is alive is
\* numbered in the order of a walk, so that equal heaps are equal states.

Alive == UNION {NodesUnder(nodes, transient[t].root) : t \in Transients}
         \cup UNION {NodesUnder(nodes, snapshot[s].root) : s \in Snapshots}

RECURSIVE Walk(_, _)
Walk(heap, i) ==
  IF i = Nil THEN <<>> ELSE <<i>> \o Walk(heap, heap[i].child["left"]) \o Walk(heap, heap[i].child["right"])

\* After a step with these roots and heap.
Settles(heap, roots, transients, snapshots) ==
  LET walk == FlattenSeq([r \in DOMAIN roots |-> Walk(heap, roots[r])])
      order == FoldLeft(LAMBDA seen, i : IF Contains(seen, i) THEN seen ELSE Append(seen, i), <<>>, walk)
      Number(i) == IF i = Nil THEN Nil ELSE Min({n \in DOMAIN order : order[n] = i})
  IN  /\ nodes' = [n \in 0..MaxNodes |->
                     IF n \notin DOMAIN order THEN Blank
                     ELSE [heap[order[n]] EXCEPT !.child = [s \in Sides |-> Number(@[s])]]]
      /\ transient' = [t \in Transients |-> [transients[t] EXCEPT !.root = Number(@)]]
      /\ snapshot' = [s \in Snapshots |-> [snapshots[s] EXCEPT !.root = Number(@)]]

Update(heap, transients, snapshots) ==
  Settles(heap, [n \in 1..Cardinality(Transients) |-> transients[SetToSeq(Transients)[n]].root]
                \o [n \in 1..Cardinality(Snapshots) |-> snapshots[SetToSeq(Snapshots)[n]].root],
          transients, snapshots)

\* No node carries the token t is about to make.
Disowned(heap, t) ==
  [i \in 0..MaxNodes |-> IF heap[i].edit = t THEN [heap[i] EXCEPT !.edit = Nil] ELSE heap[i]]

begin_edit(t) == IF transient[t].open THEN nodes ELSE Disowned(nodes, t)

Active(t) == ~transient[t].failed
RoomToEdit == Cardinality(Alive) + Cardinality(NurseryKeys) + 1 <= MaxNodes
Editing(t) == Tree(begin_edit(t), transient[t].root, (1..MaxNodes) \ Alive, "none")

Edits(t, result, change, map) ==
  /\ Update(result.heap,
            [transient EXCEPT ![t] = [root |-> result.at, size |-> @.size + change,
                                      open |-> TRUE, failed |-> FALSE]], snapshot)
  /\ denoted' = [denoted EXCEPT ![t] = map]

insert_or_assign(t, key, value) ==
  LET result == Inserted(Editing(t), key, value, t)
      map == denoted[t]
  IN  /\ Active(t) /\ RoomToEdit
      /\ Edits(t, result, IF result.entry = "added" THEN 1 ELSE 0,
               [k \in DOMAIN map \cup {key} |-> IF k = key THEN value ELSE map[k]])

erase(t, key) ==
  LET result == Removed(Editing(t), key, t)
      map == denoted[t]
  IN  /\ Active(t) /\ RoomToEdit
      /\ Edits(t, result, IF result.entry = "erased" THEN -1 ELSE 0,
               [k \in DOMAIN map \ {key} |-> map[k]])

\* An exception inside an edit: its writes may have been done, but nothing reads the map.
edit_fails(t, key, value) ==
  LET before == Editing(t)
      result == Inserted(before, key, value, t)
      partly == [i \in 0..MaxNodes |-> IF before.heap[i].edit = t THEN result.heap[i] ELSE before.heap[i]]
  IN  /\ Active(t) /\ RoomToEdit
      /\ Update(partly, [transient EXCEPT ![t] = [NewTransient(Nil, 0) EXCEPT !.failed = TRUE]], snapshot)
      /\ denoted' = [denoted EXCEPT ![t] = NoMap]

freeze(t, s) ==
  /\ Active(t)
  /\ Update(nodes, [transient EXCEPT ![t].open = FALSE],
            [snapshot EXCEPT ![s] = [root |-> transient[t].root, size |-> transient[t].size]])
  /\ denoted' = [denoted EXCEPT ![s] = denoted[t]]

thaw(t, s) ==
  /\ Update(Disowned(nodes, t),
            [transient EXCEPT ![t] = NewTransient(snapshot[s].root, snapshot[s].size)], snapshot)
  /\ denoted' = [denoted EXCEPT ![t] = denoted[s]]

NurseryNext ==
  \/ \E t \in Transients, key \in NurseryKeys :
       \/ \E value \in NurseryValues : insert_or_assign(t, key, value) \/ edit_fails(t, key, value)
       \/ erase(t, key)
  \/ \E t \in Transients, s \in Snapshots : freeze(t, s) \/ thaw(t, s)

-----------------------------------------------------------------------------
\* Properties.

IsTreeOf(root, size, map) ==
  /\ \A key \in NurseryKeys :
       Found(nodes, root, key) = IF key \in DOMAIN map THEN {map[key]} ELSE {}
  /\ LET keys == Visited(nodes, root)
     IN  /\ size = Cardinality(DOMAIN map) /\ DOMAIN keys = 1..size
         /\ \A i \in 1..(size - 1) : keys[i] < keys[i + 1]
  /\ \A i \in NodesUnder(nodes, root) :
       /\ \A s \in Sides : Balance(nodes, i, s) <= 1
       /\ Refreshed(nodes, i) = nodes

(* Snapshots never change and maps stay apart: whatever is edited, frozen,
   thawed or fails, every map and snapshot finds and visits exactly what its own
   edits have made of it, in a balanced tree (freeze, editable, rebalance).  *)
MapsStayApart ==
  /\ \A t \in Transients : Active(t) => IsTreeOf(transient[t].root, transient[t].size, denoted[t])
  /\ \A s \in Snapshots : IsTreeOf(snapshot[s].root, snapshot[s].size, denoted[s])
=============================================================================
