-------------------------- MODULE ConnectionProofs --------------------------
(***************************************************************************)
(* The safety properties of Connection and its refinement of NamedHistory, *)
(* for any names, connections, transactions, changes and limits.           *)
(***************************************************************************)
EXTENDS Connection, Transaction, DataLemmas

-----------------------------------------------------------------------------
(***************************************************************************)
(* The inductive invariant.                                                *)
(***************************************************************************)
TypeOK ==
  /\ db \in Tables
  /\ phase \in [Connections -> {"closed", "creating", "open", "failed"}]
  /\ name \in [Connections -> Names \cup {None}]
  /\ current \in [Connections -> Stored \cup {None}]
  /\ core \in [Connections -> World \cup {None}]
  /\ queue \in [Connections -> Seq(Commands)]
  /\ working \in [Connections -> Update \cup {None}]
  /\ txn \in [Txns -> Transaction \cup {None}]
  /\ answer \in [Commands -> Answers \cup {None}]

\* History t is history s, perhaps with changes after it.
Grows(s, t) == Len(s) <= Len(t) /\ \A i \in 1..Len(s) : t[i] = s[i]

RowContent(n, i) == db.timelines[n][i].content

\* No name has outgrown the generations an integer column can number.
Bounded == \A n \in Names : Len(db.timelines[n]) <= MaxGeneration + 1

\* A later generation of a name has all the changes of an earlier one, and each once.
GenerationsGrow ==
  \A n \in Names : \A i \in 1..Len(db.timelines[n]) :
    /\ IsInjective(RowContent(n, i))
    /\ \A j \in i..Len(db.timelines[n]) : Grows(RowContent(n, i), RowContent(n, j))

Shown(c) == current[c].head.checkpoint.content

\* What the worker is about to publish continues what the connection shows.
UpdateIsSound(c) ==
  LET x == working[c].command
      w == working[c].world.content
  IN  /\ IsInjective(w) /\ Grows(Shown(c), w)
      /\ x \in EmptyBatches \cup {None} => w = Shown(c)
      /\ x \in Changes \ EmptyBatches => w = Append(Shown(c), x)
      /\ x \in Txns => txn[x] # None /\ txn[x].stage = working[c].world

ConnectionIsSound(c) ==
  /\ phase[c] \in {"closed", "creating"} => current[c] = None
  /\ phase[c] = "creating" => name[c] \in Names
  /\ phase[c] \in {"open", "failed"} =>
       current[c] # None /\ current[c].head.name = name[c] /\ IsRow(db, current[c].head)
  /\ phase[c] # "open" => queue[c] = <<>> /\ working[c] = None
  /\ phase[c] = "open" => core[c] # None
  /\ Idle(c) => core[c].content = Shown(c)
  /\ working[c] # None => UpdateIsSound(c)

\* A transaction continues its base; its nursery is not yet part of its world.
TransactionIsSound(t) ==
  /\ phase[txn[t].on] \in {"open", "failed"}
  /\ Grows(txn[t].base.head.checkpoint.content, txn[t].stage.content)
  /\ IsInjective(txn[t].stage.content)
  /\ txn[t].nursery # None => /\ txn[t].nursery \in Changes \ EmptyBatches
                              /\ txn[t].nursery \notin ToSet(txn[t].stage.content)

ConnectionsAreSound == \A c \in Connections : ConnectionIsSound(c)
TransactionsAreSound == \A t \in Txns : txn[t] # None => TransactionIsSound(t)

\* Commands that wait for the worker of c, or that it works on.
Waiting(c) == ToSet(queue[c]) \cup {x \in Commands : working[c] # None /\ working[c].command = x}

QueuesAreSound ==
  \A c \in Connections :
    /\ IsInjective(queue[c])
    /\ working[c] # None => working[c].command \notin ToSet(queue[c])
    /\ \A t \in Waiting(c) \cap Txns : txn[t] # None /\ txn[t].on = c /\ txn[t].state = "queued"

Recorded(x) == \E n \in Names : \E i \in 1..Len(db.timelines[n]) : x \in ToSet(RowContent(n, i))
Staged(x) == \E t \in Txns : txn[t] # None /\ (x = txn[t].nursery \/ x \in ToSet(txn[t].stage.content))

\* A contribution that waits is in one place and has no answer yet.
PendingInOnePlace ==
  \A c \in Connections : \A x \in Waiting(c) \cap Changes :
    /\ answer[x] = None /\ ~Recorded(x) /\ ~Staged(x)
    /\ \A d \in Connections : d # c => x \notin Waiting(d)

\* A contribution that was refused is in no world and in no transaction.
RefusedStaysOut ==
  \A x \in Changes :
    answer[x] # None /\ answer[x].kind \in {"rejected", "cancelled", "overtaken", "abandoned"} =>
      ~Recorded(x) /\ ~Staged(x)

IInv ==
  /\ TypeOK /\ Bounded /\ GenerationsGrow
  /\ ConnectionsAreSound /\ TransactionsAreSound /\ QueuesAreSound
  /\ IdentityMeansContent
  /\ PendingInOnePlace /\ RefusedStaysOut /\ AcknowledgedIsDurable

-----------------------------------------------------------------------------
(***************************************************************************)
(* Histories that grow.                                                    *)
(***************************************************************************)

\* A history continues itself, and one that continues a continuation continues it.
LEMMA GrowsIsAnOrder ==
  ASSUME NEW S, NEW s \in Seq(S), NEW t \in Seq(S), NEW u \in Seq(S)
  PROVE  /\ Grows(s, s) /\ Grows(<<>>, s)
         /\ Grows(s, t) /\ Grows(t, u) => Grows(s, u)
  BY DEF Grows

\* A history with one more change continues it.
LEMMA AppendGrows ==
  ASSUME NEW S, NEW s \in Seq(S), NEW x \in S
  PROVE  Grows(s, Append(s, x))
  BY DEF Grows

\* What continues a history has all its changes.
LEMMA GrowsElements ==
  ASSUME NEW S, NEW s \in Seq(S), NEW t \in Seq(S), Grows(s, t)
  PROVE  ToSet(s) \subseteq ToSet(t)
<1>1. \A i \in DOMAIN s : i \in DOMAIN t /\ t[i] = s[i]
  BY DEF Grows
<1>2. QED
  BY <1>1 DEF ToSet

\* Worlds are records of a history and a layout (Core: contribute).
LEMMA WorldsOfContribution ==
  ASSUME ConnectionAssumption, NEW v \in World, NEW x \in Changes, NEW w \in Contributed(v, x),
         IsInjective(v.content), x \notin EmptyBatches => x \notin ToSet(v.content)
  PROVE  /\ w \in World /\ IsInjective(w.content) /\ Grows(v.content, w.content)
         /\ x \in EmptyBatches => w.content = v.content
         /\ x \notin EmptyBatches => /\ w.content = Append(v.content, x)
                                     /\ ToSet(w.content) = ToSet(v.content) \cup {x}
<1>1. v.content \in Seq(Changes) /\ v.layout \in Layouts
  BY DEF World
<1>2. CASE x \in EmptyBatches
  <2>1. w \in World /\ w.content = v.content
    BY <1>1, <1>2 DEF Contributed, World, Layouts
  <2>2. QED
    BY <2>1, <1>1, <1>2, GrowsIsAnOrder
<1>3. CASE x \notin EmptyBatches
  <2>1. w.content = Append(v.content, x) /\ w.layout \in Layouts /\ w = [content |-> w.content, layout |-> w.layout]
    BY <1>3 DEF Contributed, Layouts
  <2>2. Append(v.content, x) \in Seq(Changes)
    BY <1>1
  <2>3. w \in World
    BY <2>1, <2>2 DEF World
  <2>4. QED
    BY <2>1, <2>3, <1>1, <1>3, AppendElements, AppendGrows
<1>4. QED
  BY <1>2, <1>3

-----------------------------------------------------------------------------
(***************************************************************************)
(* Steps of the catalog.                                                   *)
(***************************************************************************)
Timeline(n) == db.timelines[n]

\* The catalog has the rows it had.
SameRows == db' \in Tables /\ db'.timelines = db.timelines

\* World w is the next generation of n.
RowAdded(n, w) ==
  /\ n \in Names /\ w \in World /\ db' \in Tables
  /\ \A m \in Names \ {n} : db'.timelines[m] = db.timelines[m]
  /\ db'.timelines[n] = Append(db.timelines[n], w)
  /\ Len(db.timelines[n]) <= MaxGeneration
  /\ IsInjective(w.content)
  /\ db.timelines[n] # <<>> => Grows(db.timelines[n][Len(db.timelines[n])].content, w.content)

RowsStay == \A h \in SessionHead : IsRow(db, h) => IsRow(db', h)

\* The parts of the tables have their types.
LEMMA RowTypes ==
  ASSUME db \in Tables
  PROVE  \A n \in Names : /\ db.timelines[n] \in Seq(World)
                          /\ \A i \in 1..Len(db.timelines[n]) : /\ db.timelines[n][i] \in World
                                                                /\ RowContent(n, i) \in Seq(Changes)
<1> SUFFICES ASSUME NEW n \in Names
             PROVE  /\ db.timelines[n] \in Seq(World)
                    /\ \A i \in 1..Len(db.timelines[n]) : /\ db.timelines[n][i] \in World
                                                          /\ RowContent(n, i) \in Seq(Changes)
  OBVIOUS
<1>1. db.timelines[n] \in Seq(World)
  BY DEF Tables
<1>2. \A i \in 1..Len(db.timelines[n]) : db.timelines[n][i] \in World
  BY <1>1
<1>3. QED
  BY <1>1, <1>2 DEF RowContent, World

\* Without a new row everything recorded stays as it is.
LEMMA SameRowsStep ==
  ASSUME db \in Tables, SameRows
  PROVE  /\ RowsStay
         /\ Bounded => Bounded'
         /\ GenerationsGrow => GenerationsGrow'
         /\ \A x : Recorded(x)' <=> Recorded(x)
  BY DEF SameRows, RowsStay, IsRow, Bounded, GenerationsGrow, Recorded, RowContent

\* A new row at the end of a timeline (add_session_generation) leaves the rows
\* there are, keeps the order of the generations, and records its own changes.
LEMMA RowAddedStep ==
  ASSUME ConnectionAssumption, db \in Tables, Bounded, GenerationsGrow,
         NEW n \in Names, NEW w \in World, RowAdded(n, w)
  PROVE  /\ RowsStay /\ Bounded' /\ GenerationsGrow'
         /\ \A x : Recorded(x)' <=> Recorded(x) \/ x \in ToSet(w.content)
         /\ db'.timelines[n][Len(db.timelines[n]) + 1] = w
         /\ Len(db'.timelines[n]) = Len(db.timelines[n]) + 1
<1>0. MaxGeneration \in Nat
  BY DEF ConnectionAssumption
<1>9. \A m \in Names : db.timelines[m] \in Seq(World)
  BY RowTypes
<1>k. PICK k \in Nat : k = Len(db.timelines[n])
  BY <1>9
<1>1. /\ db.timelines[n] \in Seq(World) /\ k = Len(db.timelines[n]) /\ k \in Nat
      /\ \A m \in Names : db.timelines[m] \in Seq(World)
  BY <1>9, <1>k
<1>2. /\ Len(db'.timelines[n]) = k + 1
      /\ db'.timelines[n][k + 1] = w
      /\ \A i \in 1..k : db'.timelines[n][i] = db.timelines[n][i]
  BY <1>1 DEF RowAdded
<1>3. \A m \in Names : m # n => db'.timelines[m] = db.timelines[m]
  BY DEF RowAdded
<1>4. RowsStay
  <2> SUFFICES ASSUME NEW h \in SessionHead, IsRow(db, h)
               PROVE  IsRow(db', h)
    BY DEF RowsStay
  <2>1. h.name \in Names /\ h.generation \in Nat /\ h.generation + 1 \in 1..Len(db.timelines[h.name])
    BY <1>1, <1>0 DEF SessionHead, IsRow
  <2>2. CASE h.name = n
    BY <2>1, <2>2, <1>1, <1>2 DEF IsRow
  <2>3. CASE h.name # n
    BY <2>1, <2>3, <1>3 DEF IsRow
  <2>4. QED
    BY <2>2, <2>3
<1>5. Bounded'
  BY <1>0, <1>1, <1>2, <1>3 DEF Bounded, RowAdded
<1>6. GenerationsGrow'
  <2> SUFFICES ASSUME NEW m \in Names, NEW i \in 1..Len(db'.timelines[m])
               PROVE  /\ IsInjective(RowContent(m, i)')
                      /\ \A j \in i..Len(db'.timelines[m]) : Grows(RowContent(m, i)', RowContent(m, j)')
    BY DEF GenerationsGrow
  <2>1. CASE m # n
    BY <2>1, <1>3 DEF GenerationsGrow, RowContent
  <2>2. CASE m = n
    <3>1. /\ w.content \in Seq(Changes)
          /\ \A j \in 1..k : RowContent(n, j) \in Seq(Changes)
      BY <1>1, RowTypes DEF World
    <3>2. \A j \in 1..k : RowContent(n, j)' = RowContent(n, j)
      BY <1>2 DEF RowContent
    <3>3. RowContent(n, k + 1)' = w.content
      BY <1>2 DEF RowContent
    <3>4. \A j \in 1..k : Grows(RowContent(n, j), w.content)
      <4> SUFFICES ASSUME NEW j \in 1..k
                   PROVE  Grows(RowContent(n, j), w.content)
        OBVIOUS
      <4>1. db.timelines[n] # <<>> /\ k \in 1..k /\ k \in j..k
        BY <1>1
      <4>2. Grows(RowContent(n, k), w.content)
        BY <1>1, <4>1 DEF RowAdded, RowContent
      <4>3. Grows(RowContent(n, j), RowContent(n, k))
        BY <1>1, <4>1 DEF GenerationsGrow
      <4>4. QED
        BY <3>1, <4>1, <4>2, <4>3, GrowsIsAnOrder
    <3>5. Grows(w.content, w.content) /\ IsInjective(w.content)
      BY <3>1, GrowsIsAnOrder DEF RowAdded
    <3>6. CASE i = k + 1
      BY <3>6, <3>3, <3>5, <2>2, <1>1, <1>2
    <3>7. CASE i \in 1..k
      <4>1. \A j \in i..k : j \in 1..k /\ Grows(RowContent(n, i), RowContent(n, j))
        BY <3>7, <1>1 DEF GenerationsGrow
      <4>2. IsInjective(RowContent(n, i))
        BY <1>1, <3>7 DEF GenerationsGrow
      <4>3. \A j \in i..(k + 1) : j \in i..k \/ j = k + 1
        BY SMTT(20), <3>7, <1>1
      <4>4. QED
        BY SMTT(20), <4>1, <4>2, <4>3, <3>2, <3>3, <3>4, <3>7, <2>2, <1>2
    <3>8. QED
      BY <3>6, <3>7, <2>2, <1>1, <1>2
  <2>3. QED
    BY <2>1, <2>2
<1>7. ASSUME NEW x
      PROVE  Recorded(x)' <=> Recorded(x) \/ x \in ToSet(w.content)
  <2>1. \A m \in Names : \A i \in 1..Len(db.timelines[m]) :
          i \in 1..Len(db'.timelines[m]) /\ RowContent(m, i)' = RowContent(m, i)
    BY SMTT(20), <1>1, <1>2, <1>3 DEF RowContent
  <2>2. k + 1 \in 1..Len(db'.timelines[n]) /\ RowContent(n, k + 1)' = w.content
    BY <1>1, <1>2 DEF RowContent
  <2>3. \A m \in Names : \A i \in 1..Len(db'.timelines[m]) :
          i \in 1..Len(db.timelines[m]) \/ (m = n /\ i = k + 1)
    BY <1>1, <1>2, <1>3
  <2>4. QED
    BY <2>1, <2>2, <2>3 DEF Recorded
<1>8. QED
  BY <1>1, <1>2, <1>4, <1>5, <1>6, <1>7

\* add_session_generation as an update of the tables.
LEMMA AddRowTables ==
  ASSUME NEW t \in Tables, NEW n \in Names, NEW w \in World, NEW u, u = AddRow(t, n, w)
  PROVE  /\ u \in Tables
         /\ u.timelines[n] = Append(t.timelines[n], w)
         /\ \A m \in Names \ {n} : u.timelines[m] = t.timelines[m]
<1>1. Append(t.timelines[n], w) \in Seq(World)
  BY DEF Tables
<1>2. u.timelines = [t.timelines EXCEPT ![n] = Append(@, w)]
  BY DEF AddRow, Tables
<1>3. u \in Tables
  BY <1>1 DEF AddRow, Tables
<1>4. QED
  BY <1>2, <1>3 DEF Tables

\* fork_session also writes the source of the name.
LEMMA SetSourceTables ==
  ASSUME NEW t \in Tables, NEW n \in Names, NEW p \in Position, NEW u, u = [t EXCEPT !.sources[n] = p]
  PROVE  u \in Tables /\ u.timelines = t.timelines
  BY DEF Tables

\* timeline_at without a generation: the last row.
LEMMA LatestIsRow ==
  ASSUME ConnectionAssumption, db \in Tables, Bounded, NEW n \in Names, Exists(db, n)
  PROVE  /\ Latest(db, n) \in SessionHead /\ IsRow(db, Latest(db, n))
         /\ Latest(db, n).name = n
         /\ Latest(db, n).generation = Len(db.timelines[n]) - 1
         /\ Latest(db, n).checkpoint = db.timelines[n][Len(db.timelines[n])]
         /\ Latest(db, n).checkpoint \in World
<1>1. db.timelines[n] \in Seq(World) /\ db.timelines[n] # <<>>
  BY RowTypes DEF Exists
<1>2. Len(db.timelines[n]) - 1 \in 0..MaxGeneration /\ Len(db.timelines[n]) - 1 + 1 = Len(db.timelines[n])
  BY <1>1 DEF ConnectionAssumption, Bounded
<1>3. db.timelines[n][Len(db.timelines[n])] \in World
  BY <1>1
<1>4. QED
  BY <1>1, <1>2, <1>3 DEF Latest, HeadAt, IsRow, SessionHead

\* What the request that added a row is told.
LEMMA AddedHead ==
  ASSUME ConnectionAssumption, db \in Tables, Bounded, GenerationsGrow,
         NEW n \in Names, NEW w \in World, RowAdded(n, w)
  PROVE  /\ Latest(db', n) \in SessionHead /\ IsRow(db', Latest(db', n))
         /\ Latest(db', n).name = n /\ Latest(db', n).checkpoint = w
<1>1. db' \in Tables /\ db.timelines[n] \in Seq(World) /\ MaxGeneration \in Nat
  BY RowTypes DEF RowAdded, ConnectionAssumption
<1>2. Len(db'.timelines[n]) = Len(db.timelines[n]) + 1 /\ db'.timelines[n][Len(db.timelines[n]) + 1] = w
  BY RowAddedStep
<1>3. Len(db'.timelines[n]) - 1 \in 0..MaxGeneration /\ Len(db'.timelines[n]) - 1 + 1 = Len(db.timelines[n]) + 1
  BY <1>1, <1>2 DEF RowAdded
<1>4. QED
  BY <1>1, <1>2, <1>3 DEF Latest, HeadAt, IsRow, SessionHead

\* create_session adds the first generation of a name.
LEMMA CreateAdds ==
  ASSUME ConnectionAssumption, db \in Tables, NEW n \in Names, NEW w \in World, IsInjective(w.content),
         NEW r, r = [kind |-> "create", name |-> n, checkpoint |-> w], ~Refused(db, r),
         db' = After(db, r)
  PROVE  RowAdded(n, w) /\ OutcomeOf(db, r).head = Latest(db', n) /\ ~Exists(db, n)
<1>1. db' = AddRow(db, n, w)
  BY DEF After
<1>2. db.timelines[n] = <<>>
  BY DEF Refused, Exists
<1>t. PICK t : t = db
  OBVIOUS
<1>u. PICK u : u = db'
  OBVIOUS
<1>v. t \in Tables /\ u = AddRow(t, n, w)
  BY <1>1, <1>t, <1>u
<1>w. /\ u \in Tables /\ u.timelines[n] = Append(t.timelines[n], w)
      /\ \A m \in Names \ {n} : u.timelines[m] = t.timelines[m]
  BY <1>v, AddRowTables
<1>a. /\ db' \in Tables /\ db'.timelines[n] = Append(db.timelines[n], w)
      /\ \A m \in Names \ {n} : db'.timelines[m] = db.timelines[m]
  BY <1>w, <1>t, <1>u
<1>b. Len(db.timelines[n]) <= MaxGeneration
  BY <1>2 DEF ConnectionAssumption
<1>3. RowAdded(n, w)
  BY <1>a, <1>b, <1>2 DEF RowAdded
<1>4. QED
  BY <1>2, <1>3 DEF OutcomeOf, Exists

\* publish_session by a caller that saw the latest generation adds the next one.
LEMMA PublishAdds ==
  ASSUME ConnectionAssumption, db \in Tables, Bounded, NEW e \in SessionHead, NEW w \in World,
         IsInjective(w.content), Grows(e.checkpoint.content, w.content),
         NEW r, r = [kind |-> "publish", expected |-> e, checkpoint |-> w],
         ~Refused(db, r), Wins(db, r), db' = After(db, r)
  PROVE  /\ RowAdded(e.name, w)
         /\ OutcomeOf(db, r).head = Latest(db', e.name)
         /\ Exists(db, e.name) /\ Latest(db, e.name) = e
<1>1. e.name \in Names /\ Exists(db, e.name) /\ Latest(db, e.name) = e
  BY DEF Wins, SessionHead
<1>2. db' = AddRow(db, e.name, w)
  BY DEF After
<1>3. e.generation # MaxGeneration
  BY DEF Refused
<1>4. /\ e.generation = Len(db.timelines[e.name]) - 1
      /\ e.checkpoint = db.timelines[e.name][Len(db.timelines[e.name])]
      /\ db.timelines[e.name] \in Seq(World)
  BY <1>1, LatestIsRow, RowTypes
<1>5. Len(db.timelines[e.name]) <= MaxGeneration
  BY <1>1, <1>3, <1>4 DEF Bounded, ConnectionAssumption
<1>t. PICK t : t = db
  OBVIOUS
<1>u. PICK u : u = db'
  OBVIOUS
<1>v. t \in Tables /\ u = AddRow(t, e.name, w)
  BY <1>2, <1>t, <1>u
<1>w. /\ u \in Tables /\ u.timelines[e.name] = Append(t.timelines[e.name], w)
      /\ \A m \in Names \ {e.name} : u.timelines[m] = t.timelines[m]
  BY <1>1, <1>v, AddRowTables
<1>a. /\ db' \in Tables /\ db'.timelines[e.name] = Append(db.timelines[e.name], w)
      /\ \A m \in Names \ {e.name} : db'.timelines[m] = db.timelines[m]
  BY <1>w, <1>t, <1>u
<1>6. RowAdded(e.name, w)
  BY <1>a, <1>1, <1>4, <1>5 DEF RowAdded
<1>7. QED
  BY <1>1, <1>6 DEF OutcomeOf

\* fork_session adds a first generation that is a row of its source.
LEMMA ForkAdds ==
  ASSUME ConnectionAssumption, db \in Tables, NEW n \in Names, NEW h \in SessionHead,
         IsInjective(h.checkpoint.content),
         NEW r, r = [kind |-> "fork", name |-> n, source |-> h], ~Refused(db, r), db' = After(db, r)
  PROVE  RowAdded(n, h.checkpoint) /\ ~Exists(db, n)
<1> DEFINE w == h.checkpoint
<1>d. PICK d : d = AddRow(db, n, w)
  OBVIOUS
<1>1. w \in World /\ PositionOf(h) \in Position
  BY DEF SessionHead, PositionOf, Position
<1>2. db' = [d EXCEPT !.sources[n] = PositionOf(h)]
  BY <1>d DEF After
<1>3. db.timelines[n] = <<>>
  BY DEF Refused, Exists
<1> HIDE DEF w
<1>t. PICK t : t = db
  OBVIOUS
<1>u. PICK u : u = db'
  OBVIOUS
<1>v. t \in Tables /\ d = AddRow(t, n, w) /\ u = [d EXCEPT !.sources[n] = PositionOf(h)]
  BY <1>2, <1>d, <1>t, <1>u
<1>w. /\ d \in Tables /\ d.timelines[n] = Append(t.timelines[n], w)
      /\ \A m \in Names \ {n} : d.timelines[m] = t.timelines[m]
  BY <1>1, <1>v, AddRowTables
<1>x. u \in Tables /\ u.timelines = d.timelines
  BY <1>1, <1>v, <1>w, SetSourceTables
<1>4. /\ d \in Tables /\ d.timelines[n] = Append(db.timelines[n], w)
      /\ \A m \in Names \ {n} : d.timelines[m] = db.timelines[m]
  BY <1>w, <1>t
<1>5. db' \in Tables /\ db'.timelines = d.timelines
  BY <1>x, <1>u
<1>b. Len(db.timelines[n]) <= MaxGeneration
  BY <1>3 DEF ConnectionAssumption
<1>c. IsInjective(w.content)
  BY DEF w
<1>6. RowAdded(n, w)
  BY <1>1, <1>3, <1>4, <1>5, <1>b, <1>c DEF RowAdded
<1>7. QED
  BY <1>3, <1>6 DEF Exists, w

\* save_session adds no generation.
LEMMA SaveAddsNone ==
  ASSUME db \in Tables, NEW s \in Saves, NEW h \in SessionHead,
         db' = After(db, [kind |-> "save", name |-> s, source |-> h])
  PROVE  SameRows
<1>1. PositionOf(h) \in Position
  BY DEF SessionHead, PositionOf, Position
<1>2. QED
  BY <1>1 DEF SameRows, After, Tables

\* A snapshot a client may hold is a row, and each row is one.
LEMMA SnapshotsAreRows ==
  ASSUME ConnectionAssumption, db \in Tables, Bounded
  PROVE  /\ \A h \in Snapshots : /\ h \in SessionHead /\ IsRow(db, h) /\ h.checkpoint \in World
                                 /\ h.generation + 1 \in 1..Len(db.timelines[h.name])
         /\ \A x : Recorded(x) <=> \E h \in Snapshots : x \in ToSet(h.checkpoint.content)
<1>0. MaxGeneration \in Nat
  BY DEF ConnectionAssumption
<1>1. ASSUME NEW h \in Snapshots
      PROVE  /\ h \in SessionHead /\ IsRow(db, h) /\ h.checkpoint \in World
             /\ h.generation + 1 \in 1..Len(db.timelines[h.name])
             /\ h.name \in Names /\ h.checkpoint.content = RowContent(h.name, h.generation + 1)
  <2>1. PICK p \in Position : p.generation < Len(db.timelines[p.name]) /\ h = HeadAt(db, p)
    BY <1>1 DEF Snapshots
  <2>2. p.name \in Names /\ p.generation \in 0..MaxGeneration
    BY DEF Position
  <2>3. db.timelines[p.name] \in Seq(World) /\ p.generation + 1 \in 1..Len(db.timelines[p.name])
    BY <2>1, <2>2, <1>0, RowTypes
  <2>4. db.timelines[p.name][p.generation + 1] \in World
    BY <2>3
  <2>5. QED
    BY <2>1, <2>2, <2>3, <2>4 DEF HeadAt, SessionHead, IsRow, RowContent
<1>2. ASSUME NEW n \in Names, NEW i \in 1..Len(db.timelines[n])
      PROVE  \E h \in Snapshots : h.checkpoint.content = RowContent(n, i)
  <2> DEFINE p == [name |-> n, generation |-> i - 1]
  <2>1. Len(db.timelines[n]) \in Nat /\ Len(db.timelines[n]) <= MaxGeneration + 1
    BY RowTypes DEF Bounded
  <2>2. p \in Position /\ p.generation < Len(db.timelines[p.name]) /\ p.generation + 1 = i
    BY <2>1, <1>0 DEF Position
  <2>3. HeadAt(db, p) \in Snapshots
    BY <2>2 DEF Snapshots
  <2>4. HeadAt(db, p).checkpoint.content = RowContent(n, i)
    BY <2>2 DEF HeadAt, RowContent
  <2>5. QED
    BY <2>3, <2>4
<1>3. QED
  BY <1>1, <1>2 DEF Recorded

-----------------------------------------------------------------------------
(***************************************************************************)
(* A step as one connection sees it.                                       *)
(***************************************************************************)
SameAt(d) ==
  /\ phase'[d] = phase[d] /\ name'[d] = name[d] /\ current'[d] = current[d]
  /\ core'[d] = core[d] /\ queue'[d] = queue[d] /\ working'[d] = working[d]

CatalogGrows == RowsStay /\ Bounded' /\ GenerationsGrow'

Unclaimed(x) == answer[x] = None /\ \A d \in Connections : x \notin Waiting(d)

Kept(c, x) == x \in Waiting(c) /\ answer'[x] = answer[x] /\ (x \in Txns => txn'[x] = txn[x])

Admitted(c, x) ==
  /\ x \in Changes => Unclaimed(x) /\ answer'[x] = None /\ ~Recorded(x) /\ ~Staged(x)
  /\ x \in Txns => txn'[x] # None /\ txn'[x].on = c /\ txn'[x].state = "queued"

\* What waits at c waited there before or is new.
QueueStep(c) ==
  /\ IsInjective(queue'[c])
  /\ working'[c] # None => working'[c].command \notin ToSet(queue'[c])
  /\ \A x \in Waiting(c)' : Kept(c, x) \/ Admitted(c, x)

Identified(t) ==
  StillCurrent(txn[t].on, t) =>
    current[txn[t].on].head.checkpoint.content = txn[t].base.head.checkpoint.content

Holds(v, x) == x = v.nursery \/ x \in ToSet(v.stage.content)

\* A transaction that changed waits nowhere but at c and took in no claimed change;
\* one of c that did not can still be told apart from the current world.
TxnStep(c) ==
  \A t \in Txns :
    /\ txn'[t] # txn[t] =>
         /\ \A d \in Connections \ {c} : t \notin Waiting(d)
         /\ txn'[t] # None =>
              /\ TransactionIsSound(t)' /\ Identified(t)'
              /\ \A x \in Changes : Holds(txn'[t], x) =>
                   \/ Staged(x) \/ Recorded(x)
                   \/ Unclaimed(x) /\ (c \in Connections => x \notin Waiting(c)')
    /\ txn'[t] = txn[t] /\ txn[t] # None /\ txn[t].on = c =>
         phase'[c] \in {"open", "failed"} /\ Identified(t)'

RefusedKinds == {"rejected", "cancelled", "overtaken", "abandoned"}

\* Rows are written of recorded and staged changes and of the one c publishes.
RowStep(c) ==
  \A x \in Changes : Recorded(x)' =>
    \/ Recorded(x) \/ Staged(x)
    \/ c \in Connections /\ x \in Waiting(c) /\ x \notin Waiting(c)' /\ answer'[x].kind \notin RefusedKinds

Durable(x) ==
  /\ IsRow(db, answer[x].head)
  /\ x \in Changes \ EmptyBatches => x \in ToSet(answer[x].head.checkpoint.content)

\* Only what waited at c is answered, and success only for what is durable.
AnswerStep(c) ==
  \A x \in Commands : answer'[x] # answer[x] =>
    /\ x \in Changes => c \in Connections /\ x \in Waiting(c)
    /\ answer'[x] # None /\ answer'[x].kind = "done" => Durable(x)'

SafeStep(c) ==
  /\ CatalogGrows
  /\ \A d \in Connections \ {c} : SameAt(d)
  /\ c \in Connections => ConnectionIsSound(c)' /\ QueueStep(c)
  /\ TxnStep(c) /\ RowStep(c) /\ AnswerStep(c)

\* A connection at which nothing happened stays sound when rows are added.
LEMMA SameConnection ==
  ASSUME TypeOK, NEW d \in Connections, ConnectionIsSound(d), SameAt(d), RowsStay,
         \A t \in Txns \cap Waiting(d) : txn'[t] = txn[t]
  PROVE  ConnectionIsSound(d)' /\ Waiting(d)' = Waiting(d)
<1>1. Waiting(d)' = Waiting(d)
  BY DEF SameAt, Waiting
<1>2. phase[d] \in {"open", "failed"} => IsRow(db', current[d].head)
  <2>1. phase[d] \in {"open", "failed"} => current[d].head \in SessionHead /\ IsRow(db, current[d].head)
    BY DEF TypeOK, ConnectionIsSound, Stored
  <2>2. QED
    BY <2>1 DEF RowsStay
<1>3. ASSUME working[d] # None
      PROVE  UpdateIsSound(d)'
  <2>1. UpdateIsSound(d) /\ working'[d] = working[d] /\ Shown(d)' = Shown(d)
    BY <1>3 DEF ConnectionIsSound, SameAt, Shown
  <2>2. working[d].command \in Txns => txn'[working[d].command] = txn[working[d].command]
    BY <1>3 DEF Waiting, Commands
  <2>3. QED
    BY <2>1, <2>2 DEF UpdateIsSound
<1>4. QED
  BY <1>1, <1>2, <1>3 DEF ConnectionIsSound, SameAt, Idle, Shown

\* A safe step keeps the invariant.
LEMMA SafeStepKeeps ==
  ASSUME ConnectionAssumption, IInv, TypeOK', NEW c, SafeStep(c)
  PROVE  IInv'
<1>1. /\ TypeOK /\ ConnectionsAreSound /\ TransactionsAreSound /\ QueuesAreSound
      /\ IdentityMeansContent /\ PendingInOnePlace /\ RefusedStaysOut /\ AcknowledgedIsDurable
  BY DEF IInv
<1>2. /\ RowsStay /\ Bounded' /\ GenerationsGrow'
      /\ \A d \in Connections \ {c} : SameAt(d)
      /\ c \in Connections => ConnectionIsSound(c)' /\ QueueStep(c)
      /\ TxnStep(c) /\ RowStep(c) /\ AnswerStep(c)
  BY DEF SafeStep, CatalogGrows
<1>3. \A t \in Txns : \A d \in Connections \ {c} : t \in Waiting(d) => txn'[t] = txn[t]
  BY <1>2 DEF TxnStep
<1>4. \A d \in Connections \ {c} : ConnectionIsSound(d)' /\ Waiting(d)' = Waiting(d)
  BY <1>1, <1>2, <1>3, SameConnection DEF ConnectionsAreSound
<1>5. ConnectionsAreSound'
  BY <1>2, <1>4 DEF ConnectionsAreSound
<1>6. TransactionsAreSound'
  <2> SUFFICES ASSUME NEW t \in Txns, txn'[t] # None
               PROVE  TransactionIsSound(t)'
    BY DEF TransactionsAreSound
  <2>1. CASE txn'[t] # txn[t]
    BY <2>1, <1>2 DEF TxnStep
  <2>2. CASE txn'[t] = txn[t]
    <3>1. txn[t].on \in Connections /\ TransactionIsSound(t)
      BY <2>2, <1>1 DEF TypeOK, Transaction, TransactionsAreSound
    <3>2. phase'[txn[t].on] \in {"open", "failed"}
      BY <2>2, <3>1, <1>2 DEF TxnStep, SameAt, TransactionIsSound
    <3>3. QED
      BY <2>2, <3>1, <3>2 DEF TransactionIsSound
  <2>3. QED
    BY <2>1, <2>2
<1>7. IdentityMeansContent'
  <2> SUFFICES ASSUME NEW t \in Txns, txn'[t] # None
               PROVE  Identified(t)'
    BY DEF IdentityMeansContent, Identified
  <2>1. CASE txn'[t] # txn[t]
    BY <2>1, <1>2 DEF TxnStep
  <2>2. CASE txn'[t] = txn[t] /\ txn[t].on = c
    BY <2>2, <1>2 DEF TxnStep
  <2>3. CASE txn'[t] = txn[t] /\ txn[t].on # c
    <3>1. txn[t].on \in Connections \ {c} /\ Identified(t)
      BY <2>3, <1>1 DEF TypeOK, Transaction, IdentityMeansContent, Identified
    <3>2. current'[txn[t].on] = current[txn[t].on]
      BY <3>1, <1>2 DEF SameAt
    <3>3. QED
      BY <2>3, <3>1, <3>2 DEF Identified, StillCurrent
  <2>4. QED
    BY <2>1, <2>2, <2>3
<1>8. QueuesAreSound'
  <2> SUFFICES ASSUME NEW d \in Connections
               PROVE  /\ IsInjective(queue'[d])
                      /\ working'[d] # None => working'[d].command \notin ToSet(queue'[d])
                      /\ \A t \in Waiting(d)' \cap Txns :
                           txn'[t] # None /\ txn'[t].on = d /\ txn'[t].state = "queued"
    BY DEF QueuesAreSound
  <2>1. /\ IsInjective(queue[d])
        /\ working[d] # None => working[d].command \notin ToSet(queue[d])
        /\ \A t \in Waiting(d) \cap Txns : txn[t] # None /\ txn[t].on = d /\ txn[t].state = "queued"
    BY <1>1 DEF QueuesAreSound
  <2>2. CASE d # c
    BY <2>1, <2>2, <1>2, <1>3, <1>4 DEF SameAt
  <2>3. CASE d = c
    BY <2>1, <2>3, <1>2 DEF QueueStep, Kept, Admitted
  <2>4. QED
    BY <2>2, <2>3
<1>9. \A x \in Changes : Staged(x)' =>
        \/ Staged(x) \/ Recorded(x)
        \/ Unclaimed(x) /\ (c \in Connections => x \notin Waiting(c)')
  <2> SUFFICES ASSUME NEW x \in Changes, NEW t \in Txns, txn'[t] # None, Holds(txn'[t], x)
               PROVE  \/ Staged(x) \/ Recorded(x)
                      \/ Unclaimed(x) /\ (c \in Connections => x \notin Waiting(c)')
    BY DEF Staged, Holds
  <2>1. CASE txn'[t] = txn[t]
    BY <2>1 DEF Staged, Holds
  <2>2. CASE txn'[t] # txn[t]
    BY <2>2, <1>2 DEF TxnStep
  <2>3. QED
    BY <2>1, <2>2
<1>10. PendingInOnePlace'
  <2> SUFFICES ASSUME NEW d \in Connections, NEW x \in Changes, x \in Waiting(d)'
               PROVE  /\ answer'[x] = None /\ ~Recorded(x)' /\ ~Staged(x)'
                      /\ \A e \in Connections : e # d => x \notin Waiting(e)'
    BY DEF PendingInOnePlace
  <2>1. x \in Commands
    BY DEF Commands
  <2>2. \A e \in Connections : x \in Waiting(e) =>
          /\ answer[x] = None /\ ~Recorded(x) /\ ~Staged(x)
          /\ \A f \in Connections : f # e => x \notin Waiting(f)
    BY <1>1 DEF PendingInOnePlace
  <2>3. CASE d # c
    <3>1. x \in Waiting(d)
      BY <2>3, <1>4
    <3>2. answer'[x] = None
      BY <2>1, <2>2, <2>3, <3>1, <1>2 DEF AnswerStep
    <3>3. ~Recorded(x)'
      BY <2>2, <2>3, <3>1, <1>2 DEF RowStep
    <3>4. ~Staged(x)'
      BY <2>2, <3>1, <1>9 DEF Unclaimed
    <3>5. ASSUME NEW e \in Connections, e # d
          PROVE  x \notin Waiting(e)'
      <4>1. CASE e = c
        BY <4>1, <3>1, <2>2, <3>5, <1>2 DEF QueueStep, Kept, Admitted, Unclaimed
      <4>2. CASE e # c
        BY <4>2, <3>1, <2>2, <3>5, <1>4
      <4>3. QED
        BY <4>1, <4>2
    <3>6. QED
      BY <3>2, <3>3, <3>4, <3>5
  <2>4. CASE d = c
    <3>1. Kept(c, x) \/ Admitted(c, x)
      BY <2>4, <1>2 DEF QueueStep
    <3>2. /\ answer'[x] = None /\ ~Recorded(x) /\ ~Staged(x)
          /\ \A e \in Connections : e # c => x \notin Waiting(e)
      BY <2>2, <2>4, <3>1 DEF Kept, Admitted, Unclaimed
    <3>3. ~Recorded(x)'
      BY <2>4, <3>2, <1>2 DEF RowStep
    <3>4. ~Staged(x)'
      BY <2>4, <3>2, <1>9
    <3>5. QED
      BY <2>4, <3>2, <3>3, <3>4, <1>4
  <2>5. QED
    BY <2>3, <2>4
<1>11. RefusedStaysOut'
  <2> SUFFICES ASSUME NEW x \in Changes, answer'[x] # None, answer'[x].kind \in RefusedKinds
               PROVE  ~Recorded(x)' /\ ~Staged(x)'
    BY DEF RefusedStaysOut, RefusedKinds
  <2>1. x \in Commands
    BY DEF Commands
  <2>2. \A d \in Connections : x \in Waiting(d) => answer[x] = None /\ ~Recorded(x) /\ ~Staged(x)
    BY <1>1 DEF PendingInOnePlace
  <2>3. CASE answer'[x] = answer[x]
    <3>1. ~Recorded(x) /\ ~Staged(x) /\ answer[x] # None
      BY <2>3, <1>1 DEF RefusedStaysOut, RefusedKinds
    <3>2. QED
      BY <3>1, <2>2, <1>2, <1>9 DEF RowStep, Unclaimed
  <2>4. CASE answer'[x] # answer[x]
    <3>1. c \in Connections /\ x \in Waiting(c)
      BY <2>1, <2>4, <1>2 DEF AnswerStep
    <3>2. QED
      BY <3>1, <2>2, <1>2, <1>9 DEF RowStep, Unclaimed
  <2>5. QED
    BY <2>3, <2>4
<1>12. AcknowledgedIsDurable'
  <2> SUFFICES ASSUME NEW x \in Commands, answer'[x] # None, answer'[x].kind = "done"
               PROVE  Durable(x)'
    BY DEF AcknowledgedIsDurable, Durable
  <2>1. CASE answer'[x] = answer[x]
    <3>1. Durable(x)
      BY <2>1, <1>1 DEF AcknowledgedIsDurable, Durable
    <3>2. answer[x].head \in SessionHead
      BY <2>1, <1>1 DEF TypeOK, Answers
    <3>3. IsRow(db', answer[x].head)
      BY <3>1, <3>2, <1>2 DEF RowsStay, Durable
    <3>4. QED
      BY <2>1, <3>1, <3>3 DEF Durable
  <2>2. CASE answer'[x] # answer[x]
    BY <2>2, <1>2 DEF AnswerStep
  <2>3. QED
    BY <2>1, <2>2
<1>13. QED
  BY <1>2, <1>5, <1>6, <1>7, <1>8, <1>10, <1>11, <1>12 DEF IInv

-----------------------------------------------------------------------------
(***************************************************************************)
(* Facts the actions share.                                                *)
(***************************************************************************)

\* An allocation finds an address that nobody keeps alive.
LEMMA FreshIsFree ==
  ASSUME ConnectionAssumption, TypeOK
  PROVE  Fresh \in Identities /\ Fresh \notin Held
<1> DEFINE keeps == [h \in Connections \cup Txns |->
                       IF h \in Connections
                       THEN IF current[h] # None THEN current[h].logical ELSE None
                       ELSE IF txn[h] # None THEN txn[h].base.logical ELSE None]
<1>1. \A h \in Connections \cup Txns : keeps[h] \in Identities \cup {None}
  BY DEF TypeOK, Stored, Transaction
<1>2. keeps \in [Connections \cup Txns -> Identities \cup {None}]
  BY <1>1
<1>3. PICK i \in Identities : \A h \in Connections \cup Txns : keeps[h] # i
  BY <1>2 DEF ConnectionAssumption
<1>4. \A c \in Connections : current[c] # None => current[c].logical # i
  BY <1>3
<1>5. \A t \in Txns : txn[t] # None => txn[t].base.logical # i
  BY <1>3 DEF ConnectionAssumption
<1>6. i \notin Held
  BY <1>4, <1>5 DEF Held
<1>7. QED
  BY <1>6 DEF Fresh

\* An unchanged catalog.
LEMMA SameCatalog ==
  ASSUME IInv, UNCHANGED db
  PROVE  db' \in Tables /\ CatalogGrows /\ \A x : Recorded(x)' <=> Recorded(x)
<1>1. db \in Tables /\ SameRows /\ Bounded /\ GenerationsGrow
  BY DEF IInv, TypeOK, SameRows
<1>2. QED
  BY <1>1, SameRowsStep DEF CatalogGrows, SameRows

\* What a connection shows is in the catalog.
LEMMA ShownIsRecorded ==
  ASSUME ConnectionAssumption, IInv, NEW c \in Connections, phase[c] \in {"open", "failed"}
  PROVE  /\ current[c] \in Stored /\ current[c].head \in SessionHead
         /\ current[c].head.checkpoint \in World
         /\ Shown(c) \in Seq(Changes) /\ IsInjective(Shown(c))
         /\ \A x \in ToSet(Shown(c)) : Recorded(x)
<1>1. /\ current[c] \in Stored /\ current[c].head \in SessionHead
      /\ current[c].head.checkpoint \in World /\ Shown(c) \in Seq(Changes)
      /\ IsRow(db, current[c].head)
  BY DEF IInv, TypeOK, ConnectionsAreSound, ConnectionIsSound, Stored, SessionHead, World, Shown
<1> DEFINE n == current[c].head.name
           i == current[c].head.generation + 1
<1>2. n \in Names /\ db.timelines[n] \in Seq(World) /\ current[c].head.generation \in Nat
  BY <1>1, RowTypes DEF IInv, TypeOK, SessionHead, ConnectionAssumption
<1>3. i \in 1..Len(db.timelines[n]) /\ Shown(c) = RowContent(n, i)
  BY <1>1, <1>2 DEF IsRow, Shown, RowContent
<1>4. QED
  BY <1>1, <1>2, <1>3 DEF IInv, GenerationsGrow, Recorded

\* Transactions that stay as they are or are dropped, their connection showing what it showed.
LEMMA TxnsKeptOrDropped ==
  ASSUME IInv, NEW c,
         \A t \in Txns : \/ txn'[t] = txn[t]
                         \/ txn'[t] = None /\ \A d \in Connections \ {c} : t \notin Waiting(d),
         \A t \in Txns : txn'[t] = txn[t] /\ txn[t] # None /\ txn[t].on = c =>
           /\ phase'[c] \in {"open", "failed"}
           /\ txn[t].base.logical = current'[c].logical =>
                current[c].logical = current'[c].logical /\ Shown(c)' = Shown(c)
  PROVE  TxnStep(c)
<1> SUFFICES ASSUME NEW t \in Txns, txn'[t] = txn[t], txn[t] # None, txn[t].on = c
             PROVE  phase'[c] \in {"open", "failed"} /\ Identified(t)'
  BY DEF TxnStep
<1>1. Identified(t)
  BY DEF IInv, IdentityMeansContent, Identified
<1>2. QED
  BY <1>1 DEF Identified, StillCurrent, Shown

\* A transaction waits at its own connection only.
LEMMA WaitsOnce ==
  ASSUME IInv, NEW c \in Connections, NEW t \in Txns
  PROVE  /\ t \in Waiting(c) => \A d \in Connections \ {c} : t \notin Waiting(d)
         /\ txn[t] # None /\ txn[t].on = c => \A d \in Connections \ {c} : t \notin Waiting(d)
         /\ txn[t] = None \/ txn[t].state # "queued" => \A d \in Connections : t \notin Waiting(d)
  BY DEF IInv, QueuesAreSound

\* What the worker claims, and the queue without it.
LEMMA ClaimFacts ==
  ASSUME ConnectionAssumption, IInv, NEW c \in Connections, NEW x, Claims(c, x)
  PROVE  /\ phase[c] = "open" /\ working[c] = None
         /\ x \in Commands /\ x \in Waiting(c) /\ x # None
         /\ Waiting(c) = ToSet(queue[c])
         /\ Tail(queue[c]) \in Seq(Commands) /\ IsInjective(Tail(queue[c]))
         /\ ToSet(Tail(queue[c])) = Waiting(c) \ {x}
         /\ core[c] \in World /\ core[c].content = Shown(c)
<1>1. phase[c] = "open" /\ working[c] = None /\ queue[c] # <<>> /\ x = Head(queue[c]) /\ Idle(c)
  BY DEF Claims, Idle
<1>2. queue[c] \in Seq(Commands) /\ IsInjective(queue[c])
  BY DEF IInv, TypeOK, QueuesAreSound
<1>3. /\ x \in Commands /\ x \in ToSet(queue[c]) /\ Tail(queue[c]) \in Seq(Commands)
      /\ ToSet(Tail(queue[c])) = ToSet(queue[c]) \ {x} /\ IsInjective(Tail(queue[c]))
  BY <1>1, <1>2, TailElements
<1>4. Waiting(c) = ToSet(queue[c])
  BY <1>1 DEF Waiting
<1>5. core[c] \in World /\ core[c].content = Shown(c)
  BY <1>1 DEF IInv, TypeOK, ConnectionsAreSound, ConnectionIsSound
<1>6. QED
  BY <1>1, <1>3, <1>4, <1>5 DEF ConnectionAssumption

\* A contribution that waits is in no world yet.
LEMMA WaitingIsNew ==
  ASSUME ConnectionAssumption, IInv, NEW c \in Connections, NEW x \in Changes, x \in Waiting(c)
  PROVE  answer[x] = None /\ ~Recorded(x) /\ ~Staged(x) /\ x \notin ToSet(Shown(c))
<1>1. answer[x] = None /\ ~Recorded(x) /\ ~Staged(x)
  BY DEF IInv, PendingInOnePlace
<1>2. phase[c] = "open"
  <2>1. ToSet(<<>>) = {}
    BY DEF ToSet
  <2>2. QED
    BY <2>1 DEF IInv, ConnectionsAreSound, ConnectionIsSound, Waiting
<1>3. QED
  BY <1>1, <1>2, ShownIsRecorded

-----------------------------------------------------------------------------
(***************************************************************************)
(* The worker takes a command.                                             *)
(***************************************************************************)

\* The claimed command leaves the queue, and is settled or handed to publication
\* (Contribute, ContributeNothing, Reject, Conflict, InstallNothing, Install).
LEMMA ClaimStep ==
  ASSUME ConnectionAssumption, IInv, TypeOK', NEW c \in Connections, NEW x, Claims(c, x),
         UNCHANGED <<db, phase, name, current>>, queue' = [queue EXCEPT ![c] = Tail(@)],
         \A d \in Connections \ {c} : core'[d] = core[d] /\ working'[d] = working[d],
         txn' = txn \/ (txn' = [txn EXCEPT ![x] = None] /\ working'[c] = None),
         \A y \in Commands : answer'[y] = answer[y] \/ (y = x /\ working'[c] = None),
         answer'[x] # answer[x] /\ answer'[x] # None /\ answer'[x].kind = "done" =>
           /\ IsRow(db', answer'[x].head)
           /\ x \in Changes \ EmptyBatches => x \in ToSet(answer'[x].head.checkpoint.content),
         core'[c] # None,
         \/ working'[c] = None /\ core'[c] = core[c]
         \/ working'[c] # None /\ working'[c].command = x /\ UpdateIsSound(c)'
  PROVE  IInv'
<1>1. /\ phase[c] = "open" /\ working[c] = None
      /\ x \in Commands /\ x \in Waiting(c) /\ x # None
      /\ Waiting(c) = ToSet(queue[c])
      /\ Tail(queue[c]) \in Seq(Commands) /\ IsInjective(Tail(queue[c]))
      /\ ToSet(Tail(queue[c])) = Waiting(c) \ {x}
      /\ core[c] \in World /\ core[c].content = Shown(c)
  BY ClaimFacts
<1>2. /\ TypeOK /\ queue'[c] = Tail(queue[c]) /\ \A d \in Connections \ {c} : queue'[d] = queue[d]
      /\ \A t \in Txns : txn'[t] = txn[t] \/ (t = x /\ txn'[t] = None /\ working'[c] = None)
  BY DEF IInv, TypeOK
<1>3. CatalogGrows /\ \A y : Recorded(y)' <=> Recorded(y)
  BY SameCatalog
<1>4. \A d \in Connections \ {c} : SameAt(d)
  BY <1>2 DEF SameAt
<1>5. ConnectionIsSound(c)'
  <2>1. /\ ConnectionIsSound(c) /\ phase'[c] = "open" /\ name'[c] = name[c] /\ current'[c] = current[c]
        /\ db' = db
    BY <1>1 DEF IInv, ConnectionsAreSound
  <2>2. CASE working'[c] = None /\ core'[c] = core[c]
    BY <1>1, <2>1, <2>2 DEF ConnectionIsSound, Idle, Shown
  <2>3. CASE working'[c] # None /\ UpdateIsSound(c)'
    BY <1>1, <2>1, <2>3 DEF ConnectionIsSound, Idle
  <2>4. QED
    BY <2>2, <2>3
<1>6. QueueStep(c)
  <2>1. working'[c] # None => working'[c].command = x
    OBVIOUS
  <2>2. \A y \in Waiting(c)' : y \in Waiting(c) /\ y \in Commands /\ (working'[c] = None => y # x)
    <3> SUFFICES ASSUME NEW y, y \in Waiting(c)'
                 PROVE  y \in Waiting(c) /\ y \in Commands /\ (working'[c] = None => y # x)
      OBVIOUS
    <3>1. y \in ToSet(Tail(queue[c])) \/ (working'[c] # None /\ y = x)
      BY <1>2, <2>1 DEF Waiting
    <3>2. ToSet(Tail(queue[c])) \subseteq Commands
      BY <1>1 DEF ToSet
    <3>3. QED
      BY <3>1, <3>2, <1>1
  <2>3. \A y \in Waiting(c)' : Kept(c, y)
    BY <1>2, <2>2 DEF Kept
  <2>4. QED
    BY <1>1, <1>2, <2>1, <2>3 DEF QueueStep
<1>7. TxnStep(c)
  <2>1. \A t \in Txns : \/ txn'[t] = txn[t]
                        \/ txn'[t] = None /\ \A d \in Connections \ {c} : t \notin Waiting(d)
    BY <1>1, <1>2, WaitsOnce
  <2>2. \A t \in Txns : txn'[t] = txn[t] /\ txn[t] # None /\ txn[t].on = c =>
           /\ phase'[c] \in {"open", "failed"}
           /\ txn[t].base.logical = current'[c].logical =>
                current[c].logical = current'[c].logical /\ Shown(c)' = Shown(c)
    BY <1>1 DEF Shown
  <2>3. QED
    BY <2>1, <2>2, TxnsKeptOrDropped
<1>8. RowStep(c)
  BY <1>3 DEF RowStep
<1>9. AnswerStep(c)
  BY <1>1 DEF AnswerStep, Durable
<1>10. SafeStep(c)
  BY <1>3, <1>4, <1>5, <1>6, <1>7, <1>8, <1>9 DEF SafeStep
<1>11. QED
  BY <1>10, SafeStepKeeps

\* The claimed command is settled at once (ContributeNothing, Reject, Conflict, InstallNothing).
LEMMA AnsweredClaim ==
  ASSUME ConnectionAssumption, IInv, TypeOK', NEW c \in Connections, NEW x, Claims(c, x),
         UNCHANGED <<db, phase, name, current, core, working>>,
         queue' = [queue EXCEPT ![c] = Tail(@)],
         txn' = txn \/ txn' = [txn EXCEPT ![x] = None],
         \A y \in Commands : y # x => answer'[y] = answer[y],
         answer'[x].kind = "done" =>
           /\ IsRow(db', answer'[x].head)
           /\ x \in Changes \ EmptyBatches => x \in ToSet(answer'[x].head.checkpoint.content)
  PROVE  IInv'
<1>1. working[c] = None /\ core[c] \in World
  BY ClaimFacts
<1>2. working'[c] = None /\ core'[c] = core[c] /\ core'[c] # None
  BY <1>1 DEF ConnectionAssumption
<1>3. txn' = txn \/ (txn' = [txn EXCEPT ![x] = None] /\ working'[c] = None)
  BY <1>2
<1>4. \A y \in Commands : answer'[y] = answer[y] \/ (y = x /\ working'[c] = None)
  BY <1>2
<1>5. \A d \in Connections \ {c} : core'[d] = core[d] /\ working'[d] = working[d]
  OBVIOUS
<1>6. QED
  BY ZenonT(60), <1>2, <1>3, <1>4, <1>5, ClaimStep

\* core_->contribute admitted the change; publication follows.
LEMMA ContributeKeeps ==
  ASSUME ConnectionAssumption, IInv, NEW c \in Connections, NEW x \in Commands, Contribute(c, x)
  PROVE  IInv'
<1>1. Claims(c, x) /\ x \in Changes
  BY DEF Contribute
<1>2. /\ phase[c] = "open" /\ x \in Waiting(c) /\ x # None
      /\ Tail(queue[c]) \in Seq(Commands) /\ core[c] \in World /\ core[c].content = Shown(c)
  BY <1>1, ClaimFacts
<1>3. PICK w \in Contributed(core[c], x) :
        /\ core' = [core EXCEPT ![c] = w]
        /\ working' = [working EXCEPT ![c] = [command |-> x, world |-> w]]
  BY DEF Contribute
<1>4. /\ Shown(c) \in Seq(Changes) /\ IsInjective(Shown(c)) /\ x \notin ToSet(Shown(c))
      /\ current[c].head.checkpoint \in World
  BY <1>1, <1>2, ShownIsRecorded, WaitingIsNew
<1>5. /\ w \in World /\ IsInjective(w.content) /\ Grows(Shown(c), w.content)
      /\ x \in EmptyBatches => w.content = Shown(c)
      /\ x \notin EmptyBatches => w.content = Append(Shown(c), x)
  <2>1. /\ w \in World /\ IsInjective(w.content) /\ Grows(core[c].content, w.content)
        /\ x \in EmptyBatches => w.content = core[c].content
        /\ x \notin EmptyBatches => w.content = Append(core[c].content, x)
    <3>1. PICK v \in World : v = core[c]
      BY <1>2
    <3>2. w \in Contributed(v, x) /\ IsInjective(v.content) /\ x \notin ToSet(v.content)
      BY <3>1, <1>2, <1>3, <1>4
    <3>3. /\ w \in World /\ IsInjective(w.content) /\ Grows(v.content, w.content)
          /\ x \in EmptyBatches => w.content = v.content
          /\ x \notin EmptyBatches => w.content = Append(v.content, x)
      BY <3>2, <1>1, WorldsOfContribution
    <3>4. QED
      BY <3>1, <3>3
  <2>2. QED
    BY <2>1, <1>2
<1>6. /\ UNCHANGED <<db, phase, name, current, txn, answer>>
      /\ queue' = [queue EXCEPT ![c] = Tail(@)]
  BY DEF Contribute, Dequeue
<1>7. [command |-> x, world |-> w] \in Update
  BY <1>5 DEF Update
<1>8. TypeOK /\ TypeOK'
  BY <1>2, <1>3, <1>5, <1>6, <1>7 DEF IInv, TypeOK
<1>9. /\ working'[c].command = x /\ working'[c].world = w /\ working'[c] # None
      /\ core'[c] # None /\ \A d \in Connections \ {c} : core'[d] = core[d] /\ working'[d] = working[d]
  BY <1>3, <1>5, <1>7, <1>8 DEF TypeOK, ConnectionAssumption
<1>10. x \notin Txns
  BY <1>1 DEF ConnectionAssumption
<1>11. UpdateIsSound(c)'
  BY <1>1, <1>2, <1>5, <1>6, <1>9, <1>10 DEF UpdateIsSound, Shown
<1>12. QED
  BY <1>1, <1>6, <1>8, <1>9, <1>11, ClaimStep

\* An empty batch that left the layout alone is answered at once.
LEMMA ContributeNothingKeeps ==
  ASSUME ConnectionAssumption, IInv, NEW c \in Connections, NEW x \in Commands, ContributeNothing(c, x)
  PROVE  IInv'
<1>1. Claims(c, x) /\ x \in EmptyBatches /\ x \in Changes
  BY DEF ContributeNothing, ConnectionAssumption
<1>2. /\ phase[c] = "open" /\ working[c] = None
      /\ Tail(queue[c]) \in Seq(Commands) /\ core[c] \in World
  BY <1>1, ClaimFacts
<1>3. current[c].head \in SessionHead /\ IsRow(db, current[c].head)
  BY <1>2, ShownIsRecorded DEF IInv, ConnectionsAreSound, ConnectionIsSound
<1>4. /\ UNCHANGED <<db, phase, name, current, core, working, txn>>
      /\ queue' = [queue EXCEPT ![c] = Tail(@)]
      /\ answer' = [answer EXCEPT ![x] = [kind |-> "done", head |-> current[c].head]]
  BY DEF ContributeNothing, Dequeue, Done
<1>5. [kind |-> "done", head |-> current[c].head] \in Answers
  BY <1>3 DEF Answers
<1>6. TypeOK /\ TypeOK'
  BY <1>2, <1>4, <1>5 DEF IInv, TypeOK
<1>7. answer'[x].head = current[c].head /\ \A y \in Commands : y # x => answer'[y] = answer[y]
  BY <1>4, <1>6 DEF TypeOK
<1>8. /\ IsRow(db', answer'[x].head)
      /\ x \in Changes \ EmptyBatches => x \in ToSet(answer'[x].head.checkpoint.content)
  BY <1>1, <1>3, <1>4, <1>7
<1>9. QED
  BY <1>1, <1>4, <1>6, <1>7, <1>8, AnsweredClaim

\* Only the ticket of a batch the core rejected fails.
LEMMA RejectKeeps ==
  ASSUME ConnectionAssumption, IInv, NEW c \in Connections, NEW x \in Commands, Reject(c, x)
  PROVE  IInv'
<1>1. Claims(c, x) /\ x \in Changes
  BY DEF Reject
<1>2. working[c] = None /\ Tail(queue[c]) \in Seq(Commands) /\ core[c] \in World
  BY <1>1, ClaimFacts
<1>3. /\ UNCHANGED <<db, phase, name, current, core, working, txn>>
      /\ queue' = [queue EXCEPT ![c] = Tail(@)]
      /\ answer' = [y \in Commands |-> IF y \in {x} THEN [kind |-> "rejected"] ELSE answer[y]]
  BY DEF Reject, Dequeue, Settle
<1>4. [kind |-> "rejected"] \in Answers
  BY DEF Answers
<1>5. TypeOK /\ TypeOK'
  BY <1>2, <1>3, <1>4 DEF IInv, TypeOK
<1>6. answer'[x].kind = "rejected" /\ \A y \in Commands : y # x => answer'[y] = answer[y]
  BY <1>3
<1>7. QED
  BY <1>1, <1>3, <1>5, <1>6, AnsweredClaim

\* A transaction whose base is no longer current is answered with a conflict.
LEMMA ConflictKeeps ==
  ASSUME ConnectionAssumption, IInv, NEW c \in Connections, NEW x \in Commands, Conflict(c, x)
  PROVE  IInv'
<1>1. Claims(c, x) /\ x \in Txns
  BY DEF Conflict
<1>2. working[c] = None /\ Tail(queue[c]) \in Seq(Commands) /\ core[c] \in World
  BY <1>1, ClaimFacts
<1>3. /\ UNCHANGED <<db, phase, name, current, core, working>>
      /\ queue' = [queue EXCEPT ![c] = Tail(@)]
      /\ txn' = [txn EXCEPT ![x] = None]
      /\ answer' = [y \in Commands |-> IF y \in {x} THEN [kind |-> "conflict"] ELSE answer[y]]
  BY DEF Conflict, Dequeue, Settle
<1>4. [kind |-> "conflict"] \in Answers
  BY DEF Answers
<1>5. TypeOK /\ TypeOK'
  BY <1>2, <1>3, <1>4 DEF IInv, TypeOK
<1>6. answer'[x].kind = "conflict" /\ \A y \in Commands : y # x => answer'[y] = answer[y]
  BY <1>3
<1>7. QED
  BY <1>1, <1>3, <1>5, <1>6, AnsweredClaim

\* A transaction that executed nothing is answered with the current world.
LEMMA InstallNothingKeeps ==
  ASSUME ConnectionAssumption, IInv, NEW c \in Connections, NEW x \in Commands, InstallNothing(c, x)
  PROVE  IInv'
<1>1. Claims(c, x) /\ x \in Txns
  BY DEF InstallNothing
<1>2. phase[c] = "open" /\ working[c] = None /\ Tail(queue[c]) \in Seq(Commands) /\ core[c] \in World
  BY <1>1, ClaimFacts
<1>3. current[c].head \in SessionHead /\ IsRow(db, current[c].head)
  BY <1>2, ShownIsRecorded DEF IInv, ConnectionsAreSound, ConnectionIsSound
<1>4. /\ UNCHANGED <<db, phase, name, current, core, working>>
      /\ queue' = [queue EXCEPT ![c] = Tail(@)]
      /\ txn' = [txn EXCEPT ![x] = None]
      /\ answer' = [answer EXCEPT ![x] = [kind |-> "done", head |-> current[c].head]]
  BY DEF InstallNothing, Dequeue, Done
<1>5. [kind |-> "done", head |-> current[c].head] \in Answers
  BY <1>3 DEF Answers
<1>6. TypeOK /\ TypeOK'
  BY <1>2, <1>4, <1>5 DEF IInv, TypeOK
<1>7. answer'[x].head = current[c].head /\ \A y \in Commands : y # x => answer'[y] = answer[y]
  BY <1>4, <1>6 DEF TypeOK
<1>8. IsRow(db', answer'[x].head) /\ x \notin Changes \ EmptyBatches
  BY <1>1, <1>3, <1>4, <1>7 DEF ConnectionAssumption
<1>9. QED
  BY <1>1, <1>4, <1>6, <1>7, <1>8, AnsweredClaim

\* The private world of a transaction that read the current world goes to the catalog.
LEMMA InstallKeeps ==
  ASSUME ConnectionAssumption, IInv, NEW c \in Connections, NEW t \in Commands, Install(c, t)
  PROVE  IInv'
<1>1. Claims(c, t) /\ t \in Txns /\ StillCurrent(c, t)
  BY DEF Install
<1>2. /\ phase[c] = "open" /\ t \in Waiting(c) /\ t # None
      /\ Tail(queue[c]) \in Seq(Commands) /\ core[c] \in World
  BY <1>1, ClaimFacts
<1>3. txn[t] # None /\ txn[t].on = c /\ txn[t] \in Transaction /\ TransactionIsSound(t)
  BY <1>1, <1>2 DEF IInv, QueuesAreSound, TransactionsAreSound, TypeOK
<1>4. Shown(c) = txn[t].base.head.checkpoint.content
  BY <1>1, <1>3 DEF IInv, IdentityMeansContent, Shown
<1>5. /\ UNCHANGED <<db, phase, name, current, core, txn, answer>>
      /\ queue' = [queue EXCEPT ![c] = Tail(@)]
      /\ working' = [working EXCEPT ![c] = [command |-> t, world |-> txn[t].stage]]
  BY DEF Install, Dequeue
<1>6. [command |-> t, world |-> txn[t].stage] \in Update
  BY <1>1, <1>3 DEF Update, Transaction
<1>7. TypeOK /\ TypeOK'
  BY <1>2, <1>5, <1>6 DEF IInv, TypeOK
<1>8. /\ working'[c].command = t /\ working'[c].world = txn[t].stage /\ working'[c] # None
      /\ core'[c] # None /\ \A d \in Connections \ {c} : core'[d] = core[d] /\ working'[d] = working[d]
  BY <1>2, <1>5, <1>6, <1>7 DEF TypeOK, ConnectionAssumption
<1>9. t \notin Changes /\ t \notin EmptyBatches
  BY <1>1 DEF ConnectionAssumption
<1>10. UpdateIsSound(c)'
  BY <1>1, <1>2, <1>3, <1>4, <1>5, <1>8, <1>9 DEF UpdateIsSound, Shown, TransactionIsSound
<1>11. QED
  BY <1>1, <1>5, <1>7, <1>8, <1>10, ClaimStep

\* advance: merge work changes the layout of the world and nothing else.
LEMMA AdvanceKeeps ==
  ASSUME ConnectionAssumption, IInv, NEW c \in Connections, Advance(c)
  PROVE  IInv'
<1> DEFINE w == [core[c] EXCEPT !.layout = "settled"]
<1>1. phase[c] = "open" /\ working[c] = None /\ Idle(c)
  BY DEF Advance, Idle
<1>2. /\ core[c] \in World /\ core[c].content = Shown(c) /\ ConnectionIsSound(c) /\ TypeOK
      /\ queue[c] \in Seq(Commands) /\ IsInjective(queue[c])
  BY <1>1 DEF IInv, TypeOK, ConnectionsAreSound, ConnectionIsSound, QueuesAreSound
<1>3. Shown(c) \in Seq(Changes) /\ IsInjective(Shown(c)) /\ Grows(Shown(c), Shown(c))
  BY <1>1, ShownIsRecorded, GrowsIsAnOrder
<1>4. w \in World /\ w.content = Shown(c)
  BY <1>2 DEF World, Layouts
<1>5. /\ core' = [core EXCEPT ![c] = w]
      /\ working' = [working EXCEPT ![c] = [command |-> None, world |-> w]]
      /\ UNCHANGED <<db, phase, name, current, queue, txn, answer>>
  BY DEF Advance
<1> HIDE DEF w
<1>6. [command |-> None, world |-> w] \in Update
  BY <1>4 DEF Update
<1>7. TypeOK'
  BY <1>2, <1>4, <1>5, <1>6 DEF TypeOK
<1>8. /\ working'[c] # None /\ working'[c].command = None /\ working'[c].world = w
      /\ core'[c] # None /\ \A d \in Connections \ {c} : SameAt(d)
  BY <1>2, <1>4, <1>5, <1>6 DEF TypeOK, SameAt, ConnectionAssumption
<1>9. None \notin Commands /\ None \notin Changes /\ None \notin Txns
  BY DEF ConnectionAssumption, Commands
<1>10. ConnectionIsSound(c)'
  <2>1. UpdateIsSound(c)'
    BY <1>3, <1>4, <1>5, <1>8, <1>9 DEF UpdateIsSound, Shown
  <2>2. QED
    BY <1>1, <1>2, <1>5, <1>8, <2>1 DEF ConnectionIsSound, Idle
<1>11. QueueStep(c)
  <2>1. None \notin ToSet(queue[c])
    BY <1>2, <1>9 DEF ToSet
  <2>2. Waiting(c)' = Waiting(c)
    BY <1>1, <1>5, <1>8, <1>9 DEF Waiting
  <2>3. QED
    BY <1>2, <1>5, <1>8, <2>1, <2>2 DEF QueueStep, Kept
<1>12. CatalogGrows /\ \A y : Recorded(y)' <=> Recorded(y)
  BY <1>5, SameCatalog
<1>13. TxnStep(c)
  BY <1>1, <1>5, TxnsKeptOrDropped DEF Shown
<1>14. SafeStep(c)
  BY <1>5, <1>8, <1>10, <1>11, <1>12, <1>13 DEF SafeStep, RowStep, AnswerStep
<1>15. QED
  BY <1>7, <1>14, SafeStepKeeps

-----------------------------------------------------------------------------
(***************************************************************************)
(* The engine fails.                                                       *)
(***************************************************************************)

\* poison: the update x and the queued commands fail; the rows of x may be there.
LEMMA PoisonStep ==
  ASSUME ConnectionAssumption, IInv, NEW c \in Connections, phase[c] = "open",
         NEW x, x = None \/ (x \in Commands /\ x \in Waiting(c)),
         NEW kind \in {"failed", "overtaken"}, Poison(c, x, kind),
         db' \in Tables, CatalogGrows, working[c] # None => working[c].command \in {x, None},
         \A y \in Changes : Recorded(y)' => Recorded(y) \/ Staged(y) \/ (y = x /\ kind = "failed")
  PROVE  IInv'
<1>1. /\ phase' = [phase EXCEPT ![c] = "failed"]
      /\ queue' = [queue EXCEPT ![c] = <<>>]
      /\ working' = [working EXCEPT ![c] = None]
      /\ txn' = [t \in Txns |-> IF t = x \/ t \in ToSet(queue[c]) THEN None ELSE txn[t]]
      /\ answer' = [y \in Commands |->
            IF y = x THEN [kind |-> kind]
            ELSE IF y \in ToSet(queue[c]) THEN [kind |-> "abandoned"] ELSE answer[y]]
      /\ UNCHANGED <<name, current, core>>
  BY DEF Poison
<1>2. TypeOK /\ ConnectionIsSound(c)
  BY DEF IInv, ConnectionsAreSound
<1>3. [kind |-> kind] \in Answers /\ [kind |-> "abandoned"] \in Answers
  BY DEF Answers
<1>4. TypeOK'
  <2>1. <<>> \in Seq(Commands)
    OBVIOUS
  <2>2. txn' \in [Txns -> Transaction \cup {None}] /\ answer' \in [Commands -> Answers \cup {None}]
    BY <1>1, <1>2, <1>3 DEF TypeOK
  <2>3. QED
    BY <1>1, <1>2, <2>1, <2>2 DEF TypeOK
<1>5. \A d \in Connections \ {c} : SameAt(d)
  BY <1>1, <1>2 DEF TypeOK, SameAt
<1>6. /\ phase'[c] = "failed" /\ name'[c] = name[c] /\ current'[c] = current[c]
      /\ queue'[c] = <<>> /\ working'[c] = None
  BY <1>1, <1>2 DEF TypeOK
<1>7. ToSet(<<>>) = {} /\ IsInjective(<<>>)
  BY DEF ToSet, IsInjective
<1>8. Waiting(c)' = {}
  BY <1>6, <1>7 DEF Waiting
<1>9. ConnectionIsSound(c)'
  <2>1. current[c] # None /\ current[c].head.name = name[c] /\ IsRow(db, current[c].head)
    BY <1>2 DEF ConnectionIsSound
  <2>2. current[c].head \in SessionHead
    BY ShownIsRecorded
  <2>3. IsRow(db', current[c].head)
    BY <2>1, <2>2 DEF CatalogGrows, RowsStay
  <2>4. QED
    BY <1>6, <2>1, <2>3 DEF ConnectionIsSound, Idle
<1>10. QueueStep(c)
  BY <1>6, <1>7, <1>8 DEF QueueStep
<1>11. TxnStep(c)
  <2>1. \A t \in Txns : \/ txn'[t] = txn[t]
                        \/ txn'[t] = None /\ \A d \in Connections \ {c} : t \notin Waiting(d)
    <3>1. \A t \in Txns : t = x \/ t \in ToSet(queue[c]) => t \in Waiting(c)
      BY DEF Waiting, Commands, ConnectionAssumption
    <3>2. QED
      BY <1>1, <3>1, WaitsOnce
  <2>2. QED
    BY <1>6, <2>1, TxnsKeptOrDropped DEF Shown
<1>12. \A y \in Commands : y \in ToSet(queue[c]) => y \in Waiting(c)
  BY DEF Waiting
<1>13. \A y \in Commands : answer'[y] = answer[y] \/ (y \in Waiting(c) /\ answer'[y].kind # "done")
  BY <1>1, <1>12, <1>6
<1>14. RowStep(c)
  <2> SUFFICES ASSUME NEW y \in Changes, Recorded(y)', ~Recorded(y), ~Staged(y)
               PROVE  y \in Waiting(c) /\ y \notin Waiting(c)' /\ answer'[y].kind \notin RefusedKinds
    BY DEF RowStep
  <2>1. y = x /\ kind = "failed" /\ y \in Commands
    BY DEF Commands
  <2>2. x # None /\ x \in Waiting(c)
    BY <2>1 DEF ConnectionAssumption
  <2>3. answer'[y] = [kind |-> "failed"]
    BY <2>1, <1>1
  <2>4. QED
    BY <2>1, <2>2, <2>3, <1>8 DEF RefusedKinds
<1>15. AnswerStep(c)
  BY <1>13 DEF AnswerStep
<1>16. SafeStep(c)
  BY <1>5, <1>9, <1>10, <1>11, <1>14, <1>15 DEF SafeStep
<1>17. QED
  BY <1>4, <1>16, SafeStepKeeps

\* core_->contribute throws and the core failed.
LEMMA CoreFailsKeeps ==
  ASSUME ConnectionAssumption, IInv, NEW c \in Connections, NEW x \in Commands, CoreFails(c, x)
  PROVE  IInv'
<1>1. Claims(c, x) /\ Poison(c, x, "failed") /\ UNCHANGED db
  BY DEF CoreFails
<1>2. phase[c] = "open" /\ working[c] = None /\ x \in Waiting(c)
  BY <1>1, ClaimFacts
<1>3. db' \in Tables /\ CatalogGrows /\ \A y : Recorded(y)' <=> Recorded(y)
  BY <1>1, SameCatalog
<1>4. QED
  BY <1>1, <1>2, <1>3, PoisonStep

\* The merge work of advance throws.
LEMMA AdvanceFailsKeeps ==
  ASSUME ConnectionAssumption, IInv, NEW c \in Connections, AdvanceFails(c)
  PROVE  IInv'
<1>1. phase[c] = "open" /\ working[c] = None /\ Poison(c, None, "failed") /\ UNCHANGED db
  BY DEF AdvanceFails, Idle
<1>2. db' \in Tables /\ CatalogGrows /\ \A y : Recorded(y)' <=> Recorded(y)
  BY <1>1, SameCatalog
<1>3. QED
  BY <1>1, <1>2, PoisonStep

\* The update the worker publishes.
LEMMA UpdateFacts ==
  ASSUME ConnectionAssumption, IInv, NEW c \in Connections, working[c] # None
  PROVE  /\ phase[c] = "open" /\ current[c].head \in SessionHead /\ current[c].head.name = name[c]
         /\ current[c] \in Stored /\ working[c] \in Update /\ UpdateIsSound(c)
         /\ working[c].world \in World /\ IsInjective(working[c].world.content)
         /\ Grows(current[c].head.checkpoint.content, working[c].world.content)
         /\ working[c].command = None \/ (working[c].command \in Commands /\ working[c].command \in Waiting(c))
         /\ working[c].command = None => working[c].world.content = Shown(c)
         /\ \A y \in ToSet(working[c].world.content) : Recorded(y) \/ Staged(y) \/ y = working[c].command
         /\ working[c].command \in Changes \ EmptyBatches =>
              working[c].command \in ToSet(working[c].world.content)
<1> DEFINE x == working[c].command
           w == working[c].world
<1>1. phase[c] = "open" /\ UpdateIsSound(c)
  BY DEF IInv, ConnectionsAreSound, ConnectionIsSound, TypeOK
<1>2. /\ working[c] \in Update /\ x \in Commands \cup {None} /\ w \in World
  BY DEF IInv, TypeOK, Update
<1>3. current[c].head \in SessionHead /\ current[c] \in Stored /\ Shown(c) \in Seq(Changes)
      /\ \A y \in ToSet(Shown(c)) : Recorded(y)
  BY <1>1, ShownIsRecorded
<1>4. current[c].head.name = name[c]
  BY <1>1 DEF IInv, ConnectionsAreSound, ConnectionIsSound
<1>5. /\ IsInjective(w.content) /\ Grows(Shown(c), w.content)
      /\ x \in EmptyBatches \cup {None} => w.content = Shown(c)
      /\ x \in Changes \ EmptyBatches => w.content = Append(Shown(c), x)
      /\ x \in Txns => txn[x] # None /\ txn[x].stage = w
  BY <1>1 DEF UpdateIsSound
<1>6. x # None => x \in Waiting(c)
  BY <1>2 DEF Waiting
<1>a. ASSUME x \in Changes \ EmptyBatches
      PROVE  ToSet(w.content) = ToSet(Shown(c)) \cup {x}
  <2>1. PICK s \in Seq(Changes) : s = Shown(c)
    BY <1>3
  <2>2. PICK y \in Changes : y = x
    BY <1>a
  <2>3. ToSet(Append(s, y)) = ToSet(s) \cup {y}
    BY AppendElements
  <2>4. QED
    BY <1>a, <1>5, <2>1, <2>2, <2>3
<1>7. ASSUME NEW y \in ToSet(w.content)
      PROVE  Recorded(y) \/ Staged(y) \/ y = x
  <2>1. CASE x \in EmptyBatches \cup {None}
    BY <2>1, <1>3, <1>5
  <2>2. CASE x \in Changes \ EmptyBatches
    BY <2>2, <1>3, <1>a
  <2>3. CASE x \in Txns
    BY <2>3, <1>5 DEF Staged
  <2>4. QED
    BY <2>1, <2>2, <2>3, <1>2 DEF Commands
<1>8. x \in Changes \ EmptyBatches => x \in ToSet(w.content)
  BY <1>a
<1>9. QED
  BY <1>1, <1>2, <1>3, <1>4, <1>5, <1>6, <1>7, <1>8 DEF Shown

\* The publication of the update, if it takes effect.
LEMMA PublicationGrows ==
  ASSUME ConnectionAssumption, IInv, NEW c \in Connections, working[c] # None,
         ~Refused(db, PublishRequest(c)), db' = After(db, PublishRequest(c))
  PROVE  /\ db' \in Tables /\ CatalogGrows
         /\ \A y \in Changes : Recorded(y)' => Recorded(y) \/ Staged(y) \/ y = working[c].command
         /\ db' = db \/ (RowAdded(name[c], working[c].world) /\ Exists(db, name[c]))
         /\ Wins(db, PublishRequest(c)) =>
              /\ OutcomeOf(db, PublishRequest(c)).head \in SessionHead
              /\ IsRow(db', OutcomeOf(db, PublishRequest(c)).head)
              /\ OutcomeOf(db, PublishRequest(c)).head.name = name[c]
              /\ OutcomeOf(db, PublishRequest(c)).head.checkpoint = working[c].world
<1>1. PICK e \in SessionHead : e = current[c].head
  BY UpdateFacts
<1>2. PICK w \in World : w = working[c].world
  BY UpdateFacts
<1>3. PICK r : r = PublishRequest(c)
  OBVIOUS
<1>4. r = [kind |-> "publish", expected |-> e, checkpoint |-> w]
  BY <1>1, <1>2, <1>3 DEF PublishRequest, Expected
<1>5. /\ IsInjective(w.content) /\ Grows(e.checkpoint.content, w.content) /\ e.name = name[c]
      /\ \A y \in ToSet(w.content) : Recorded(y) \/ Staged(y) \/ y = working[c].command
  BY <1>1, <1>2, UpdateFacts
<1>6. db \in Tables /\ Bounded /\ GenerationsGrow
  BY DEF IInv, TypeOK
<1>7. ~Refused(db, r) /\ db' = After(db, r)
  BY <1>3
<1>8. CASE Wins(db, r)
  <2>1. RowAdded(e.name, w) /\ OutcomeOf(db, r).head = Latest(db', e.name) /\ Exists(db, e.name)
    BY <1>4, <1>5, <1>6, <1>7, <1>8, PublishAdds
  <2>2. e.name \in Names /\ db' \in Tables
    BY <2>1 DEF RowAdded
  <2>3. /\ RowsStay /\ Bounded' /\ GenerationsGrow'
        /\ \A y : Recorded(y)' <=> Recorded(y) \/ y \in ToSet(w.content)
    BY <2>1, <2>2, <1>6, RowAddedStep
  <2>4. /\ Latest(db', e.name) \in SessionHead /\ IsRow(db', Latest(db', e.name))
        /\ Latest(db', e.name).name = e.name /\ Latest(db', e.name).checkpoint = w
    BY <2>1, <2>2, <1>6, AddedHead
  <2>5. /\ CatalogGrows /\ db' \in Tables
        /\ \A y \in Changes : Recorded(y)' => Recorded(y) \/ Staged(y) \/ y = working[c].command
    BY <2>2, <2>3, <1>5 DEF CatalogGrows
  <2>6. RowAdded(name[c], working[c].world) /\ Exists(db, name[c])
    BY <2>1, <1>2, <1>5
  <2>7. QED
    BY <2>1, <2>4, <2>5, <2>6, <1>2, <1>3, <1>5
<1>9. CASE ~Wins(db, r)
  <2>1. db' = db
    BY <1>4, <1>7, <1>9 DEF After
  <2>2. QED
    BY <2>1, <1>3, <1>9, SameCatalog
<1>10. QED
  BY <1>8, <1>9

\* The session was advanced by another connection.
LEMMA OvertakenKeeps ==
  ASSUME ConnectionAssumption, IInv, NEW c \in Connections, Overtaken(c)
  PROVE  IInv'
<1>1. working[c] # None /\ Poison(c, working[c].command, "overtaken") /\ UNCHANGED db
  BY DEF Overtaken
<1>2. PICK x : x = working[c].command
  OBVIOUS
<1>3. phase[c] = "open" /\ (x = None \/ (x \in Commands /\ x \in Waiting(c)))
  BY <1>1, <1>2, UpdateFacts
<1>4. db' \in Tables /\ CatalogGrows /\ \A y : Recorded(y)' <=> Recorded(y)
  BY <1>1, SameCatalog
<1>5. QED
  BY <1>1, <1>2, <1>3, <1>4, PoisonStep

\* The catalog transaction throws; its rows may have been committed.
LEMMA PublishFailsKeeps ==
  ASSUME ConnectionAssumption, IInv, NEW c \in Connections, PublishFails(c)
  PROVE  IInv'
<1>1. /\ working[c] # None /\ Poison(c, working[c].command, "failed")
      /\ db' = db \/ (~Refused(db, PublishRequest(c)) /\ db' = After(db, PublishRequest(c)))
  BY DEF PublishFails
<1>2. PICK x : x = working[c].command
  OBVIOUS
<1>3. phase[c] = "open" /\ (x = None \/ (x \in Commands /\ x \in Waiting(c)))
  BY <1>1, <1>2, UpdateFacts
<1>4. /\ db' \in Tables /\ CatalogGrows
      /\ \A y \in Changes : Recorded(y)' => Recorded(y) \/ Staged(y) \/ y = x
  BY <1>1, <1>2, SameCatalog, PublicationGrows
<1>5. QED
  BY <1>1, <1>2, <1>3, <1>4, PoisonStep

-----------------------------------------------------------------------------
(***************************************************************************)
(* The update is published.                                                *)
(***************************************************************************)

\* runtime_store::publish returns the row it added, which becomes current.
LEMMA PublishedKeeps ==
  ASSUME ConnectionAssumption, IInv, NEW c \in Connections, Published(c)
  PROVE  IInv'
<1>1. PICK h : h = OutcomeOf(db, PublishRequest(c)).head
  OBVIOUS
<1>2. PICK x : x = working[c].command
  OBVIOUS
<1>3. PICK i : i = IF Mutates(working[c]) THEN Fresh ELSE current[c].logical
  OBVIOUS
<1>4. /\ working[c] # None /\ ~Refused(db, PublishRequest(c)) /\ Wins(db, PublishRequest(c))
      /\ db' = After(db, PublishRequest(c))
      /\ current' = [current EXCEPT ![c] = [head |-> h, logical |-> i]]
      /\ core' = [core EXCEPT ![c] = working[c].world]
      /\ working' = [working EXCEPT ![c] = None]
      /\ answer' = IF x # None THEN [answer EXCEPT ![x] = [kind |-> "done", head |-> h]] ELSE answer
      /\ txn' = [t \in Txns |-> IF t = x THEN None ELSE txn[t]]
      /\ UNCHANGED <<phase, name, queue>>
  BY <1>1, <1>2, <1>3 DEF Published, Done
<1>5. /\ db' \in Tables /\ CatalogGrows
      /\ \A y \in Changes : Recorded(y)' => Recorded(y) \/ Staged(y) \/ y = x
      /\ h \in SessionHead /\ IsRow(db', h) /\ h.name = name[c] /\ h.checkpoint = working[c].world
  BY <1>1, <1>2, <1>4, PublicationGrows
<1>6. /\ phase[c] = "open" /\ current[c] \in Stored
      /\ working[c].world \in World
      /\ x = None \/ (x \in Commands /\ x \in Waiting(c))
      /\ x = None => working[c].world.content = Shown(c)
      /\ x \in Changes \ EmptyBatches => x \in ToSet(working[c].world.content)
  BY <1>2, <1>4, UpdateFacts
<1>7. Fresh \in Identities /\ Fresh \notin Held
  BY FreshIsFree DEF IInv
<1>8. i \in Identities /\ (x # None => i = Fresh) /\ (x = None => i = current[c].logical)
  BY <1>2, <1>3, <1>6, <1>7 DEF Mutates, Stored
<1>9. TypeOK
  BY DEF IInv
<1>10. TypeOK'
  <2>1. [head |-> h, logical |-> i] \in Stored /\ [kind |-> "done", head |-> h] \in Answers
    BY <1>5, <1>8 DEF Stored, Answers
  <2>2. answer' \in [Commands -> Answers \cup {None}]
    BY <1>4, <1>6, <1>9, <2>1 DEF TypeOK
  <2>3. current' \in [Connections -> Stored \cup {None}] /\ core' \in [Connections -> World \cup {None}]
    BY <1>4, <1>6, <1>9, <2>1 DEF TypeOK
  <2>4. txn' \in [Txns -> Transaction \cup {None}] /\ working' \in [Connections -> Update \cup {None}]
    BY <1>4, <1>9 DEF TypeOK
  <2>5. QED
    BY <1>4, <1>5, <1>9, <2>2, <2>3, <2>4 DEF TypeOK
<1>11. \A d \in Connections \ {c} : SameAt(d)
  BY <1>4, <1>9 DEF TypeOK, SameAt
<1>12. /\ phase'[c] = "open" /\ name'[c] = name[c] /\ queue'[c] = queue[c] /\ working'[c] = None
       /\ current'[c] = [head |-> h, logical |-> i] /\ core'[c] = working[c].world
  BY <1>4, <1>6, <1>9 DEF TypeOK
<1>13. ConnectionIsSound(c)'
  <2>1. current'[c].head = h /\ current'[c] # None /\ core'[c] # None
    BY <1>5, <1>6, <1>8, <1>12 DEF ConnectionAssumption, Stored
  <2>2. QED
    BY <1>5, <1>12, <2>1 DEF ConnectionIsSound, Idle, Shown
<1>14. /\ queue[c] \in Seq(Commands) /\ IsInjective(queue[c]) /\ x \notin ToSet(queue[c])
       /\ Waiting(c)' = ToSet(queue[c]) /\ ToSet(queue[c]) \subseteq Commands
       /\ ToSet(queue[c]) \subseteq Waiting(c)
  <2>1. queue[c] \in Seq(Commands) /\ IsInjective(queue[c]) /\ x \notin ToSet(queue[c])
    BY <1>2, <1>4 DEF IInv, TypeOK, QueuesAreSound
  <2>2. Waiting(c)' = ToSet(queue[c]) /\ ToSet(queue[c]) \subseteq Waiting(c)
    BY <1>12 DEF Waiting
  <2>3. ToSet(queue[c]) \subseteq Commands
    BY <2>1 DEF ToSet
  <2>4. QED
    BY <2>1, <2>2, <2>3
<1>15. \A y \in Commands : y # x => answer'[y] = answer[y]
  BY <1>4, <1>9 DEF TypeOK
<1>16. QueueStep(c)
  <2>1. \A y \in Waiting(c)' : Kept(c, y)
    BY <1>4, <1>14, <1>15 DEF Kept
  <2>2. QED
    BY <1>12, <1>14, <2>1 DEF QueueStep
<1>17. TxnStep(c)
  <2>1. \A t \in Txns : \/ txn'[t] = txn[t]
                        \/ txn'[t] = None /\ \A d \in Connections \ {c} : t \notin Waiting(d)
    BY <1>4, <1>6, WaitsOnce DEF ConnectionAssumption, Commands
  <2>2. ASSUME NEW t \in Txns, txn[t] # None, txn[t].base.logical = current'[c].logical
        PROVE  current[c].logical = current'[c].logical /\ Shown(c)' = Shown(c)
    <3>1. current'[c].logical = i /\ current'[c].head = h
      BY <1>12
    <3>2. txn[t].base.logical \in Held
      BY <2>2 DEF Held
    <3>3. x = None
      BY <1>7, <1>8, <2>2, <3>1, <3>2
    <3>4. QED
      BY <1>5, <1>6, <1>8, <3>1, <3>3 DEF Shown
  <2>3. \A t \in Txns : txn'[t] = txn[t] /\ txn[t] # None /\ txn[t].on = c =>
           /\ phase'[c] \in {"open", "failed"}
           /\ txn[t].base.logical = current'[c].logical =>
                current[c].logical = current'[c].logical /\ Shown(c)' = Shown(c)
    BY <1>12, <2>2
  <2>4. QED
    BY <2>1, <2>3, TxnsKeptOrDropped
<1>18. x # None => answer'[x] = [kind |-> "done", head |-> h]
  BY <1>4, <1>6, <1>9 DEF TypeOK
<1>19. RowStep(c)
  <2> SUFFICES ASSUME NEW y \in Changes, Recorded(y)', ~Recorded(y), ~Staged(y)
               PROVE  y \in Waiting(c) /\ y \notin Waiting(c)' /\ answer'[y].kind \notin RefusedKinds
    BY DEF RowStep
  <2>1. y = x /\ x # None
    BY <1>5 DEF ConnectionAssumption, Commands
  <2>2. QED
    BY <1>6, <1>14, <1>18, <2>1 DEF RefusedKinds
<1>20. AnswerStep(c)
  <2> SUFFICES ASSUME NEW y \in Commands, answer'[y] # answer[y]
               PROVE  /\ y \in Waiting(c)
                      /\ IsRow(db', answer'[y].head)
                      /\ y \in Changes \ EmptyBatches => y \in ToSet(answer'[y].head.checkpoint.content)
    BY DEF AnswerStep, Durable
  <2>1. y = x /\ x # None
    BY <1>4, <1>15
  <2>2. answer'[y].head = h
    BY <1>18, <2>1
  <2>3. QED
    BY <1>5, <1>6, <2>1, <2>2
<1>21. SafeStep(c)
  BY <1>5, <1>11, <1>13, <1>16, <1>17, <1>19, <1>20 DEF SafeStep
<1>22. QED
  BY <1>10, <1>21, SafeStepKeeps

-----------------------------------------------------------------------------
(***************************************************************************)
(* A connection ends.                                                      *)
(***************************************************************************)

\* A connection goes with its queue, its engine and its transactions.
LEMMA GoneStep ==
  ASSUME ConnectionAssumption, IInv, NEW c \in Connections, NEW S, S \subseteq Waiting(c) \cup Txns,
         NEW kind \in {"lost", "refused"}, Gone(c, S, kind),
         db' \in Tables, CatalogGrows, \A y : Recorded(y)' => Recorded(y)
  PROVE  IInv'
<1>1. /\ phase' = [phase EXCEPT ![c] = "closed"]
      /\ name' = [name EXCEPT ![c] = None]
      /\ current' = [current EXCEPT ![c] = None]
      /\ core' = [core EXCEPT ![c] = None]
      /\ queue' = [queue EXCEPT ![c] = <<>>]
      /\ working' = [working EXCEPT ![c] = None]
      /\ txn' = [t \in Txns |-> IF txn[t] # None /\ txn[t].on = c THEN None ELSE txn[t]]
      /\ answer' = [x \in Commands |-> IF x \in S THEN [kind |-> kind] ELSE answer[x]]
  BY DEF Gone, Settle
<1>2. TypeOK
  BY DEF IInv
<1>3. TypeOK'
  <2>1. <<>> \in Seq(Commands) /\ [kind |-> kind] \in Answers
    BY DEF Answers
  <2>2. txn' \in [Txns -> Transaction \cup {None}] /\ answer' \in [Commands -> Answers \cup {None}]
    BY <1>1, <1>2, <2>1 DEF TypeOK
  <2>3. QED
    BY <1>1, <1>2, <2>1, <2>2 DEF TypeOK
<1>4. \A d \in Connections \ {c} : SameAt(d)
  BY <1>1, <1>2 DEF TypeOK, SameAt
<1>5. phase'[c] = "closed" /\ current'[c] = None /\ queue'[c] = <<>> /\ working'[c] = None
  BY <1>1, <1>2 DEF TypeOK
<1>6. ConnectionIsSound(c)'
  BY <1>5 DEF ConnectionIsSound, Idle
<1>7. QueueStep(c) /\ Waiting(c)' = {}
  <2>1. ToSet(<<>>) = {} /\ IsInjective(<<>>)
    BY DEF ToSet, IsInjective
  <2>2. Waiting(c)' = {}
    BY <1>5, <2>1 DEF Waiting
  <2>3. QED
    BY <1>5, <2>1, <2>2 DEF QueueStep
<1>8. TxnStep(c)
  <2>1. \A t \in Txns : \/ txn'[t] = txn[t] /\ (txn[t] = None \/ txn[t].on # c)
                        \/ txn'[t] = None /\ \A d \in Connections \ {c} : t \notin Waiting(d)
    BY <1>1, WaitsOnce
  <2>2. \A t \in Txns : ~(txn'[t] = txn[t] /\ txn[t] # None /\ txn[t].on = c)
    BY <1>1
  <2>3. QED
    BY <2>1, <2>2, TxnsKeptOrDropped
<1>9. AnswerStep(c)
  <2>1. \A y \in Commands : answer'[y] = answer[y] \/ (y \in S /\ answer'[y].kind = kind)
    BY <1>1
  <2>2. \A y \in Changes : y \in S => y \in Waiting(c)
    BY DEF ConnectionAssumption
  <2>3. QED
    BY <2>1, <2>2 DEF AnswerStep
<1>10. SafeStep(c)
  BY <1>4, <1>6, <1>7, <1>8, <1>9 DEF SafeStep, RowStep
<1>11. QED
  BY <1>3, <1>10, SafeStepKeeps

\* ~connection.
LEMMA DestroyKeeps ==
  ASSUME ConnectionAssumption, IInv, NEW c \in Connections, Destroy(c)
  PROVE  IInv'
<1>1. Gone(c, TxnsOf(c), "refused") /\ UNCHANGED db /\ TxnsOf(c) \subseteq Waiting(c) \cup Txns
  BY DEF Destroy, TxnsOf
<1>2. db' \in Tables /\ CatalogGrows /\ \A y : Recorded(y)' <=> Recorded(y)
  BY <1>1, SameCatalog
<1>3. QED
  BY <1>1, <1>2, GoneStep

\* The process dies.
LEMMA CrashKeeps ==
  ASSUME ConnectionAssumption, IInv, NEW c \in Connections, Crash(c)
  PROVE  IInv'
<1>1. PICK S : S = ToSet(queue[c]) \cup TxnsOf(c) \cup
             (IF working[c] # None THEN {working[c].command} \cap Commands ELSE {})
  OBVIOUS
<1>2. S \subseteq Waiting(c) \cup Txns
  BY <1>1 DEF Waiting, TxnsOf
<1>3. Gone(c, S, "lost") /\ UNCHANGED db
  BY <1>1 DEF Crash
<1>4. db' \in Tables /\ CatalogGrows /\ \A y : Recorded(y)' <=> Recorded(y)
  BY <1>3, SameCatalog
<1>5. QED
  BY <1>2, <1>3, <1>4, GoneStep

-----------------------------------------------------------------------------
(***************************************************************************)
(* A connection opens.                                                     *)
(***************************************************************************)

\* The world of an open connection is the row that was found or created.
LEMMA OpenedStep ==
  ASSUME ConnectionAssumption, IInv, NEW c \in Connections, phase[c] \in {"closed", "creating"},
         NEW n \in Names, NEW h \in SessionHead, h.name = n, IsRow(db', h), Opened(c, n, h),
         db' \in Tables, CatalogGrows, \A y : Recorded(y)' => Recorded(y)
  PROVE  IInv'
<1>1. PICK i : i = Fresh
  OBVIOUS
<1>2. /\ phase' = [phase EXCEPT ![c] = "open"]
      /\ name' = [name EXCEPT ![c] = n]
      /\ current' = [current EXCEPT ![c] = [head |-> h, logical |-> i]]
      /\ core' = [core EXCEPT ![c] = h.checkpoint]
      /\ UNCHANGED <<queue, working, txn, answer>>
  BY <1>1 DEF Opened
<1>3. /\ TypeOK /\ current[c] = None /\ queue[c] = <<>> /\ working[c] = None
      /\ \A t \in Txns : txn[t] # None => txn[t].on # c
  BY DEF IInv, ConnectionsAreSound, ConnectionIsSound, TransactionsAreSound, TransactionIsSound
<1>4. i \in Identities /\ h.checkpoint \in World
  BY <1>1, <1>3, FreshIsFree DEF SessionHead
<1>5. [head |-> h, logical |-> i] \in Stored
  BY <1>4 DEF Stored
<1>6. TypeOK'
  BY <1>2, <1>3, <1>4, <1>5 DEF TypeOK
<1>7. \A d \in Connections \ {c} : SameAt(d)
  BY <1>2, <1>3 DEF TypeOK, SameAt
<1>8. /\ phase'[c] = "open" /\ name'[c] = n /\ current'[c] = [head |-> h, logical |-> i]
      /\ core'[c] = h.checkpoint /\ working'[c] = None /\ queue'[c] = <<>>
  BY <1>2, <1>3 DEF TypeOK
<1>9. ConnectionIsSound(c)'
  <2>1. current'[c] # None /\ current'[c].head = h /\ core'[c] # None
    BY <1>4, <1>5, <1>8 DEF ConnectionAssumption
  <2>2. QED
    BY <1>8, <2>1 DEF ConnectionIsSound, Idle, Shown
<1>10. QueueStep(c)
  <2>1. ToSet(<<>>) = {} /\ IsInjective(<<>>)
    BY DEF ToSet, IsInjective
  <2>2. Waiting(c)' = {}
    BY <1>8, <2>1 DEF Waiting
  <2>3. QED
    BY <1>8, <2>1, <2>2 DEF QueueStep
<1>11. TxnStep(c)
  BY <1>2, <1>3 DEF TxnStep
<1>12. SafeStep(c)
  BY <1>2, <1>7, <1>9, <1>10, <1>11 DEF SafeStep, RowStep, AnswerStep
<1>13. QED
  BY <1>6, <1>12, SafeStepKeeps

\* store.find.
LEMMA FindKeeps ==
  ASSUME ConnectionAssumption, IInv, NEW c \in Connections, NEW n \in Names, Find(c, n)
  PROVE  IInv'
<1>1. phase[c] = "closed" /\ UNCHANGED db /\ TypeOK
  BY DEF Find, IInv
<1>2. db' \in Tables /\ CatalogGrows /\ \A y : Recorded(y)' <=> Recorded(y)
  BY <1>1, SameCatalog
<1>3. CASE Exists(db, n)
  <2>1. PICK h : h = Latest(db, n)
    OBVIOUS
  <2>2. h \in SessionHead /\ IsRow(db, h) /\ h.name = n
    BY <1>3, <2>1, LatestIsRow DEF IInv, TypeOK
  <2>3. Opened(c, n, h)
    BY <1>3, <2>1 DEF Find
  <2>4. IsRow(db', h)
    BY <1>1, <2>2
  <2>5. QED
    BY <1>1, <1>2, <2>2, <2>3, <2>4, OpenedStep
<1>4. CASE ~Exists(db, n)
  <2>1. /\ phase' = [phase EXCEPT ![c] = "creating"]
        /\ name' = [name EXCEPT ![c] = n]
        /\ UNCHANGED <<current, core, queue, working, txn, answer>>
    BY <1>4 DEF Find
  <2>2. TypeOK'
    BY <1>1, <2>1 DEF TypeOK
  <2>3. \A d \in Connections \ {c} : SameAt(d)
    BY <1>1, <2>1 DEF TypeOK, SameAt
  <2>4. /\ current[c] = None /\ queue[c] = <<>> /\ working[c] = None
        /\ \A t \in Txns : txn[t] # None => txn[t].on # c
    BY <1>1 DEF IInv, ConnectionsAreSound, ConnectionIsSound, TransactionsAreSound, TransactionIsSound
  <2>5. phase'[c] = "creating" /\ name'[c] = n
    BY <1>1, <2>1 DEF TypeOK
  <2>6. ConnectionIsSound(c)'
    BY <2>1, <2>4, <2>5 DEF ConnectionIsSound, Idle
  <2>7. QueueStep(c)
    <3>1. ToSet(<<>>) = {} /\ IsInjective(<<>>)
      BY DEF ToSet, IsInjective
    <3>2. Waiting(c)' = {}
      BY <2>1, <2>4, <3>1 DEF Waiting
    <3>3. QED
      BY <2>1, <2>4, <3>1, <3>2 DEF QueueStep
  <2>8. TxnStep(c)
    BY <2>1, <2>4 DEF TxnStep
  <2>9. SafeStep(c)
    BY <1>2, <2>1, <2>3, <2>6, <2>7, <2>8 DEF SafeStep, RowStep, AnswerStep
  <2>10. QED
    BY <2>2, <2>9, SafeStepKeeps
<1>5. QED
  BY <1>3, <1>4

\* The first world of a name.
LEMMA SeedWorld == Seed \in World /\ IsInjective(Seed.content) /\ ToSet(Seed.content) = {}
  BY DEF Seed, World, Layouts, IsInjective, ToSet

\* create_session, if it takes effect.
LEMMA CreationGrows ==
  ASSUME ConnectionAssumption, IInv, NEW c \in Connections, phase[c] = "creating",
         NEW r, r = [kind |-> "create", name |-> name[c], checkpoint |-> Seed],
         ~Refused(db, r), db' = After(db, r)
  PROVE  /\ name[c] \in Names /\ db' \in Tables /\ CatalogGrows
         /\ \A y : Recorded(y)' => Recorded(y)
         /\ OutcomeOf(db, r).head \in SessionHead /\ IsRow(db', OutcomeOf(db, r).head)
         /\ OutcomeOf(db, r).head.name = name[c]
         /\ RowAdded(name[c], Seed)
<1>1. PICK n \in Names : n = name[c]
  BY DEF IInv, ConnectionsAreSound, ConnectionIsSound
<1>2. PICK w \in World : w = Seed
  BY SeedWorld
<1>3. db \in Tables /\ Bounded /\ GenerationsGrow
  BY DEF IInv, TypeOK
<1>4. r = [kind |-> "create", name |-> n, checkpoint |-> w] /\ IsInjective(w.content)
  BY <1>1, <1>2, SeedWorld
<1>5. RowAdded(n, w) /\ OutcomeOf(db, r).head = Latest(db', n)
  BY <1>3, <1>4, CreateAdds
<1>6. /\ RowsStay /\ Bounded' /\ GenerationsGrow' /\ db' \in Tables
      /\ \A y : Recorded(y)' <=> Recorded(y) \/ y \in ToSet(w.content)
  BY <1>3, <1>5, RowAddedStep DEF RowAdded
<1>7. /\ Latest(db', n) \in SessionHead /\ IsRow(db', Latest(db', n))
      /\ Latest(db', n).name = n
  BY <1>3, <1>5, AddedHead
<1>8. QED
  BY <1>1, <1>2, <1>5, <1>6, <1>7, SeedWorld DEF CatalogGrows

\* A created session is opened.
LEMMA CreateSessionKeeps ==
  ASSUME ConnectionAssumption, IInv, NEW c \in Connections, CreateSession(c)
  PROVE  IInv'
<1>1. PICK r : r = [kind |-> "create", name |-> name[c], checkpoint |-> Seed]
  OBVIOUS
<1>2. /\ phase[c] = "creating" /\ ~Refused(db, r) /\ db' = After(db, r)
      /\ Opened(c, name[c], OutcomeOf(db, r).head)
  BY <1>1 DEF CreateSession
<1>3. /\ name[c] \in Names /\ db' \in Tables /\ CatalogGrows
      /\ \A y : Recorded(y)' => Recorded(y)
      /\ OutcomeOf(db, r).head \in SessionHead /\ IsRow(db', OutcomeOf(db, r).head)
      /\ OutcomeOf(db, r).head.name = name[c]
  BY <1>1, <1>2, CreationGrows
<1>4. PICK h \in SessionHead : h = OutcomeOf(db, r).head
  BY <1>3
<1>5. PICK n \in Names : n = name[c]
  BY <1>3
<1>6. Opened(c, n, h) /\ h.name = n /\ IsRow(db', h)
  BY <1>2, <1>3, <1>4, <1>5
<1>7. QED
  BY <1>2, <1>3, <1>6, OpenedStep

\* The creation fails, perhaps after its rows were committed.
LEMMA CreateFailsKeeps ==
  ASSUME ConnectionAssumption, IInv, NEW c \in Connections, CreateFails(c)
  PROVE  IInv'
<1>1. PICK r : r = [kind |-> "create", name |-> name[c], checkpoint |-> Seed]
  OBVIOUS
<1>2. /\ phase[c] = "creating" /\ Gone(c, {}, "lost")
      /\ db' = db \/ (~Refused(db, r) /\ db' = After(db, r))
  BY <1>1 DEF CreateFails
<1>3. db' \in Tables /\ CatalogGrows /\ \A y : Recorded(y)' => Recorded(y)
  BY <1>1, <1>2, SameCatalog, CreationGrows
<1>4. QED
  BY <1>2, <1>3, GoneStep

-----------------------------------------------------------------------------
(***************************************************************************)
(* Clients of the queue.                                                   *)
(***************************************************************************)

\* A change that is new waits nowhere and is in no world.
LEMMA NewIsUnclaimed ==
  ASSUME ConnectionAssumption, IInv, NEW x \in Changes, New(x)
  PROVE  Unclaimed(x) /\ ~Recorded(x) /\ ~Staged(x)
<1>1. \A h \in Snapshots : x \notin ToSet(h.checkpoint.content)
  BY DEF New
<1>2. ~Recorded(x)
  BY <1>1, SnapshotsAreRows DEF IInv, TypeOK
<1>3. QED
  BY <1>2 DEF New, Unclaimed, Waiting, Staged

\* contribute_async.
LEMMA SubmitKeeps ==
  ASSUME ConnectionAssumption, IInv, NEW c \in Connections, NEW x \in Changes, Submit(c, x)
  PROVE  IInv'
<1>1. /\ phase[c] = "open" /\ queue' = [queue EXCEPT ![c] = Append(@, x)]
      /\ UNCHANGED <<db, phase, name, current, core, working, txn, answer>> /\ New(x)
  BY DEF Submit, Room, Enqueue
<1>2. Unclaimed(x) /\ ~Recorded(x) /\ ~Staged(x)
  BY <1>1, NewIsUnclaimed
<1>3. /\ TypeOK /\ x \in Commands /\ x # None /\ queue[c] \in Seq(Commands) /\ IsInjective(queue[c])
      /\ working[c] # None => working[c].command \notin ToSet(queue[c])
      /\ ConnectionIsSound(c)
  BY DEF IInv, TypeOK, Commands, QueuesAreSound, ConnectionsAreSound, ConnectionAssumption
<1>4. x \notin ToSet(queue[c]) /\ (working[c] # None => working[c].command # x)
  BY <1>2, <1>3 DEF Unclaimed, Waiting
<1>5. PICK s \in Seq(Commands) : s = queue[c]
  BY <1>3
<1>6. /\ Append(s, x) \in Seq(Commands) /\ IsInjective(Append(s, x))
      /\ ToSet(Append(s, x)) = ToSet(s) \cup {x}
  BY <1>3, <1>4, <1>5, AppendElements
<1>7. TypeOK' /\ queue'[c] = Append(s, x) /\ \A d \in Connections \ {c} : SameAt(d)
  BY <1>1, <1>3, <1>5, <1>6 DEF TypeOK, SameAt
<1>8. ConnectionIsSound(c)'
  BY <1>1, <1>3 DEF ConnectionIsSound, Idle, Shown, UpdateIsSound
<1>9. QueueStep(c)
  <2>1. Waiting(c)' = Waiting(c) \cup {x}
    BY <1>1, <1>5, <1>6, <1>7 DEF Waiting
  <2>2. Admitted(c, x)
    BY <1>1, <1>2 DEF Admitted, Unclaimed, ConnectionAssumption
  <2>3. \A y \in Waiting(c)' : Kept(c, y) \/ Admitted(c, y)
    BY <1>1, <2>1, <2>2 DEF Kept
  <2>4. QED
    BY <1>1, <1>3, <1>4, <1>5, <1>6, <1>7, <2>3 DEF QueueStep
<1>10. CatalogGrows /\ \A y : Recorded(y)' <=> Recorded(y)
  BY <1>1, SameCatalog
<1>11. TxnStep(c)
  BY <1>1, TxnsKeptOrDropped DEF Shown
<1>12. SafeStep(c)
  BY <1>1, <1>7, <1>8, <1>9, <1>10, <1>11 DEF SafeStep, RowStep, AnswerStep
<1>13. QED
  BY <1>7, <1>12, SafeStepKeeps

\* cancel.
LEMMA CancelKeeps ==
  ASSUME ConnectionAssumption, IInv, NEW c \in Connections, NEW x \in Commands, Cancel(c, x)
  PROVE  IInv'
<1>1. PICK k \in DOMAIN queue[c] : queue[c][k] = x /\ queue' = [queue EXCEPT ![c] = RemoveAt(@, k)]
  BY DEF Cancel
<1>2. /\ txn' = [t \in Txns |-> IF t = x THEN None ELSE txn[t]]
      /\ answer' = [y \in Commands |-> IF y \in {x} THEN [kind |-> "cancelled"] ELSE answer[y]]
      /\ UNCHANGED <<db, phase, name, current, core, working>> /\ x \in ToSet(queue[c])
  BY DEF Cancel, Settle
<1>3. /\ TypeOK /\ queue[c] \in Seq(Commands) /\ IsInjective(queue[c])
      /\ working[c] # None => working[c].command \notin ToSet(queue[c])
      /\ ConnectionIsSound(c)
  BY DEF IInv, TypeOK, QueuesAreSound, ConnectionsAreSound
<1>4. PICK s \in Seq(Commands) : s = queue[c]
  BY <1>3
<1>5. /\ RemoveAt(s, k) \in Seq(Commands) /\ IsInjective(RemoveAt(s, k))
      /\ ToSet(RemoveAt(s, k)) = ToSet(s) \ {x}
  BY <1>1, <1>3, <1>4, RemoveElements
<1>6. queue'[c] = RemoveAt(s, k) /\ \A d \in Connections \ {c} : SameAt(d)
  BY <1>1, <1>2, <1>3, <1>4 DEF TypeOK, SameAt
<1>7. [kind |-> "cancelled"] \in Answers
  BY DEF Answers
<1>8. TypeOK'
  <2>1. txn' \in [Txns -> Transaction \cup {None}] /\ answer' \in [Commands -> Answers \cup {None}]
    BY <1>2, <1>3, <1>7 DEF TypeOK
  <2>2. queue' \in [Connections -> Seq(Commands)]
    BY <1>1, <1>3, <1>4, <1>5 DEF TypeOK
  <2>3. QED
    BY <1>2, <1>3, <2>1, <2>2 DEF TypeOK
<1>9. x \in Waiting(c) /\ phase[c] = "open"
  <2>1. x \in Waiting(c)
    BY <1>2 DEF Waiting
  <2>2. phase[c] = "open"
    BY <1>1, <1>3 DEF ConnectionIsSound
  <2>3. QED
    BY <2>1, <2>2
<1>10. working[c] # None => working[c].command # x
  BY <1>2, <1>3
<1>11. ConnectionIsSound(c)'
  <2>1. working[c] # None => UpdateIsSound(c)'
    <3>1. working[c] # None => UpdateIsSound(c)
      BY <1>3 DEF ConnectionIsSound
    <3>2. QED
      BY <1>2, <1>10, <3>1 DEF UpdateIsSound, Shown
  <2>2. QED
    BY <1>2, <1>3, <1>9, <2>1 DEF ConnectionIsSound, Idle, Shown
<1>12. QueueStep(c)
  <2>1. Waiting(c)' = Waiting(c) \ {x}
    BY <1>2, <1>4, <1>5, <1>6, <1>10 DEF Waiting
  <2>2. Waiting(c) \subseteq Commands
    BY <1>3 DEF Waiting, ToSet
  <2>3. \A y \in Waiting(c)' : Kept(c, y)
    BY <1>2, <2>1, <2>2 DEF Kept
  <2>4. QED
    BY <1>2, <1>3, <1>4, <1>5, <1>6, <2>3 DEF QueueStep
<1>13. TxnStep(c)
  <2>1. \A t \in Txns : \/ txn'[t] = txn[t]
                        \/ txn'[t] = None /\ \A d \in Connections \ {c} : t \notin Waiting(d)
    BY <1>2, <1>9, WaitsOnce
  <2>2. QED
    BY <1>2, <1>9, <2>1, TxnsKeptOrDropped DEF Shown
<1>14. AnswerStep(c)
  BY <1>2, <1>9 DEF AnswerStep
<1>15. CatalogGrows /\ \A y : Recorded(y)' <=> Recorded(y)
  BY <1>2, SameCatalog
<1>16. SafeStep(c)
  BY <1>6, <1>11, <1>12, <1>13, <1>14, <1>15 DEF SafeStep, RowStep
<1>17. QED
  BY <1>8, <1>16, SafeStepKeeps

-----------------------------------------------------------------------------
(***************************************************************************)
(* Transactions.                                                           *)
(***************************************************************************)

\* A transaction that is not queued becomes v; its connection takes no step.
LEMMA TransactionStep ==
  ASSUME ConnectionAssumption, IInv, NEW t \in Txns, NEW v \in Transaction \cup {None},
         txn[t] = None \/ txn[t].state # "queued",
         UNCHANGED <<db, connectionVars>>, txn' = [txn EXCEPT ![t] = v],
         \/ answer' = answer
         \/ answer' = [x \in Commands |-> IF x \in {t} THEN [kind |-> "refused"] ELSE answer[x]],
         v # None =>
           /\ phase[v.on] \in {"open", "failed"}
           /\ Grows(v.base.head.checkpoint.content, v.stage.content)
           /\ IsInjective(v.stage.content)
           /\ v.nursery # None => v.nursery \in Changes \ EmptyBatches /\ v.nursery \notin ToSet(v.stage.content)
           /\ v.base.logical = current[v.on].logical =>
                current[v.on].head.checkpoint.content = v.base.head.checkpoint.content
           /\ \A x \in Changes : Holds(v, x) => Staged(x) \/ Recorded(x) \/ Unclaimed(x)
  PROVE  IInv'
<1>1. TypeOK /\ None \notin Connections /\ UNCHANGED <<phase, name, current, core, queue, working>>
  BY DEF IInv, ConnectionAssumption, connectionVars
<1>2. TypeOK'
  <2>1. [kind |-> "refused"] \in Answers
    BY DEF Answers
  <2>2. answer' \in [Commands -> Answers \cup {None}]
    BY <1>1, <2>1 DEF TypeOK
  <2>3. QED
    BY <1>1, <2>2 DEF TypeOK
<1>3. txn'[t] = v /\ \A u \in Txns : u # t => txn'[u] = txn[u]
  BY <1>1 DEF TypeOK
<1>4. TxnStep(None)
  <2>1. \A d \in Connections : t \notin Waiting(d)
    BY WaitsOnce
  <2>2. v # None => TransactionIsSound(t)' /\ Identified(t)'
    BY <1>1, <1>3 DEF TransactionIsSound, Identified, StillCurrent
  <2>3. \A u \in Txns : txn[u] # None => txn[u].on # None
    BY <1>1 DEF TypeOK, Transaction
  <2>4. QED
    BY <1>1, <1>3, <2>1, <2>2, <2>3 DEF TxnStep
<1>5. CatalogGrows /\ \A y : Recorded(y)' <=> Recorded(y)
  BY SameCatalog
<1>6. AnswerStep(None)
  BY DEF AnswerStep, ConnectionAssumption
<1>7. SafeStep(None)
  BY <1>1, <1>4, <1>5, <1>6 DEF SafeStep, SameAt, RowStep
<1>8. QED
  BY <1>2, <1>7, SafeStepKeeps

\* What a transaction holds.
LEMMA TxnFacts ==
  ASSUME ConnectionAssumption, IInv, NEW t \in Txns, txn[t] # None
  PROVE  /\ txn[t] \in Transaction /\ txn[t].on \in Connections /\ txn[t].stage \in World
         /\ txn[t].base \in Stored /\ txn[t].base.head.checkpoint \in World
         /\ txn[t].nursery \in Changes \cup {None}
         /\ phase[txn[t].on] \in {"open", "failed"}
         /\ Grows(txn[t].base.head.checkpoint.content, txn[t].stage.content)
         /\ IsInjective(txn[t].stage.content)
         /\ txn[t].nursery # None =>
              txn[t].nursery \in Changes \ EmptyBatches /\ txn[t].nursery \notin ToSet(txn[t].stage.content)
         /\ txn[t].base.logical = current[txn[t].on].logical =>
              current[txn[t].on].head.checkpoint.content = txn[t].base.head.checkpoint.content
         /\ \A x \in Changes : Holds(txn[t], x) => Staged(x)
<1>1. txn[t] \in Transaction /\ TransactionIsSound(t)
  BY DEF IInv, TypeOK, TransactionsAreSound
<1>2. /\ txn[t].on \in Connections /\ txn[t].stage \in World /\ txn[t].base \in Stored
      /\ txn[t].nursery \in Changes \cup {None} /\ txn[t].base.head.checkpoint \in World
  BY <1>1 DEF Transaction, Stored, SessionHead
<1>3. \A x \in Changes : Holds(txn[t], x) => Staged(x)
  BY DEF Holds, Staged
<1>4. StillCurrent(txn[t].on, t) =>
        current[txn[t].on].head.checkpoint.content = txn[t].base.head.checkpoint.content
  BY DEF IInv, IdentityMeansContent
<1>5. QED
  BY <1>1, <1>2, <1>3, <1>4 DEF TransactionIsSound, StillCurrent

\* begin.
LEMMA BeginKeeps ==
  ASSUME ConnectionAssumption, IInv, NEW c \in Connections, NEW t \in Txns, Begin(c, t)
  PROVE  IInv'
<1>1. PICK v : v = [state |-> "open", on |-> c, base |-> current[c],
                    stage |-> current[c].head.checkpoint, nursery |-> None]
  OBVIOUS
<1>2. /\ phase[c] \in {"open", "failed"} /\ txn[t] = None /\ txn' = [txn EXCEPT ![t] = v]
      /\ UNCHANGED <<db, connectionVars>> /\ answer' = answer
  BY <1>1 DEF Begin, NewTxn
<1>3. /\ current[c] \in Stored /\ current[c].head.checkpoint \in World
      /\ Shown(c) \in Seq(Changes) /\ IsInjective(Shown(c)) /\ \A x \in ToSet(Shown(c)) : Recorded(x)
  BY <1>2, ShownIsRecorded
<1>4. v \in Transaction
  BY <1>1, <1>3 DEF Transaction
<1>5. Grows(Shown(c), Shown(c))
  BY <1>3, GrowsIsAnOrder
<1>6. \A x \in Changes : Holds(v, x) => Recorded(x)
  BY <1>1, <1>3 DEF Holds, Shown, ConnectionAssumption, Commands
<1>7. /\ v.on = c /\ v.base = current[c] /\ v.stage.content = Shown(c) /\ v.nursery = None
      /\ v.base.head.checkpoint.content = Shown(c) /\ current[c].head.checkpoint.content = Shown(c)
  BY <1>1 DEF Shown
<1>8. QED
  BY <1>2, <1>3, <1>4, <1>5, <1>6, <1>7, TransactionStep

\* change.
LEMMA EditKeeps ==
  ASSUME ConnectionAssumption, IInv, NEW t \in Txns, NEW x \in Changes, Edit(t, x)
  PROVE  IInv'
<1>1. PICK v : v = [txn[t] EXCEPT !.nursery = x]
  OBVIOUS
<1>2. /\ txn[t] # None /\ txn[t].state = "open" /\ x \notin EmptyBatches /\ New(x)
      /\ txn' = [txn EXCEPT ![t].nursery = x]
      /\ UNCHANGED <<db, connectionVars>> /\ answer' = answer
  BY DEF Edit, Editable
<1>3. txn' = [txn EXCEPT ![t] = v]
  BY <1>1, <1>2
<1>4. txn[t] \in Transaction
  BY <1>2, TxnFacts
<1>5. /\ v \in Transaction /\ v.on = txn[t].on /\ v.base = txn[t].base /\ v.stage = txn[t].stage
      /\ v.nursery = x
  BY <1>1, <1>4 DEF Transaction
<1>6. Unclaimed(x) /\ x \notin ToSet(txn[t].stage.content)
  BY <1>2, NewIsUnclaimed DEF New
<1>7. \A y \in Changes : Holds(v, y) => Staged(y) \/ Unclaimed(y)
  BY <1>2, <1>5, <1>6, TxnFacts DEF Holds
<1>8. /\ phase[v.on] \in {"open", "failed"}
      /\ Grows(v.base.head.checkpoint.content, v.stage.content)
      /\ IsInjective(v.stage.content)
      /\ v.nursery \in Changes \ EmptyBatches /\ v.nursery \notin ToSet(v.stage.content)
      /\ v.base.logical = current[v.on].logical =>
           current[v.on].head.checkpoint.content = v.base.head.checkpoint.content
  BY <1>2, <1>5, <1>6, TxnFacts
<1>9. QED
  BY <1>2, <1>3, <1>5, <1>7, <1>8, TransactionStep

\* A batch of edits that is taken back.
LEMMA RevertKeeps ==
  ASSUME ConnectionAssumption, IInv, NEW t \in Txns, Revert(t)
  PROVE  IInv'
<1>1. PICK v : v = [txn[t] EXCEPT !.nursery = None]
  OBVIOUS
<1>2. /\ txn[t] # None /\ txn[t].state = "open" /\ txn' = [txn EXCEPT ![t].nursery = None]
      /\ UNCHANGED <<db, connectionVars>> /\ answer' = answer
  BY DEF Revert, Editable
<1>3. txn' = [txn EXCEPT ![t] = v]
  BY <1>1, <1>2
<1>4. txn[t] \in Transaction
  BY <1>2, TxnFacts
<1>5. /\ v \in Transaction /\ v.on = txn[t].on /\ v.base = txn[t].base /\ v.stage = txn[t].stage
      /\ v.nursery = None
  BY <1>1, <1>4 DEF Transaction
<1>6. \A y \in Changes : Holds(v, y) => Staged(y)
  BY <1>2, <1>5, TxnFacts DEF Holds, ConnectionAssumption, Commands
<1>7. /\ phase[v.on] \in {"open", "failed"}
      /\ Grows(v.base.head.checkpoint.content, v.stage.content)
      /\ IsInjective(v.stage.content)
      /\ v.base.logical = current[v.on].logical =>
           current[v.on].head.checkpoint.content = v.base.head.checkpoint.content
  BY <1>2, <1>5, TxnFacts
<1>8. QED
  BY <1>2, <1>3, <1>5, <1>6, <1>7, TransactionStep

\* A flush that fails.
LEMMA FlushFailsKeeps ==
  ASSUME ConnectionAssumption, IInv, NEW t \in Txns, FlushFails(t)
  PROVE  IInv'
<1>1. PICK v : v = [txn[t] EXCEPT !.state = "failed"]
  OBVIOUS
<1>2. /\ txn[t] # None /\ txn[t].state = "open" /\ txn' = [txn EXCEPT ![t].state = "failed"]
      /\ UNCHANGED <<db, connectionVars>> /\ answer' = answer
  BY DEF FlushFails, Editable
<1>3. txn' = [txn EXCEPT ![t] = v]
  BY <1>1, <1>2
<1>4. txn[t] \in Transaction
  BY <1>2, TxnFacts
<1>5. /\ v \in Transaction /\ v.on = txn[t].on /\ v.base = txn[t].base /\ v.stage = txn[t].stage
      /\ v.nursery = txn[t].nursery
  BY <1>1, <1>4 DEF Transaction
<1>6. \A y \in Changes : Holds(v, y) => Staged(y)
  BY <1>2, <1>5, TxnFacts DEF Holds
<1>7. /\ phase[v.on] \in {"open", "failed"}
      /\ Grows(v.base.head.checkpoint.content, v.stage.content)
      /\ IsInjective(v.stage.content)
      /\ v.nursery # None => v.nursery \in Changes \ EmptyBatches /\ v.nursery \notin ToSet(v.stage.content)
      /\ v.base.logical = current[v.on].logical =>
           current[v.on].head.checkpoint.content = v.base.head.checkpoint.content
  BY <1>2, <1>5, TxnFacts
<1>8. QED
  BY <1>2, <1>3, <1>5, <1>6, <1>7, TransactionStep

\* branch.
LEMMA BranchKeeps ==
  ASSUME ConnectionAssumption, IInv, NEW t \in Txns, NEW u \in Txns, Branch(t, u)
  PROVE  IInv'
<1>1. PICK v : v = txn[t]
  OBVIOUS
<1>2. /\ txn[t] # None /\ txn[u] = None /\ txn' = [txn EXCEPT ![u] = v]
      /\ UNCHANGED <<db, connectionVars>> /\ answer' = answer
  BY <1>1 DEF Branch, Editable, NewTxn
<1>3. /\ v \in Transaction /\ phase[v.on] \in {"open", "failed"}
      /\ Grows(v.base.head.checkpoint.content, v.stage.content)
      /\ IsInjective(v.stage.content)
      /\ v.nursery # None => v.nursery \in Changes \ EmptyBatches /\ v.nursery \notin ToSet(v.stage.content)
      /\ v.base.logical = current[v.on].logical =>
           current[v.on].head.checkpoint.content = v.base.head.checkpoint.content
      /\ \A x \in Changes : Holds(v, x) => Staged(x)
  BY <1>1, <1>2, TxnFacts
<1>4. QED
  BY <1>2, <1>3, TransactionStep

\* A transaction that is not queued is dropped (abort, a refused commit).
LEMMA DroppedKeeps ==
  ASSUME ConnectionAssumption, IInv, NEW t \in Txns, CommitRefused(t) \/ Abort(t)
  PROVE  IInv'
<1>1. /\ txn[t] # None /\ txn[t].state # "queued" /\ txn' = [txn EXCEPT ![t] = None]
      /\ UNCHANGED <<db, connectionVars>>
      /\ answer' = [x \in Commands |-> IF x \in {t} THEN [kind |-> "refused"] ELSE answer[x]]
  BY DEF CommitRefused, Abort, Editable, Settle
<1>2. QED
  BY <1>1, TransactionStep

\* The private world after a flush continues the base and holds the nursery.
LEMMA FlushedFacts ==
  ASSUME ConnectionAssumption, IInv, NEW t \in Txns, txn[t] # None, NEW w \in Flushed(t)
  PROVE  /\ w \in World /\ IsInjective(w.content)
         /\ Grows(txn[t].base.head.checkpoint.content, w.content)
         /\ \A x \in ToSet(w.content) : x \in ToSet(txn[t].stage.content) \/ x = txn[t].nursery
<1>1. PICK v \in World : v = txn[t].stage
  BY TxnFacts
<1>2. PICK b \in World : b = txn[t].base.head.checkpoint
  BY TxnFacts
<1>3. PICK x : x = txn[t].nursery
  OBVIOUS
<1>4. /\ Grows(b.content, v.content) /\ IsInjective(v.content) /\ x \in Changes \cup {None}
      /\ x # None => x \in Changes \ EmptyBatches /\ x \notin ToSet(v.content)
      /\ b.content \in Seq(Changes) /\ v.content \in Seq(Changes)
  BY <1>1, <1>2, <1>3, TxnFacts DEF World
<1>5. CASE x = None
  BY <1>1, <1>2, <1>3, <1>4, <1>5 DEF Flushed
<1>6. CASE x # None
  <2>1. w \in Contributed(v, x)
    BY <1>1, <1>3, <1>6 DEF Flushed
  <2>2. /\ w \in World /\ IsInjective(w.content) /\ Grows(v.content, w.content)
        /\ ToSet(w.content) = ToSet(v.content) \cup {x}
    BY <1>4, <1>6, <2>1, WorldsOfContribution
  <2>3. PICK s \in Seq(Changes) : s = w.content
    BY <2>2 DEF World
  <2>4. Grows(b.content, s)
    BY <1>4, <2>2, <2>3, GrowsIsAnOrder
  <2>5. QED
    BY <1>1, <1>2, <1>3, <2>2, <2>3, <2>4
<1>7. QED
  BY <1>5, <1>6

\* flush.
LEMMA FlushKeeps ==
  ASSUME ConnectionAssumption, IInv, NEW t \in Txns, Flush(t)
  PROVE  IInv'
<1>1. PICK w \in Flushed(t) : txn' = [txn EXCEPT ![t].stage = w, ![t].nursery = None]
  BY DEF Flush
<1>2. PICK v : v = [txn[t] EXCEPT !.stage = w, !.nursery = None]
  OBVIOUS
<1>3. /\ txn[t] # None /\ txn[t].state = "open"
      /\ UNCHANGED <<db, connectionVars>> /\ answer' = answer
  BY DEF Flush, Editable
<1>4. txn[t] \in Transaction /\ TypeOK
  BY <1>3, TxnFacts DEF IInv
<1>5. txn' = [txn EXCEPT ![t] = v]
  BY <1>1, <1>2, <1>4 DEF TypeOK
<1>6. /\ w \in World /\ IsInjective(w.content)
      /\ Grows(txn[t].base.head.checkpoint.content, w.content)
      /\ \A x \in ToSet(w.content) : x \in ToSet(txn[t].stage.content) \/ x = txn[t].nursery
  BY <1>3, FlushedFacts
<1>7. /\ v \in Transaction /\ v.on = txn[t].on /\ v.base = txn[t].base /\ v.stage = w
      /\ v.nursery = None
  BY <1>2, <1>4, <1>6 DEF Transaction
<1>8. \A y \in Changes : Holds(v, y) => Staged(y)
  BY <1>3, <1>6, <1>7 DEF Holds, Staged, ConnectionAssumption, Commands
<1>9. /\ phase[v.on] \in {"open", "failed"}
      /\ Grows(v.base.head.checkpoint.content, v.stage.content)
      /\ IsInjective(v.stage.content)
      /\ v.base.logical = current[v.on].logical =>
           current[v.on].head.checkpoint.content = v.base.head.checkpoint.content
  BY <1>3, <1>6, <1>7, TxnFacts
<1>10. QED
  BY <1>3, <1>5, <1>7, <1>8, <1>9, TransactionStep

\* commit_async.
LEMMA CommitTxnKeeps ==
  ASSUME ConnectionAssumption, IInv, NEW t \in Txns, CommitTxn(t)
  PROVE  IInv'
<1>1. PICK w \in Flushed(t) :
        txn' = [txn EXCEPT ![t].stage = w, ![t].nursery = None, ![t].state = "queued"]
  BY DEF CommitTxn
<1>2. PICK v : v = [txn[t] EXCEPT !.stage = w, !.nursery = None, !.state = "queued"]
  OBVIOUS
<1>3. txn[t] # None /\ txn[t].state = "open"
  BY DEF CommitTxn, Editable
<1>4. PICK c \in Connections : c = txn[t].on
  BY <1>3, TxnFacts
<1>5. /\ phase[c] = "open" /\ queue' = [queue EXCEPT ![c] = Append(@, t)]
      /\ UNCHANGED <<db, phase, name, current, core, working, answer>>
  BY <1>4 DEF CommitTxn, Room, Enqueue
<1>6. /\ TypeOK /\ txn[t] \in Transaction /\ t \in Commands /\ t # None
      /\ queue[c] \in Seq(Commands) /\ IsInjective(queue[c])
      /\ working[c] # None => working[c].command \notin ToSet(queue[c])
      /\ ConnectionIsSound(c)
  BY <1>3, TxnFacts DEF IInv, TypeOK, Commands, QueuesAreSound, ConnectionsAreSound, ConnectionAssumption
<1>7. txn' = [txn EXCEPT ![t] = v]
  BY <1>1, <1>2, <1>6 DEF TypeOK
<1>8. /\ w \in World /\ IsInjective(w.content)
      /\ Grows(txn[t].base.head.checkpoint.content, w.content)
      /\ \A x \in ToSet(w.content) : x \in ToSet(txn[t].stage.content) \/ x = txn[t].nursery
  BY <1>3, FlushedFacts
<1>9. /\ v \in Transaction /\ v.on = c /\ v.base = txn[t].base /\ v.stage = w
      /\ v.nursery = None /\ v.state = "queued"
  BY <1>2, <1>4, <1>6, <1>8 DEF Transaction
<1>10. \A d \in Connections : t \notin Waiting(d)
  BY <1>3, WaitsOnce
<1>11. t \notin ToSet(queue[c]) /\ (working[c] # None => working[c].command # t)
  BY <1>6, <1>10 DEF Waiting
<1>12. PICK s \in Seq(Commands) : s = queue[c]
  BY <1>6
<1>13. /\ Append(s, t) \in Seq(Commands) /\ IsInjective(Append(s, t))
       /\ ToSet(Append(s, t)) = ToSet(s) \cup {t}
  BY <1>6, <1>11, <1>12, AppendElements
<1>14. TypeOK'
  BY <1>5, <1>6, <1>7, <1>9, <1>12, <1>13 DEF TypeOK
<1>15. queue'[c] = Append(s, t) /\ \A d \in Connections \ {c} : SameAt(d)
  BY <1>5, <1>6, <1>12 DEF TypeOK, SameAt
<1>16. txn'[t] = v /\ \A u \in Txns : u # t => txn'[u] = txn[u]
  BY <1>6, <1>7 DEF TypeOK
<1>17. ConnectionIsSound(c)'
  <2>1. working[c] # None => UpdateIsSound(c)'
    <3>1. working[c] # None => UpdateIsSound(c)
      BY <1>6 DEF ConnectionIsSound
    <3>2. QED
      BY <1>5, <1>11, <1>16, <3>1 DEF UpdateIsSound, Shown
  <2>2. QED
    BY <1>5, <1>6, <2>1 DEF ConnectionIsSound, Idle, Shown
<1>18. Waiting(c)' = Waiting(c) \cup {t}
  BY <1>5, <1>6, <1>12, <1>13, <1>15 DEF Waiting
<1>19. QueueStep(c)
  <2>1. Admitted(c, t)
    BY <1>6, <1>9, <1>16 DEF Admitted, ConnectionAssumption, Transaction
  <2>2. \A y \in Waiting(c)' : Kept(c, y) \/ Admitted(c, y)
    BY <1>5, <1>10, <1>16, <1>18, <2>1 DEF Kept
  <2>3. QED
    BY <1>5, <1>6, <1>11, <1>12, <1>13, <1>15, <2>2 DEF QueueStep
<1>20. TxnStep(c)
  <2>1. TransactionIsSound(t)'
    BY <1>5, <1>8, <1>9, <1>16 DEF TransactionIsSound
  <2>2. Identified(t)'
    <3>1. txn[t].base.logical = current[c].logical =>
            current[c].head.checkpoint.content = txn[t].base.head.checkpoint.content
      BY <1>3, <1>4, TxnFacts
    <3>2. QED
      BY <1>5, <1>9, <1>16, <3>1 DEF Identified, StillCurrent
  <2>3. \A y \in Changes : Holds(v, y) => Staged(y)
    BY <1>3, <1>8, <1>9 DEF Holds, Staged, ConnectionAssumption, Commands
  <2>4. ASSUME NEW u \in Txns, txn[u] # None, txn[u].on = c
        PROVE  Identified(u)
    BY <2>4 DEF IInv, IdentityMeansContent, Identified
  <2>5. ASSUME NEW u \in Txns, u # t, txn[u] # None, txn[u].on = c
        PROVE  phase'[c] \in {"open", "failed"} /\ Identified(u)'
    BY <1>5, <1>16, <2>4, <2>5 DEF Identified, StillCurrent
  <2>6. txn'[t] # txn[t]
    BY <1>3, <1>9, <1>16
  <2>7. QED
    BY <1>10, <1>16, <2>1, <2>2, <2>3, <2>5, <2>6 DEF TxnStep
<1>21. CatalogGrows /\ \A y : Recorded(y)' <=> Recorded(y)
  BY <1>5, SameCatalog
<1>22. SafeStep(c)
  BY <1>5, <1>15, <1>17, <1>19, <1>20, <1>21 DEF SafeStep, RowStep, AnswerStep
<1>23. QED
  BY <1>14, <1>22, SafeStepKeeps

-----------------------------------------------------------------------------
(***************************************************************************)
(* Clients of the catalog.                                                 *)
(***************************************************************************)

\* Rows that hold nothing new, while no connection takes a step.
LEMMA CatalogStep ==
  ASSUME ConnectionAssumption, IInv, UNCHANGED <<connectionVars, txn, answer>>,
         db' \in Tables, CatalogGrows, \A y : Recorded(y)' => Recorded(y)
  PROVE  IInv'
<1>1. TypeOK /\ None \notin Connections /\ UNCHANGED <<phase, name, current, core, queue, working>>
  BY DEF IInv, ConnectionAssumption, connectionVars
<1>2. TypeOK'
  BY <1>1 DEF TypeOK
<1>3. \A t \in Txns : txn[t] # None => txn[t].on # None
  BY <1>1 DEF TypeOK, Transaction
<1>4. SafeStep(None)
  BY <1>1, <1>3 DEF SafeStep, SameAt, TxnStep, RowStep, AnswerStep
<1>5. QED
  BY <1>2, <1>4, SafeStepKeeps

\* A snapshot a client may hold is injective and holds what is recorded.
LEMMA SnapshotFacts ==
  ASSUME ConnectionAssumption, IInv, NEW h \in Snapshots
  PROVE  /\ h \in SessionHead /\ IsRow(db, h) /\ h.checkpoint \in World
         /\ h.generation + 1 \in 1..Len(db.timelines[h.name])
         /\ IsInjective(h.checkpoint.content)
         /\ \A x \in ToSet(h.checkpoint.content) : Recorded(x)
<1>1. /\ h \in SessionHead /\ IsRow(db, h) /\ h.checkpoint \in World
      /\ h.generation + 1 \in 1..Len(db.timelines[h.name])
      /\ \A x \in ToSet(h.checkpoint.content) : Recorded(x)
  BY SnapshotsAreRows DEF IInv, TypeOK
<1>2. h.name \in Names /\ h.checkpoint.content = RowContent(h.name, h.generation + 1)
  BY <1>1 DEF SessionHead, IsRow, RowContent
<1>3. IsInjective(h.checkpoint.content)
  BY <1>1, <1>2 DEF IInv, GenerationsGrow
<1>4. QED
  BY <1>1, <1>3

\* save_session.
LEMMA SaveSnapshotKeeps ==
  ASSUME ConnectionAssumption, IInv, NEW h \in Snapshots, NEW s \in Saves, SaveSnapshot(s, h)
  PROVE  IInv' /\ db'.timelines = db.timelines
<1>1. /\ db' = After(db, [kind |-> "save", name |-> s, source |-> h])
      /\ UNCHANGED <<connectionVars, txn, answer>>
  BY DEF SaveSnapshot, Served
<1>2. h \in SessionHead /\ db \in Tables
  BY SnapshotFacts DEF IInv, TypeOK
<1>3. SameRows
  BY <1>1, <1>2, SaveAddsNone
<1>4. db' \in Tables /\ CatalogGrows /\ \A y : Recorded(y)' <=> Recorded(y)
  BY <1>2, <1>3, SameRowsStep DEF IInv, CatalogGrows, SameRows
<1>5. QED
  BY <1>1, <1>3, <1>4, CatalogStep DEF SameRows

\* fork_session.
LEMMA ForkSnapshotKeeps ==
  ASSUME ConnectionAssumption, IInv, NEW h \in Snapshots, NEW n \in Names, ForkSnapshot(n, h)
  PROVE  IInv' /\ RowAdded(n, h.checkpoint) /\ ~Exists(db, n)
<1>1. PICK r : r = [kind |-> "fork", name |-> n, source |-> h]
  OBVIOUS
<1>2. ~Refused(db, r) /\ db' = After(db, r) /\ UNCHANGED <<connectionVars, txn, answer>>
  BY <1>1 DEF ForkSnapshot, Served
<1>3. /\ h \in SessionHead /\ h.checkpoint \in World /\ IsInjective(h.checkpoint.content)
      /\ \A x \in ToSet(h.checkpoint.content) : Recorded(x)
      /\ db \in Tables /\ Bounded /\ GenerationsGrow
  BY SnapshotFacts DEF IInv, TypeOK
<1>4. RowAdded(n, h.checkpoint) /\ ~Exists(db, n)
  BY <1>1, <1>2, <1>3, ForkAdds
<1>5. PICK w \in World : w = h.checkpoint
  BY <1>3
<1>6. RowAdded(n, w) /\ \A x \in ToSet(w.content) : Recorded(x)
  BY <1>3, <1>4, <1>5
<1>7. /\ RowsStay /\ Bounded' /\ GenerationsGrow' /\ db' \in Tables
      /\ \A x : Recorded(x)' <=> Recorded(x) \/ x \in ToSet(w.content)
  BY <1>3, <1>6, RowAddedStep DEF RowAdded
<1>8. CatalogGrows /\ \A x : Recorded(x)' => Recorded(x)
  BY <1>6, <1>7 DEF CatalogGrows
<1>9. QED
  BY <1>2, <1>4, <1>7, <1>8, CatalogStep

-----------------------------------------------------------------------------
(***************************************************************************)
(* The invariant, and what it implies.                                     *)
(***************************************************************************)

\* Nothing is open, queued, begun or recorded at first.
LEMMA InitIsSound ==
  ASSUME ConnectionAssumption, Init
  PROVE  IInv
<1>1. /\ db = Empty /\ phase = [c \in Connections |-> "closed"]
      /\ name = [c \in Connections |-> None] /\ current = [c \in Connections |-> None]
      /\ core = [c \in Connections |-> None] /\ queue = [c \in Connections |-> <<>>]
      /\ working = [c \in Connections |-> None] /\ txn = [t \in Txns |-> None]
      /\ answer = [x \in Commands |-> None]
  BY DEF Init
<1>2. db \in Tables /\ \A n \in Names : db.timelines[n] = <<>>
  BY <1>1 DEF Empty, Tables
<1>3. TypeOK
  BY <1>1, <1>2 DEF TypeOK
<1>4. Bounded /\ GenerationsGrow
  BY <1>2 DEF Bounded, GenerationsGrow, ConnectionAssumption
<1>5. ToSet(<<>>) = {} /\ IsInjective(<<>>)
  BY DEF ToSet, IsInjective
<1>6. \A c \in Connections : Waiting(c) = {}
  BY <1>1, <1>5 DEF Waiting
<1>7. ConnectionsAreSound
  BY <1>1 DEF ConnectionsAreSound, ConnectionIsSound, Idle
<1>8. QueuesAreSound /\ PendingInOnePlace
  BY <1>1, <1>5, <1>6 DEF QueuesAreSound, PendingInOnePlace
<1>9. TransactionsAreSound /\ IdentityMeansContent
  BY <1>1 DEF TransactionsAreSound, IdentityMeansContent
<1>10. RefusedStaysOut /\ AcknowledgedIsDurable
  BY <1>1 DEF RefusedStaysOut, AcknowledgedIsDurable, Commands
<1>11. QED
  BY <1>3, <1>4, <1>7, <1>8, <1>9, <1>10 DEF IInv

\* A step that changes nothing.
LEMMA StutterKeeps ==
  ASSUME ConnectionAssumption, IInv, UNCHANGED vars
  PROVE  IInv'
<1>1. UNCHANGED db /\ UNCHANGED <<connectionVars, txn, answer>>
  BY DEF vars
<1>2. db' \in Tables /\ CatalogGrows /\ \A y : Recorded(y)' <=> Recorded(y)
  BY <1>1, SameCatalog
<1>3. QED
  BY <1>1, <1>2, CatalogStep

\* Every action keeps the invariant.
LEMMA StepKeeps ==
  ASSUME ConnectionAssumption, IInv, [Next]_vars
  PROVE  IInv'
<1>1. ASSUME NEW c \in Connections, NEW x \in Commands,
             Contribute(c, x) \/ ContributeNothing(c, x) \/ Reject(c, x) \/ CoreFails(c, x)
               \/ Conflict(c, x) \/ InstallNothing(c, x) \/ Install(c, x)
      PROVE  IInv'
  BY <1>1, ContributeKeeps, ContributeNothingKeeps, RejectKeeps, CoreFailsKeeps, ConflictKeeps,
     InstallNothingKeeps, InstallKeeps
<1>2. ASSUME NEW c \in Connections,
             Advance(c) \/ AdvanceFails(c) \/ Published(c) \/ Overtaken(c) \/ PublishFails(c)
      PROVE  IInv'
  BY <1>2, AdvanceKeeps, AdvanceFailsKeeps, PublishedKeeps, OvertakenKeeps, PublishFailsKeeps
<1>3. ASSUME NEW c \in Connections, Worker(c)
      PROVE  IInv'
  BY <1>1, <1>2, <1>3 DEF Worker
<1>4. ASSUME NEW c \in Connections,
             \/ \E n \in Names : Find(c, n)
             \/ CreateSession(c) \/ CreateFails(c) \/ Destroy(c) \/ Crash(c)
      PROVE  IInv'
  BY <1>4, FindKeeps, CreateSessionKeeps, CreateFailsKeeps, DestroyKeeps, CrashKeeps
<1>5. ASSUME NEW c \in Connections,
             \/ \E x \in Changes : Submit(c, x)
             \/ \E x \in Commands : Cancel(c, x)
             \/ \E t \in Txns : Begin(c, t)
      PROVE  IInv'
  BY <1>5, SubmitKeeps, CancelKeeps, BeginKeeps
<1>6. ASSUME NEW t \in Txns,
             \/ \E x \in Changes : Edit(t, x)
             \/ \E u \in Txns : Branch(t, u)
             \/ Revert(t) \/ Flush(t) \/ FlushFails(t) \/ CommitTxn(t) \/ CommitRefused(t) \/ Abort(t)
      PROVE  IInv'
  BY <1>6, EditKeeps, BranchKeeps, RevertKeeps, FlushKeeps, FlushFailsKeeps, CommitTxnKeeps, DroppedKeeps
<1>7. ASSUME NEW h \in Snapshots,
             \/ \E s \in Saves : SaveSnapshot(s, h)
             \/ \E n \in Names : ForkSnapshot(n, h)
      PROVE  IInv'
  BY <1>7, SaveSnapshotKeeps, ForkSnapshotKeeps
<1>8. QED
  BY <1>3, <1>4, <1>5, <1>6, <1>7, StutterKeeps DEF Next

\* The parts of the state stay consistent with one another, whatever connections,
\* workers, transactions and failures do.
THEOREM InvariantHolds == Spec => []IInv
<1>1. Init => IInv
  BY ConnectionAssumption, InitIsSound
<1>2. IInv /\ [Next]_vars => IInv'
  BY ConnectionAssumption, StepKeeps
<1>3. QED
  BY <1>1, <1>2, PTL DEF Spec

\* What callers were told stays so (persistent_engine: tickets of contribute,
\* install and cancel; current).
THEOREM AnswersAreKeptHolds == Spec => []AnswersAreKept
<1>1. IInv => AnswersAreKept
  <2> SUFFICES ASSUME IInv
               PROVE  AnswersAreKept
    OBVIOUS
  <2>1. AcknowledgedIsDurable
    BY DEF IInv
  <2>2. RefusedNeverAppears
    <3>1. \A x : Recorded(x) <=> \E h \in Snapshots : x \in ToSet(h.checkpoint.content)
      BY ConnectionAssumption, SnapshotsAreRows DEF IInv, TypeOK
    <3>2. QED
      BY <3>1 DEF IInv, RefusedStaysOut, RefusedNeverAppears
  <2>3. CurrentIsAGeneration
    BY DEF IInv, ConnectionsAreSound, ConnectionIsSound, CurrentIsAGeneration, Shown
  <2>4. QED
    BY <2>1, <2>2, <2>3 DEF AnswersAreKept
<1>2. QED
  BY <1>1, InvariantHolds, PTL

\* The logical identity by which install detects conflicts is sound.
THEOREM IdentityMeansContentHolds == Spec => []IdentityMeansContent
<1>1. IInv => IdentityMeansContent
  BY DEF IInv
<1>2. QED
  BY <1>1, InvariantHolds, PTL

-----------------------------------------------------------------------------
(***************************************************************************)
(* The histories a user sees: Connection implements NamedHistory.          *)
(***************************************************************************)
Histories == [n \in Names |-> HistoryOf(n)]

\* A history that continues another begins with it.
LEMMA GrowsIsPrefix ==
  ASSUME NEW S, NEW s \in Seq(S), NEW t \in Seq(S), Grows(s, t)
  PROVE  /\ s = SubSeq(t, 1, Len(s)) /\ Len(s) \in 0..Len(t)
         /\ History!IsPrefix(s, t)
<1>1. Len(s) \in Nat /\ Len(t) \in Nat /\ Len(s) <= Len(t) /\ \A i \in 1..Len(s) : t[i] = s[i]
  BY DEF Grows
<1>2. /\ SubSeq(t, 1, Len(s)) \in Seq(S) /\ Len(SubSeq(t, 1, Len(s))) = Len(s)
      /\ \A i \in 1..Len(s) : SubSeq(t, 1, Len(s))[i] = t[i]
  BY <1>1, SubSeqProperties
<1>3. s = SubSeq(t, 1, Len(s))
  BY <1>1, <1>2, SeqEqual
<1>4. SubSeq(s, 1, Len(s)) = s
  BY SubSeqFull
<1>5. QED
  BY <1>1, <1>3, <1>4 DEF History!IsPrefix

\* A row is added as a next generation, as the first of a name, or as a copy of a row.
Written(n, w) ==
  /\ RowAdded(n, w)
  /\ \/ Exists(db, n)
     \/ ~Exists(db, n) /\ w.content = <<>>
     \/ ~Exists(db, n) /\ \E h \in Snapshots : w = h.checkpoint

\* The history of a name that exists.
LEMMA HistoryFacts ==
  ASSUME ConnectionAssumption, db \in Tables, Bounded, NEW n \in Names
  PROVE  /\ Exists(db, n) => /\ HistoryOf(n) = RowContent(n, Len(db.timelines[n]))
                             /\ Len(db.timelines[n]) \in 1..Len(db.timelines[n])
                             /\ HistoryOf(n) \in Seq(Changes) /\ HistoryOf(n) # Nowhere
         /\ ~Exists(db, n) => HistoryOf(n) = Nowhere
<1>1. CASE Exists(db, n)
  <2>1. db.timelines[n] \in Seq(World) /\ db.timelines[n] # <<>>
    BY <1>1, RowTypes DEF Exists
  <2>2. Len(db.timelines[n]) \in 1..Len(db.timelines[n])
    BY <2>1
  <2>3. HistoryOf(n) = RowContent(n, Len(db.timelines[n]))
    BY <1>1, LatestIsRow DEF HistoryOf, RowContent
  <2>4. HistoryOf(n) \in Seq(Changes)
    BY <2>2, <2>3, RowTypes
  <2>5. QED
    BY <1>1, <2>2, <2>3, <2>4 DEF ConnectionAssumption
<1>2. CASE ~Exists(db, n)
  BY <1>2 DEF HistoryOf
<1>3. QED
  BY <1>1, <1>2

\* A row written is a step of the histories, or leaves them as they are.
LEMMA WrittenIsHistory ==
  ASSUME ConnectionAssumption, IInv, NEW n \in Names, NEW w \in World, Written(n, w)
  PROVE  [History!HistoryNext]_Histories
<1>1. /\ db \in Tables /\ Bounded /\ GenerationsGrow /\ RowAdded(n, w)
  BY DEF IInv, TypeOK, Written
<1>2. w.content \in Seq(Changes) /\ IsInjective(w.content)
  BY <1>1 DEF World, RowAdded
<1>3. PICK H : H = Histories
  OBVIOUS
<1>4. PICK G : G = Histories'
  OBVIOUS
<1>5. /\ H = [m \in Names |-> HistoryOf(m)]
      /\ \A m \in Names : H[m] = HistoryOf(m)
  BY <1>3 DEF Histories
<1>6. G = [H EXCEPT ![n] = w.content]
  <2>1. HistoryOf(n)' = w.content
    <3>1. Latest(db', n).checkpoint = w
      BY <1>1, AddedHead
    <3>2. Exists(db', n)
      <4>1. db'.timelines[n] = Append(db.timelines[n], w) /\ db.timelines[n] \in Seq(World)
        BY <1>1, RowTypes DEF RowAdded
      <4>2. QED
        BY <4>1 DEF Exists
    <3>3. QED
      BY <3>1, <3>2 DEF HistoryOf
  <2>2. ASSUME NEW m \in Names, m # n
        PROVE  HistoryOf(m)' = HistoryOf(m)
    <3>1. db'.timelines[m] = db.timelines[m]
      BY <1>1, <2>2 DEF RowAdded
    <3>2. QED
      BY <3>1 DEF HistoryOf, Exists, Latest, HeadAt
  <2>3. G = [m \in Names |-> HistoryOf(m)']
    BY <1>4 DEF Histories
  <2>4. QED
    BY <1>5, <2>1, <2>2, <2>3
<1>7. G[n] = w.content
  BY <1>5, <1>6
<1>8. CASE Exists(db, n)
  <2>1. /\ H[n] = RowContent(n, Len(db.timelines[n])) /\ H[n] \in Seq(Changes) /\ H[n] # Nowhere
    BY <1>1, <1>5, <1>8, HistoryFacts
  <2>2. Grows(H[n], w.content)
    BY <1>1, <1>8, <2>1 DEF RowAdded, Exists, RowContent
  <2>3. CASE H[n] = w.content
    <3>1. G = H
      BY <1>5, <1>6, <2>3
    <3>2. QED
      BY <1>3, <1>4, <3>1
  <2>4. CASE H[n] # w.content
    <3>1. PICK s \in Seq(Changes) : s = H[n]
      BY <2>1
    <3>2. PICK t \in Seq(Changes) : t = w.content
      BY <1>2
    <3>3. History!IsStrictPrefix(s, t)
      BY <2>2, <2>4, <3>1, <3>2, GrowsIsPrefix DEF History!IsStrictPrefix
    <3>4. History!IsInjective(t)
      BY <1>2, <3>2 DEF IsInjective, History!IsInjective
    <3>5. /\ H[n] # Nowhere /\ History!IsStrictPrefix(H[n], G[n]) /\ G[n] \in Seq(Changes)
          /\ History!IsInjective(G[n]) /\ G = [H EXCEPT ![n] = G[n]]
      BY <1>6, <1>7, <2>1, <3>1, <3>2, <3>3, <3>4
    <3>6. History!Extend(n)
      BY <1>3, <1>4, <3>5 DEF History!Extend, History!IsBorn, Histories
    <3>7. QED
      BY <3>6 DEF History!HistoryNext
  <2>5. QED
    BY <2>3, <2>4
<1>9. CASE ~Exists(db, n) /\ w.content = <<>>
  <2>1. H[n] = Nowhere /\ G = [H EXCEPT ![n] = <<>>]
    BY <1>1, <1>5, <1>6, <1>9, HistoryFacts
  <2>2. History!Found(n)
    BY <1>3, <1>4, <2>1 DEF History!Found, History!IsBorn, Histories
  <2>3. QED
    BY <2>2 DEF History!HistoryNext
<1>10. CASE ~Exists(db, n) /\ \E h \in Snapshots : w = h.checkpoint
  <2>1. PICK h \in Snapshots : w = h.checkpoint
    BY <1>10
  <2>2. /\ h \in SessionHead /\ IsRow(db, h) /\ h.generation + 1 \in 1..Len(db.timelines[h.name])
    BY SnapshotFacts
  <2>3. PICK m \in Names : m = h.name
    BY <2>2 DEF SessionHead
  <2>4. PICK k \in Nat : k = Len(db.timelines[m])
    BY <1>1, RowTypes
  <2>5. PICK i : i = h.generation + 1
    OBVIOUS
  <2>6. i \in 1..k /\ w.content = RowContent(m, i)
    BY <2>1, <2>2, <2>3, <2>4, <2>5 DEF IsRow, RowContent
  <2>7. Exists(db, m)
    BY <1>1, <2>4, <2>6, RowTypes DEF Exists
  <2>8. H[m] = RowContent(m, k) /\ H[m] \in Seq(Changes) /\ H[m] # Nowhere /\ k \in i..k
    <3>1. /\ H[m] = RowContent(m, Len(db.timelines[m]))
          /\ H[m] \in Seq(Changes) /\ H[m] # Nowhere
      BY <1>1, <1>5, <2>7, HistoryFacts
    <3>2. RowContent(m, Len(db.timelines[m])) = RowContent(m, k)
      BY <2>4 DEF RowContent
    <3>3. QED
      BY <2>4, <2>6, <3>1, <3>2
  <2>9. Grows(w.content, H[m])
    BY <1>1, <2>4, <2>6, <2>8 DEF GenerationsGrow
  <2>10. PICK s \in Seq(Changes) : s = w.content
    BY <1>2
  <2>11. PICK t \in Seq(Changes) : t = H[m]
    BY <2>8
  <2>12. s = SubSeq(t, 1, Len(s)) /\ Len(s) \in 0..Len(t)
    BY <2>9, <2>10, <2>11, GrowsIsPrefix
  <2>13. /\ H[n] = Nowhere /\ H[m] # Nowhere /\ Len(s) \in 0..Len(H[m])
         /\ G = [H EXCEPT ![n] = SubSeq(H[m], 1, Len(s))]
    BY <1>1, <1>5, <1>6, <1>10, <2>8, <2>10, <2>11, <2>12, HistoryFacts
  <2>14. History!Copy(n, m)
    BY <1>3, <1>4, <2>13 DEF History!Copy, History!IsBorn, Histories
  <2>15. QED
    BY <2>14 DEF History!HistoryNext
<1>11. QED
  BY <1>8, <1>9, <1>10 DEF Written

\* Each step leaves the timelines as they are or writes one row.
LEMMA StepWrites ==
  ASSUME ConnectionAssumption, IInv, [Next]_vars
  PROVE  db'.timelines = db.timelines \/ \E n \in Names : \E w \in World : Written(n, w)
<1>1. CASE UNCHANGED db
  BY <1>1
<1>2. ASSUME NEW c \in Connections, CreateSession(c) \/ CreateFails(c), db' # db
      PROVE  \E n \in Names : \E w \in World : Written(n, w)
  <2>1. PICK r : r = [kind |-> "create", name |-> name[c], checkpoint |-> Seed]
    OBVIOUS
  <2>2. phase[c] = "creating" /\ ~Refused(db, r) /\ db' = After(db, r)
    BY <1>2, <2>1 DEF CreateSession, CreateFails
  <2>3. name[c] \in Names /\ RowAdded(name[c], Seed)
    BY <2>1, <2>2, CreationGrows
  <2>4. ~Exists(db, name[c])
    BY <2>1, <2>2 DEF Refused
  <2>5. PICK n \in Names : n = name[c]
    BY <2>3
  <2>6. PICK w \in World : w = Seed
    BY SeedWorld
  <2>7. Written(n, w)
    BY <2>3, <2>4, <2>5, <2>6 DEF Written, Seed
  <2>8. QED
    BY <2>7
<1>3. ASSUME NEW c \in Connections, Published(c) \/ PublishFails(c), db' # db
      PROVE  \E n \in Names : \E w \in World : Written(n, w)
  <2>1. working[c] # None /\ ~Refused(db, PublishRequest(c)) /\ db' = After(db, PublishRequest(c))
    BY <1>3 DEF Published, PublishFails
  <2>2. RowAdded(name[c], working[c].world) /\ Exists(db, name[c])
    BY <1>3, <2>1, PublicationGrows
  <2>3. PICK n : n = name[c]
    OBVIOUS
  <2>4. PICK w : w = working[c].world
    OBVIOUS
  <2>5. RowAdded(n, w) /\ Exists(db, n)
    BY <2>2, <2>3, <2>4
  <2>6. n \in Names /\ w \in World
    BY <2>5 DEF RowAdded
  <2>7. QED
    BY <2>5, <2>6 DEF Written
<1>4. ASSUME NEW h \in Snapshots, NEW s \in Saves, SaveSnapshot(s, h)
      PROVE  db'.timelines = db.timelines
  BY <1>4, SaveSnapshotKeeps
<1>5. ASSUME NEW h \in Snapshots, NEW n \in Names, ForkSnapshot(n, h)
      PROVE  \E m \in Names : \E w \in World : Written(m, w)
  <2>1. RowAdded(n, h.checkpoint) /\ ~Exists(db, n) /\ h.checkpoint \in World
    BY <1>5, ForkSnapshotKeeps, SnapshotFacts
  <2>2. PICK w \in World : w = h.checkpoint
    BY <2>1
  <2>3. Written(n, w)
    BY <2>1, <2>2 DEF Written
  <2>4. QED
    BY <2>3
<1>6. ASSUME NEW c \in Connections, Worker(c)
      PROVE  UNCHANGED db \/ Published(c) \/ PublishFails(c)
  BY <1>6 DEF Worker, Contribute, ContributeNothing, Reject, CoreFails, Conflict, InstallNothing,
     Install, Advance, AdvanceFails, Overtaken
<1>7. ASSUME NEW c \in Connections,
             \/ \E n \in Names : Find(c, n)
             \/ Destroy(c) \/ Crash(c)
             \/ \E x \in Changes : Submit(c, x)
             \/ \E x \in Commands : Cancel(c, x)
             \/ \E t \in Txns : Begin(c, t)
      PROVE  UNCHANGED db
  BY <1>7 DEF Find, Destroy, Crash, Submit, Cancel, Begin
<1>8. ASSUME NEW t \in Txns,
             \/ \E x \in Changes : Edit(t, x)
             \/ \E u \in Txns : Branch(t, u)
             \/ Revert(t) \/ Flush(t) \/ FlushFails(t) \/ CommitTxn(t) \/ CommitRefused(t) \/ Abort(t)
      PROVE  UNCHANGED db
  BY <1>8 DEF Edit, Branch, Revert, Flush, FlushFails, CommitTxn, CommitRefused, Abort
<1>9. CASE db' # db
  <2>1. Next
    BY <1>9 DEF vars
  <2>2. CASE \E c \in Connections :
               \/ \E n \in Names : Find(c, n)
               \/ CreateSession(c) \/ CreateFails(c) \/ Destroy(c) \/ Crash(c)
               \/ \E x \in Changes : Submit(c, x)
               \/ \E x \in Commands : Cancel(c, x)
               \/ \E t \in Txns : Begin(c, t)
               \/ Worker(c)
    BY <1>2, <1>3, <1>6, <1>7, <1>9, <2>2
  <2>3. CASE \E h \in Snapshots : \/ \E s \in Saves : SaveSnapshot(s, h)
                                  \/ \E n \in Names : ForkSnapshot(n, h)
    BY <1>4, <1>5, <2>3
  <2>4. QED
    BY <1>8, <1>9, <2>1, <2>2, <2>3 DEF Next
<1>10. QED
  BY <1>1, <1>9

\* Whatever connections, transactions, maintenance and failures do, each name has one
\* history that only grows at its end and holds no change twice, and a fork begins as
\* a prefix of its source (publish_session with an expected head, install, fork_session).
THEOREM RefinesHistory == Spec => ImplementsHistory
<1>1. Init => History!HistoryInit
  <2> SUFFICES ASSUME Init
               PROVE  Histories = [n \in Names |-> Nowhere]
    BY DEF History!HistoryInit, Histories
  <2>1. \A n \in Names : HistoryOf(n) = Nowhere
    BY DEF Init, Empty, HistoryOf, Exists
  <2>2. QED
    BY <2>1 DEF Histories
<1>2. IInv /\ [Next]_vars => [History!HistoryNext]_Histories
  <2> SUFFICES ASSUME IInv, [Next]_vars
               PROVE  [History!HistoryNext]_Histories
    OBVIOUS
  <2>1. CASE db'.timelines = db.timelines
    <3>1. \A n \in Names : HistoryOf(n)' = HistoryOf(n)
      BY <2>1 DEF HistoryOf, Exists, Latest, HeadAt
    <3>2. QED
      BY <3>1 DEF Histories
  <2>2. CASE \E n \in Names : \E w \in World : Written(n, w)
    BY <2>2, ConnectionAssumption, WrittenIsHistory
  <2>3. QED
    BY <2>1, <2>2, ConnectionAssumption, StepWrites
<1>3. QED
  BY <1>1, <1>2, InvariantHolds, PTL DEF Spec, ImplementsHistory, History!HistorySpec, Histories

-----------------------------------------------------------------------------
(***************************************************************************)
(* Transactions (transaction.h), for any keys and sorts of keys, states,   *)
(* arrows and bases.  An entry's arrow leads from what is staged to what   *)
(* the transaction has made of it, and a replacement is only kept if that  *)
(* is another state; a core, if there is one, holds what is staged.        *)
(***************************************************************************)

\* What a nursery says of one key: staged, made of it, the entry.
EntrySound(k, staged, truth, entry) ==
  IF entry = Nothing THEN staged = truth
  ELSE /\ Apply(IF Replaces(k) THEN Missing ELSE staged, entry.arrow) = truth
       /\ Replaces(k) => entry.arrow \in TxnEdits[k] /\ truth # staged
       /\ entry.original = staged

\* The fields a transaction shares with its snapshots.
StageSound(v) ==
  /\ v.base \in Contents /\ v.world \in Contents /\ v.truth \in Contents
  /\ v.nursery \in [TxnKeys -> Entry \cup {Nothing}]
  /\ \A k \in TxnKeys : EntrySound(k, v.world[k], v.truth[k], v.nursery[k])
  /\ ~v.changed => v.world = v.base

OpenSound(v) == StageSound(v) /\ v.core \in {Nothing, v.world}

TransactionIInv ==
  /\ TransactionTypeOK
  /\ \A t \in Transactions : IsOpen(t) => OpenSound(txns[t])
  /\ \A s \in Frozen : frozen[s] # Nothing => StageSound(frozen[s])
  /\ handed # Nothing => Installed(handed) = handed.truth

(* Reads, and the comparisons of an edit, see what was made of the base.   *)
LEMMA SoundReads ==
  ASSUME NEW v, StageSound(v), NEW k \in TxnKeys
  PROVE  /\ Reading(v, k) = v.truth[k]
         /\ Before(v, k) = v.truth[k]
         /\ Original(v, k) = v.world[k]
<1>1. /\ v.world[k] \in TxnStates /\ v.nursery[k] \in Entry \cup {Nothing}
      /\ EntrySound(k, v.world[k], v.truth[k], v.nursery[k])
  BY DEF StageSound, Contents
<1>2. CASE v.nursery[k] = Nothing
  BY <1>1, <1>2 DEF EntrySound, Reading, Before, Original, Edited
<1>3. CASE v.nursery[k] # Nothing
  <2>1. Original(v, k) = v.world[k]
    BY <1>1, <1>3 DEF EntrySound, Original, Edited
  <2>2. Reading(v, k) = v.truth[k]
    BY <1>1, <1>3 DEF EntrySound, Reading, Below, Edited
  <2>3. Apply(v.world[k], v.nursery[k].arrow) = v.truth[k]
    BY <1>1, <1>3, TransactionAssumption DEF EntrySound, TransactionAssumption
  <2>4. Before(v, k) = v.truth[k]
    BY <1>3, <2>1, <2>3 DEF Before, Edited
  <2> QED
    BY <2>1, <2>2, <2>4
<1> QED
  BY <1>2, <1>3

(* The core takes the nursery, and holds then what the transaction reads.  *)
LEMMA SoundFlush ==
  ASSUME NEW v, OpenSound(v)
  PROVE  ~Refuses(v) /\ Taken(v) = v.truth
<1>1. /\ CoreOf(v) = v.world /\ v.world \in Contents /\ v.truth \in Contents
      /\ StageSound(v)
  BY TransactionAssumption DEF OpenSound, StageSound, CoreOf, TransactionAssumption
<1>2. ASSUME NEW k \in TxnKeys
      PROVE  EntrySound(k, v.world[k], v.truth[k], v.nursery[k])
  BY <1>1 DEF StageSound
<1>3. ~Refuses(v)
  BY <1>1, <1>2 DEF Refuses, DeletesAbsent, EntrySound, Edited
<1>4. ASSUME NEW k \in TxnKeys
      PROVE  Taken(v)[k] = v.truth[k]
  BY <1>1, <1>2 DEF Taken, EntrySound, Edited
<1>5. Taken(v) = [k \in TxnKeys |-> Taken(v)[k]] /\ v.truth = [k \in TxnKeys |-> v.truth[k]]
  BY <1>1 DEF Taken, Contents
<1> QED
  BY <1>3, <1>4, <1>5

(* After a flush the nursery is empty and the core holds what is staged.   *)
LEMMA SoundAfterFlush ==
  ASSUME NEW v \in Open, OpenSound(v)
  PROVE  /\ AfterFlush(v) \in Open /\ OpenSound(AfterFlush(v))
         /\ AfterFlush(v).world = v.truth /\ AfterFlush(v).truth = v.truth
         /\ AfterFlush(v).base = v.base /\ AfterFlush(v).failed = v.failed
<1>1. StageSound(v) /\ v.truth \in Contents /\ v.world \in Contents
  BY DEF OpenSound, StageSound
<1>2. CASE Edited(v) = {}
  <2>1. \A k \in TxnKeys : v.world[k] = v.truth[k]
    BY <1>1, <1>2 DEF Edited, StageSound, EntrySound
  <2>2. v.world = v.truth
    BY <1>1, <2>1 DEF Contents
  <2> QED
    BY <1>2, <2>2 DEF AfterFlush
<1>3. CASE Edited(v) # {}
  <2> PICK w : w = AfterFlush(v)
    OBVIOUS
  <2>1. w = [v EXCEPT !.core = v.truth, !.world = v.truth, !.changed = TRUE, !.nursery = NoEdits]
    BY <1>3, SoundFlush DEF AfterFlush
  <2>2. NoEdits \in [TxnKeys -> Entry \cup {Nothing}] /\ \A k \in TxnKeys : NoEdits[k] = Nothing
    BY DEF NoEdits
  <2>3. /\ w \in Open /\ w.core = v.truth /\ w.world = v.truth /\ w.truth = v.truth /\ w.changed
        /\ w.nursery = NoEdits /\ w.base = v.base /\ w.failed = v.failed
    BY <1>1, <2>1, <2>2 DEF Open
  <2>4. w.base \in Contents
    BY <2>3 DEF Open
  <2>5. OpenSound(w)
    BY <1>1, <2>2, <2>3, <2>4 DEF OpenSound, StageSound, EntrySound
  <2> QED
    BY <2>3, <2>5
<1> QED
  BY <1>2, <1>3

(* An edit keeps the nursery sound: `after == base` compares with what is
   staged, whatever was flushed before.                                    *)
LEMMA SoundChange ==
  ASSUME NEW v, StageSound(v), NEW k \in TxnKeys, NEW arrow \in TxnEdits[k]
  PROVE  /\ EntrySound(k, v.world[k], Apply(v.truth[k], arrow), EntryAfter(v, k, arrow))
         /\ EntryAfter(v, k, arrow) \in Entry \cup {Nothing}
         /\ Apply(v.truth[k], arrow) \in TxnStates
<1>1. /\ v.world[k] \in TxnStates /\ v.truth[k] \in TxnStates /\ arrow \in Arrows
      /\ v.nursery[k] \in Entry \cup {Nothing}
      /\ EntrySound(k, v.world[k], v.truth[k], v.nursery[k])
  BY TransactionAssumption DEF StageSound, Contents, TransactionAssumption
<1>2. Before(v, k) = v.truth[k] /\ Original(v, k) = v.world[k]
  BY SoundReads
<1>3. Apply(v.truth[k], arrow) \in TxnStates
  BY <1>1, TransactionAssumption DEF TransactionAssumption
<1>4. Combined(v, k, arrow) \in Arrows
  BY <1>1, TransactionAssumption DEF Combined, Edited, Entry, TransactionAssumption
<1>5. [arrow |-> Combined(v, k, arrow), original |-> v.world[k]] \in Entry
  BY <1>1, <1>4 DEF Entry
<1>6. CASE Replaces(k) /\ Apply(v.truth[k], arrow) = v.world[k]
  BY <1>2, <1>3, <1>6 DEF EntryAfter, EntrySound
<1>7. CASE ~(Replaces(k) /\ Apply(v.truth[k], arrow) = v.world[k])
  <2> PICK e : e = [arrow |-> Combined(v, k, arrow), original |-> v.world[k]]
    OBVIOUS
  <2>1. EntryAfter(v, k, arrow) = e /\ e # Nothing /\ e \in Entry
    BY <1>2, <1>5, <1>7, TransactionAssumption DEF EntryAfter, TransactionAssumption
  <2>2. CASE Replaces(k)
    <3>1. e.arrow = arrow /\ e.original = v.world[k]
      BY <2>2 DEF Combined
    <3>2. Apply(Missing, arrow) = Apply(v.truth[k], arrow)
      BY <1>1, <2>2, TransactionAssumption DEF TransactionAssumption
    <3> QED
      BY <1>3, <1>7, <2>1, <2>2, <3>1, <3>2 DEF EntrySound
  <2>3. CASE ~Replaces(k)
    <3>1. Apply(v.world[k], Combined(v, k, arrow)) = Apply(v.truth[k], arrow)
      <4>1. CASE v.nursery[k] = Nothing
        BY <1>1, <2>3, <4>1 DEF Combined, EntrySound, Edited
      <4>2. CASE v.nursery[k] # Nothing
        <5>1. v.nursery[k].arrow \in Arrows /\ Apply(v.world[k], v.nursery[k].arrow) = v.truth[k]
          BY <1>1, <2>3, <4>2 DEF EntrySound, Entry
        <5>2. Combined(v, k, arrow) = Compose(v.nursery[k].arrow, arrow)
          BY <2>3, <4>2 DEF Combined, Edited
        <5>3. \A s \in TxnStates, a, b \in Arrows : Apply(s, Compose(a, b)) = Apply(Apply(s, a), b)
          BY TransactionAssumption DEF TransactionAssumption
        <5>4. Apply(v.world[k], Compose(v.nursery[k].arrow, arrow)) = Apply(Apply(v.world[k], v.nursery[k].arrow), arrow)
          BY <1>1, <5>1, <5>3
        <5> QED
          BY <5>1, <5>2, <5>4
      <4> QED
        BY <4>1, <4>2
    <3> QED
      BY <1>3, <2>1, <2>3, <3>1 DEF EntrySound
  <2> QED
    BY <1>3, <2>1, <2>2, <2>3
<1> QED
  BY <1>6, <1>7

-----------------------------------------------------------------------------

LEMMA TransactionInitHolds == TransactionInit => TransactionIInv
  BY DEF TransactionInit, TransactionIInv, TransactionTypeOK, IsOpen

\* The one transaction that changed is sound, unless it failed or was closed.
LEMMA OneTransaction ==
  ASSUME TransactionIInv, NEW t \in Transactions, NEW v \in Open \cup {Nothing},
         txns' = [txns EXCEPT ![t] = v],
         v # Nothing /\ ~v.failed => OpenSound(v),
         frozen' = frozen, edits' \in Nat,
         handed' \in Submitted \cup {Nothing},
         handed' # Nothing => Installed(handed') = handed'.truth
  PROVE  TransactionIInv'
<1>1. TransactionTypeOK'
  BY DEF TransactionIInv, TransactionTypeOK
<1>2. ASSUME NEW u \in Transactions, IsOpen(u)'
      PROVE  OpenSound(txns[u])'
  <2>1. CASE u = t
    BY <1>2, <2>1 DEF TransactionIInv, TransactionTypeOK, IsOpen
  <2>2. CASE u # t
    <3>1. txns'[u] = txns[u]
      BY <2>2 DEF TransactionIInv, TransactionTypeOK
    <3> QED
      BY <1>2, <3>1 DEF TransactionIInv, IsOpen
  <2> QED
    BY <2>1, <2>2
<1> QED
  BY <1>1, <1>2 DEF TransactionIInv

LEMMA TransactionStepHolds == TransactionIInv /\ [TransactionNext]_transactionVars => TransactionIInv'
<1> SUFFICES ASSUME TransactionIInv, [TransactionNext]_transactionVars
             PROVE  TransactionIInv'
  OBVIOUS
<1>1. /\ txns \in [Transactions -> Open \cup {Nothing}] /\ edits \in Nat
      /\ frozen \in [Frozen -> Snapshot \cup {Nothing}]
      /\ \A t \in Transactions : IsOpen(t) => OpenSound(txns[t])
      /\ \A s \in Frozen : frozen[s] # Nothing => StageSound(frozen[s])
  BY DEF TransactionIInv, TransactionTypeOK
<1>2. ASSUME NEW t \in Transactions, IsOpen(t)
      PROVE  txns[t] \in Open /\ OpenSound(txns[t]) /\ ~txns[t].failed
  BY <1>1, <1>2 DEF IsOpen
<1>3. ASSUME NEW t \in Transactions, NEW base \in TxnBases, begin(t, base)
      PROVE  TransactionIInv'
  <2> DEFINE v == [base |-> base, world |-> base, changed |-> FALSE, nursery |-> NoEdits,
                   truth |-> base, core |-> Nothing, failed |-> FALSE]
  <2>1. base \in Contents /\ NoEdits \in [TxnKeys -> Entry \cup {Nothing}]
        /\ \A k \in TxnKeys : NoEdits[k] = Nothing
    BY TransactionAssumption DEF NoEdits, TransactionAssumption
  <2>2. v \in Open
    BY <2>1 DEF Open
  <2>3. OpenSound(v)
    BY <2>1 DEF OpenSound, StageSound, EntrySound
  <2>4. txns' = [txns EXCEPT ![t] = v] /\ frozen' = frozen /\ edits' = edits /\ handed' = Nothing
    BY <1>3 DEF begin
  <2> HIDE DEF v
  <2> QED
    BY <1>1, <2>2, <2>3, <2>4, OneTransaction
<1>4. ASSUME NEW t \in Transactions, NEW k \in TxnKeys, NEW arrow \in TxnEdits[k], change(t, k, arrow)
      PROVE  TransactionIInv'
  <2> PICK v : v = txns[t]
    OBVIOUS
  <2> PICK e : e = EntryAfter(v, k, arrow)
    OBVIOUS
  <2> PICK w : w = [v EXCEPT !.nursery[k] = e, !.truth[k] = Apply(@, arrow)]
    OBVIOUS
  <2>1. IsOpen(t) /\ v \in Open /\ OpenSound(v) /\ ~v.failed
    BY <1>2, <1>4 DEF change
  <2>2. /\ EntrySound(k, v.world[k], Apply(v.truth[k], arrow), e)
        /\ e \in Entry \cup {Nothing} /\ Apply(v.truth[k], arrow) \in TxnStates
    BY <2>1, SoundChange DEF OpenSound
  <2>3. /\ w \in Open /\ w.world = v.world /\ w.base = v.base /\ w.core = v.core
        /\ w.changed = v.changed /\ w.failed = v.failed
        /\ w.nursery = [v.nursery EXCEPT ![k] = e]
        /\ w.truth = [v.truth EXCEPT ![k] = Apply(v.truth[k], arrow)]
    BY <2>1, <2>2 DEF Open, Contents
  <2>4. ASSUME NEW m \in TxnKeys
        PROVE  EntrySound(m, w.world[m], w.truth[m], w.nursery[m])
    <3>1. v.truth \in [TxnKeys -> TxnStates] /\ v.nursery \in [TxnKeys -> Entry \cup {Nothing}]
      BY <2>1 DEF Open, Contents
    <3>2. CASE m = k
      BY <2>2, <2>3, <3>1, <3>2
    <3>3. CASE m # k
      <4>1. w.truth[m] = v.truth[m] /\ w.nursery[m] = v.nursery[m]
        BY <2>3, <3>1, <3>3
      <4> QED
        BY <2>1, <2>3, <4>1 DEF OpenSound, StageSound
    <3> QED
      BY <3>2, <3>3
  <2>5. OpenSound(w)
    <3>1. w.truth \in Contents /\ w.nursery \in [TxnKeys -> Entry \cup {Nothing}]
      BY <2>3 DEF Open
    <3> QED
      BY <2>1, <2>3, <2>4, <3>1 DEF OpenSound, StageSound
  <2>6. txns' = [txns EXCEPT ![t] = w] /\ frozen' = frozen /\ edits' = edits + 1 /\ handed' = Nothing
    BY <1>4 DEF change
  <2>7. edits' \in Nat
    BY <1>1, <2>6
  <2> QED
    BY <2>3, <2>5, <2>6, <2>7, OneTransaction
<1>5. ASSUME NEW t \in Transactions, change_fails(t)
      PROVE  TransactionIInv'
  <2> PICK w : w = [txns[t] EXCEPT !.failed = TRUE]
    OBVIOUS
  <2>1. w \in Open /\ w.failed
    BY <1>2, <1>5 DEF change_fails, Open
  <2>2. txns' = [txns EXCEPT ![t] = w] /\ frozen' = frozen /\ edits' = edits /\ handed' = Nothing
    BY <1>5 DEF change_fails
  <2> QED
    BY <1>1, <2>1, <2>2, OneTransaction
<1>6. ASSUME NEW t \in Transactions, flush(t)
      PROVE  TransactionIInv'
  <2>1. AfterFlush(txns[t]) \in Open /\ OpenSound(AfterFlush(txns[t]))
    BY <1>2, <1>6, SoundAfterFlush DEF flush
  <2>2. txns' = [txns EXCEPT ![t] = AfterFlush(txns[t])] /\ frozen' = frozen /\ edits' = edits /\ handed' = Nothing
    BY <1>6 DEF flush
  <2> QED
    BY <1>1, <2>1, <2>2, OneTransaction
<1>7. ASSUME NEW t \in Transactions, flush_fails(t)
      PROVE  TransactionIInv'
  <2> PICK v : v = txns[t]
    OBVIOUS
  <2>1. IsOpen(t) /\ v \in Open /\ OpenSound(v)
    BY <1>2, <1>7 DEF flush_fails
  <2>2. v.core \in Contents \cup {Nothing} /\ CoreOf(v) \in Contents /\ Taken(v) \in Contents
    BY <2>1, SoundFlush DEF Open, OpenSound, StageSound, CoreOf
  <2>3. PICK kept \in Contents \cup {Nothing} :
          txns' = [txns EXCEPT ![t] = Abandoned(v, kept)]
    BY <1>7, <2>2 DEF flush_fails
  <2>4. Abandoned(v, kept) \in Open /\ Abandoned(v, kept).failed
    BY <2>1 DEF Abandoned, Open
  <2>5. frozen' = frozen /\ edits' = edits /\ handed' = Nothing
    BY <1>7 DEF flush_fails
  <2> QED
    BY <1>1, <2>3, <2>4, <2>5, OneTransaction
<1>8. ASSUME NEW t \in Transactions, NEW s \in Frozen, freeze(t, s)
      PROVE  TransactionIInv'
  <2> PICK v : v = txns[t]
    OBVIOUS
  <2> PICK f : f = [base |-> v.base, world |-> v.world, changed |-> v.changed,
                    nursery |-> v.nursery, truth |-> v.truth]
    OBVIOUS
  <2>1. v \in Open /\ StageSound(v)
    BY <1>2, <1>8 DEF freeze, OpenSound
  <2>2. f \in Snapshot /\ StageSound(f)
    BY <2>1 DEF Open, Snapshot, StageSound
  <2>3. frozen' = [frozen EXCEPT ![s] = f] /\ txns' = txns /\ edits' = edits /\ handed' = Nothing
    BY <1>8 DEF freeze
  <2>4. TransactionTypeOK'
    BY <1>1, <2>2, <2>3 DEF TransactionTypeOK
  <2>5. ASSUME NEW r \in Frozen, frozen'[r] # Nothing
        PROVE  StageSound(frozen[r])'
    <3>1. CASE r = s
      BY <1>1, <2>2, <2>3, <3>1
    <3>2. CASE r # s
      <4>1. frozen'[r] = frozen[r]
        BY <1>1, <2>3, <3>2
      <4> QED
        BY <1>1, <2>5, <4>1
    <3> QED
      BY <3>1, <3>2
  <2>6. ASSUME NEW u \in Transactions, IsOpen(u)'
        PROVE  OpenSound(txns[u])'
    BY <1>1, <2>3, <2>6 DEF IsOpen
  <2> QED
    BY <2>3, <2>4, <2>5, <2>6 DEF TransactionIInv
<1>9. ASSUME NEW t \in Transactions, NEW s \in Frozen, branch(s, t)
      PROVE  TransactionIInv'
  <2> PICK f : f = frozen[s]
    OBVIOUS
  <2> PICK v : v = [base |-> f.base, world |-> f.world, changed |-> f.changed, nursery |-> f.nursery,
                    truth |-> f.truth, core |-> Nothing, failed |-> FALSE]
    OBVIOUS
  <2>1. f \in Snapshot /\ StageSound(f)
    BY <1>1, <1>9 DEF branch
  <2>2. v \in Open /\ OpenSound(v)
    BY <2>1 DEF Open, Snapshot, StageSound, OpenSound
  <2>3. txns' = [txns EXCEPT ![t] = v] /\ frozen' = frozen /\ edits' = edits /\ handed' = Nothing
    BY <1>9 DEF branch
  <2> QED
    BY <1>1, <2>2, <2>3, OneTransaction
<1>10. ASSUME NEW t \in Transactions, commit_async(t)
       PROVE  TransactionIInv'
  <2> PICK v : v = AfterFlush(txns[t])
    OBVIOUS
  <2> PICK h : h = [base |-> v.base, core |-> Candidate(v), truth |-> v.truth]
    OBVIOUS
  <2>1. v \in Open /\ OpenSound(v) /\ v.world = v.truth
    BY <1>2, <1>10, SoundAfterFlush DEF commit_async
  <2>2. v.base \in Contents /\ v.truth \in Contents /\ v.truth # Nothing
    BY <2>1, TransactionAssumption DEF Open, TransactionAssumption
  <2>3. Candidate(v) \in {Nothing, v.truth} /\ (v.changed => Candidate(v) = v.truth)
    BY <2>1, <2>2 DEF Candidate, CoreOf, OpenSound
  <2>4. ~v.changed => v.base = v.truth
    BY <2>1 DEF OpenSound, StageSound
  <2>5. h \in Submitted /\ Installed(h) = h.truth
    BY <2>2, <2>3, <2>4 DEF Submitted, Installed, Open
  <2>6. txns' = [txns EXCEPT ![t] = Nothing] /\ frozen' = frozen /\ edits' = edits /\ handed' = h
    BY <1>10 DEF commit_async
  <2> QED
    BY <1>1, <2>5, <2>6, OneTransaction
<1>11. ASSUME NEW t \in Transactions, commit_fails(t)
       PROVE  TransactionIInv'
  <2> PICK v : v = AfterFlush(txns[t])
    OBVIOUS
  <2> PICK w : w = [v EXCEPT !.core = Nothing]
    OBVIOUS
  <2>1. v \in Open /\ OpenSound(v)
    BY <1>2, <1>11, SoundAfterFlush DEF commit_fails
  <2>2. w \in Open /\ OpenSound(w)
    BY <2>1 DEF Open, OpenSound, StageSound
  <2>3. txns' = [txns EXCEPT ![t] = w] /\ frozen' = frozen /\ edits' = edits /\ handed' = Nothing
    BY <1>11 DEF commit_fails
  <2> QED
    BY <1>1, <2>2, <2>3, OneTransaction
<1>12. ASSUME NEW t \in Transactions, abort(t)
       PROVE  TransactionIInv'
  BY <1>1, <1>12, OneTransaction DEF abort
<1>13. CASE UNCHANGED transactionVars
  BY <1>13 DEF transactionVars, TransactionIInv, TransactionTypeOK, IsOpen
<1> QED
  BY <1>3, <1>4, <1>5, <1>6, <1>7, <1>8, <1>9, <1>10, <1>11, <1>12, <1>13 DEF TransactionNext

(* Whatever is changed, flushed, failed, frozen, branched and committed, a
   transaction reads and decides on its base with every edit once, its core
   never refuses what the nursery holds, and what it hands over is what it
   read: for any sorts of keys, states, arrows and bases.                  *)
THEOREM TransactionsKeepTheirWorldHolds == TransactionSpec => []TransactionsKeepTheirWorld
<1>1. TransactionIInv => TransactionsKeepTheirWorld
  <2> SUFFICES ASSUME TransactionIInv
               PROVE  TransactionsKeepTheirWorld
    OBVIOUS
  <2>1. ASSUME NEW t \in Transactions, IsOpen(t)
        PROVE  /\ ReadsItsWorld(txns[t]) /\ ~Refuses(txns[t])
               /\ \A k \in TxnKeys : Before(txns[t], k) = txns[t].truth[k]
    <3>1. OpenSound(txns[t]) /\ StageSound(txns[t])
      BY <2>1 DEF TransactionIInv, OpenSound
    <3> QED
      BY <3>1, SoundReads, SoundFlush DEF ReadsItsWorld
  <2>2. ASSUME NEW s \in Frozen, frozen[s] # Nothing
        PROVE  ReadsItsWorld(frozen[s])
    BY <2>2, SoundReads DEF TransactionIInv, ReadsItsWorld
  <2> QED
    BY <2>1, <2>2 DEF TransactionIInv, TransactionsKeepTheirWorld
<1> QED
  BY <1>1, TransactionInitHolds, TransactionStepHolds, PTL DEF TransactionSpec
=============================================================================
