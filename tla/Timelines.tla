----------------------------- MODULE Timelines -----------------------------
(***************************************************************************)
(* The named-session tables of the SQLite catalog (sqlite_catalog.h) as a  *)
(* value, and the four requests that add rows to them as functions of that *)
(* value.  Rows are only ever added.  A name's generations are a sequence: *)
(* generation g of a name is element g + 1.                                *)
(***************************************************************************)
EXTENDS Naturals, Sequences

CONSTANTS
  Names,          \* session names
  Saves,          \* names of saved snapshots
  Checkpoints,    \* head, checkpoint bytes and auxiliary roots of a generation
  MaxGeneration,  \* the last generation a name can reach (INT64_MAX)
  Nowhere         \* the source of a name that was not forked, an unused save

ASSUME TimelinesAssumption ==
  /\ MaxGeneration \in Nat
  /\ Nowhere \notin [name : Names, generation : Nat]

Position == [name : Names, generation : 0..MaxGeneration]
SessionHead == [name : Names, generation : 0..MaxGeneration, checkpoint : Checkpoints]

Tables == [timelines : [Names -> Seq(Checkpoints)],
           sources   : [Names -> Position \cup {Nowhere}],
           saves     : [Saves -> Position \cup {Nowhere}]]

Empty == [timelines |-> [n \in Names |-> <<>>],
          sources   |-> [n \in Names |-> Nowhere],
          saves     |-> [s \in Saves |-> Nowhere]]

Exists(db, n) == db.timelines[n] # <<>>

HeadAt(db, p) == [name       |-> p.name,
                  generation |-> p.generation,
                  checkpoint |-> db.timelines[p.name][p.generation + 1]]

\* The latest generation of a name that exists.
Latest(db, n) == HeadAt(db, [name |-> n, generation |-> Len(db.timelines[n]) - 1])

\* h is exactly the row the catalog holds for its name and generation.
IsRow(db, h) == /\ h.generation < Len(db.timelines[h.name])
                /\ db.timelines[h.name][h.generation + 1] = h.checkpoint

PositionOf(h) == [name |-> h.name, generation |-> h.generation]

(***************************************************************************)
(* Requests.                                                               *)
(***************************************************************************)
CreateRequests == [kind : {"create"},  name : Names, checkpoint : Checkpoints]
PublishRequests == [kind : {"publish"}, expected : SessionHead, checkpoint : Checkpoints]
ForkRequests == [kind : {"fork"},    name : Names, source : SessionHead]
SaveRequests == [kind : {"save"},    name : Saves, source : SessionHead]
Request == CreateRequests \cup PublishRequests \cup ForkRequests \cup SaveRequests

\* Mutant of Wins: the expected generation is looked up like a fork's source.
Wins_historical(db, r) == Exists(db, r.expected.name) /\ IsRow(db, r.expected)

\* publish_session adds a row only if its caller saw the latest one.
Wins(db, r) == Exists(db, r.expected.name) /\ Latest(db, r.expected.name) = r.expected

\* The request is rolled back and its caller gets an exception.
Refused(db, r) ==
  \/ r.kind = "create"  /\ Exists(db, r.name)
  \/ r.kind = "publish" /\ \/ ~Exists(db, r.expected.name)
                           \/ Wins(db, r) /\ r.expected.generation = MaxGeneration
  \/ r.kind = "fork"    /\ (Exists(db, r.name) \/ ~IsRow(db, r.source))
  \/ r.kind = "save"    /\ (db.saves[r.name] # Nowhere \/ ~IsRow(db, r.source))

\* add_session_generation.
AddRow(db, n, c) == [db EXCEPT !.timelines[n] = Append(@, c)]

After(db, r) ==
  CASE r.kind = "create"  -> AddRow(db, r.name, r.checkpoint)
    [] r.kind = "publish" -> IF Wins(db, r) THEN AddRow(db, r.expected.name, r.checkpoint) ELSE db
    [] r.kind = "fork"    -> [AddRow(db, r.name, r.source.checkpoint)
                                EXCEPT !.sources[r.name] = PositionOf(r.source)]
    [] r.kind = "save"    -> [db EXCEPT !.saves[r.name] = PositionOf(r.source)]

Outcome == [added : BOOLEAN, head : SessionHead]

\* What the operation's row records and its caller is told: whether a row was
\* added and which row is now the request's own, or the one that beat it.
OutcomeOf(db, r) ==
  CASE r.kind = "create"  -> [added |-> TRUE, head |-> Latest(After(db, r), r.name)]
    [] r.kind = "publish" -> [added |-> Wins(db, r), head |-> Latest(After(db, r), r.expected.name)]
    [] r.kind = "fork"    -> [added |-> TRUE, head |-> Latest(After(db, r), r.name)]
    [] r.kind = "save"    -> [added |-> FALSE, head |-> r.source]
=============================================================================
