-------------------------- MODULE RuntimeRegistry ---------------------------
(***************************************************************************)
(* runtime_registry: the closure of native and pair owners that the roots  *)
(* of one session reach, each counted once per root and once per live      *)
(* owner that refers to it.  pairs_ and natives_ are one table here: a     *)
(* native is an owner without children.  The recursion of acquire_pair is  *)
(* a stack of calls, that of release_pair the list of references it still  *)
(* has to let go.                                                          *)
(***************************************************************************)
EXTENDS Naturals, Sequences, SequencesExt, FiniteSets, Functions

CONSTANTS
  RegistryOwners, \* the owners a caller may register
  IdOf,           \* an owner's object identity
  ChildrenOf,     \* its native, main and secondary target, as it has them, in this order
  RootLists,      \* the closures a caller may ask for
  Nobody          \* no owner: the caller of replace

NoRoots == [pairs |-> <<>>, natives |-> <<>>]

\* Owners refer only to what was made before them, so that each set of them has a first to go.
RegistryAssumption ==
  /\ IsFiniteSet(RegistryOwners) /\ Nobody \notin RegistryOwners
  /\ DOMAIN IdOf = RegistryOwners /\ ChildrenOf \in [RegistryOwners -> Seq(RegistryOwners)]
  /\ RootLists \subseteq [pairs : Seq(RegistryOwners), natives : Seq(RegistryOwners)]
  /\ \A S \in SUBSET RegistryOwners :
       S # {} => \E o \in S : \A p \in S : o \notin ToSet(ChildrenOf[p])
ASSUME RegistryAssumption

VARIABLES
  entries,     \* identities in use: the owner and its references
  registered,  \* the roots registered
  asked,       \* the roots replace was last called with
  calls,       \* replace and the acquisitions in progress: what each has acquired, and has not yet
  releases,    \* references still to be released
  outcome      \* of replace, so far

registryVars == <<entries, registered, asked, calls, releases, outcome>>

RegistryInit ==
  /\ entries = << >> /\ registered = NoRoots /\ asked = NoRoots
  /\ calls = <<>> /\ releases = <<>> /\ outcome = "acquired"

Call(o, children) == [owner |-> o, todo |-> children, done |-> <<>>]
Took(call) ==
  [owner |-> call.owner, todo |-> Tail(call.todo), done |-> Append(call.done, Head(call.todo))]
Returned == calls = <<>> /\ releases = <<>>
Acquiring == calls # <<>> /\ releases = <<>> /\ outcome = "acquired"
Caller == Last(calls)

Found(o) == IdOf[o] \in DOMAIN entries
Entered(o) ==
  [i \in DOMAIN entries \cup {IdOf[o]} |-> IF i = IdOf[o] THEN [value |-> o, references |-> 1] ELSE entries[i]]
Erased(id) == [i \in DOMAIN entries \ {id} |-> entries[i]]

replace(list) ==
  /\ Returned
  /\ calls' = <<Call(Nobody, list.pairs \o list.natives)>> /\ asked' = list /\ outcome' = "acquired"
  /\ UNCHANGED <<entries, registered, releases>>

\* acquire_native, acquire_pair of what is there, under this identity or in its place.
acquire_again ==
  /\ Acquiring /\ Caller.todo # <<>>
  /\ LET o == Head(Caller.todo) IN
     /\ Found(o) /\ entries[IdOf[o]].value = o
     /\ entries' = [entries EXCEPT ![IdOf[o]].references = @ + 1]
  /\ calls' = [calls EXCEPT ![Len(calls)] = Took(@)]
  /\ UNCHANGED <<registered, asked, releases, outcome>>

refuse_other ==
  /\ Acquiring /\ Caller.todo # <<>>
  /\ LET o == Head(Caller.todo) IN Found(o) /\ entries[IdOf[o]].value # o
  /\ outcome' = "refused"
  /\ UNCHANGED <<entries, registered, asked, calls, releases>>

\* An allocation fails, of the identity's text or of the entry.
throw ==
  /\ Acquiring /\ Caller.todo # <<>> /\ outcome' = "threw"
  /\ UNCHANGED <<entries, registered, asked, calls, releases>>

insert ==
  /\ Acquiring /\ Caller.todo # <<>>
  /\ LET o == Head(Caller.todo) IN
     /\ ~Found(o) /\ entries' = Entered(o)
     /\ calls' = Append(calls, Call(o, ChildrenOf[o]))
  /\ UNCHANGED <<registered, asked, releases, outcome>>

acquire_returns ==
  /\ Acquiring /\ Caller.todo = <<>> /\ Len(calls) > 1
  /\ calls' = [Front(calls) EXCEPT ![Len(calls) - 1] = Took(@)]
  /\ UNCHANGED <<entries, registered, asked, releases, outcome>>

\* All new roots are there: only now are the old ones let go.
replace_returns ==
  /\ Acquiring /\ Caller.todo = <<>> /\ Len(calls) = 1
  /\ registered' = asked /\ releases' = registered.natives \o registered.pairs /\ calls' = <<>>
  /\ UNCHANGED <<entries, asked, outcome>>

\* Mutant of RolledBack: the children already acquired keep their counts.
RolledBack_leaks(call) == <<>>

\* What a call has acquired is let go, the last first.
RolledBack(call) == Reverse(call.done)

\* rollback, of the innermost call: its own entry goes first.
rollback ==
  /\ calls # <<>> /\ releases = <<>> /\ outcome # "acquired"
  /\ entries' = IF Caller.owner = Nobody THEN entries ELSE Erased(IdOf[Caller.owner])
  /\ releases' = RolledBack(Caller) /\ calls' = Front(calls)
  /\ UNCHANGED <<registered, asked, outcome>>

\* release_native, release_pair: the last reference lets go of the children, last first.
release ==
  /\ releases # <<>>
  /\ LET id == IdOf[Head(releases)] IN
     IF entries[id].references > 1
     THEN entries' = [entries EXCEPT ![id].references = @ - 1] /\ releases' = Tail(releases)
     ELSE entries' = Erased(id) /\ releases' = Reverse(ChildrenOf[entries[id].value]) \o Tail(releases)
  /\ UNCHANGED <<registered, asked, calls, outcome>>

\* The tables are swapped away when all is released: there is nothing in them.
clear ==
  /\ Returned
  /\ registered' = NoRoots /\ releases' = registered.natives \o registered.pairs
  /\ UNCHANGED <<entries, asked, calls, outcome>>

RegistryNext ==
  \/ \E list \in RootLists : replace(list)
  \/ acquire_again \/ refuse_other \/ throw \/ insert \/ acquire_returns \/ replace_returns
  \/ rollback \/ release \/ clear

RegistrySpec == RegistryInit /\ [][RegistryNext]_registryVars

-----------------------------------------------------------------------------
\* What is reached from the roots: the least set that has them and all children.
HasChildren(S) == \A o \in S : ToSet(ChildrenOf[o]) \subseteq S
Reached ==
  {o \in RegistryOwners :
     \A S \in SUBSET RegistryOwners :
       HasChildren(S) /\ ToSet(registered.pairs \o registered.natives) \subseteq S => o \in S}
Times(s, o) == Cardinality({i \in DOMAIN s : s[i] = o})

(* Whatever closures were asked for, and wherever an acquisition failed, the
   table between calls holds exactly what the registered roots reach, each owner
   counted once per root and per live owner referring to it (acquire_pair's and
   replace's rollback, release_pair).  *)
CountsAreExact ==
  Returned =>
    /\ DOMAIN entries = {IdOf[o] : o \in Reached}
    /\ \A o \in Reached :
         entries[IdOf[o]] = [value |-> o,
           references |-> Times(registered.pairs \o registered.natives, o)
             + SumFunction([p \in Reached |-> Times(ChildrenOf[p], o)])]
=============================================================================
