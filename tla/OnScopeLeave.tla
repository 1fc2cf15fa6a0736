---------------------------- MODULE OnScopeLeave ----------------------------
(***************************************************************************)
(* edt::OnScopeLeave (functional/on_scope_leave.hpp): guards that run a    *)
(* callback when they are destroyed.  The guards of the open scopes form a *)
(* stack, from which leaving a scope - by its end, by return or by an      *)
(* exception - destroys the last ones first.                               *)
(***************************************************************************)
EXTENDS Naturals, SequencesExt

CONSTANTS
  Callbacks,     \* one for each call of OnScopeLeave
  MaxGuards,     \* bound: guards that exist at a time
  MoveAgain      \* may a guard that was moved from be moved from again?

GuardAssumption == MaxGuards \in Nat /\ MoveAgain \in BOOLEAN

VARIABLES
  guards,     \* the stack: what on_leave_ is, and empty_, of each guard
  ran         \* the callbacks that ran, in order

vars == <<guards, ran>>

Guard(callback) == [on_leave_ |-> callback, empty_ |-> FALSE]

Holders(callback) == {i \in DOMAIN guards : guards[i] = Guard(callback)}

\* The guard is built inside the function and returned, elided or moved: a move
\* leaves an empty one behind, which is destroyed at once and runs nothing.
Create(callback) ==
  /\ Len(guards) < MaxGuards
  /\ \A i \in DOMAIN guards : guards[i].on_leave_ # callback
  /\ ~Contains(ran, callback)
  /\ guards' = Append(guards, Guard(callback))
  /\ UNCHANGED ran

\* Mutant: the source of a move stays armed.
MoveConstruct_KeepsSource(i) ==
  /\ Len(guards) < MaxGuards
  /\ MoveAgain \/ ~guards[i].empty_
  /\ guards' = Append(guards, Guard(guards[i].on_leave_))
  /\ UNCHANGED ran

\* The new guard is armed whatever the source was.
MoveConstruct(i) ==
  /\ Len(guards) < MaxGuards
  /\ MoveAgain \/ ~guards[i].empty_
  /\ guards' = Append([guards EXCEPT ![i].empty_ = TRUE], Guard(guards[i].on_leave_))
  /\ UNCHANGED ran

\* Mutant: the first guard of the scope is destroyed first.
Destruct_First ==
  /\ guards # <<>>
  /\ guards' = Tail(guards)
  /\ ran' = IF Head(guards).empty_ THEN ran ELSE Append(ran, Head(guards).on_leave_)

Destruct ==
  /\ guards # <<>>
  /\ guards' = Front(guards)
  /\ ran' = IF Last(guards).empty_ THEN ran ELSE Append(ran, Last(guards).on_leave_)

Init == guards = <<>> /\ ran = <<>>

Next ==
  \/ \E c \in Callbacks : Create(c)
  \/ \E i \in DOMAIN guards : MoveConstruct(i)
  \/ Destruct

Spec == Init /\ [][Next]_vars

-----------------------------------------------------------------------------
Started == {c \in Callbacks : Contains(ran, c) \/ \E i \in DOMAIN guards : guards[i].on_leave_ = c}

\* However its guard is moved around, a callback runs exactly once: it is either
\* held by one armed guard and has not run, or has run once and nobody holds it.
RunsExactlyOnce ==
  \A c \in Started :
    Cardinality(Holders(c)) + Cardinality({i \in DOMAIN ran : ran[i] = c}) = 1

\* A moved-from guard does not run: what a guard runs is never run by another.
MovedFromGuardDoesNotRun ==
  \A i, j \in DOMAIN ran : ran[i] = ran[j] => i = j

\* Guards run in the reverse order of their creation: a callback never runs while
\* a guard created after its own is still armed.
RunsLastFirst ==
  \A i, j \in DOMAIN guards :
    /\ i < j
    /\ ~guards[i].empty_ /\ ~guards[j].empty_
    /\ Contains(ran', guards[i].on_leave_)
    => Contains(ran, guards[i].on_leave_)

\* However guards are moved around, each callback runs once, and the last first.
GuardsUndoOnce == [][RunsExactlyOnce' /\ RunsLastFirst]_vars
=============================================================================
