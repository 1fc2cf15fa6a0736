------------------------------ MODULE Callables ------------------------------
(***************************************************************************)
(* The components built around a callable: edt::OnScopeLeave, which runs   *)
(* one on destruction, edt::Delegate, which holds one, and                 *)
(* edt::CallAndRethrow, which runs one; and what is asked of the types of  *)
(* callables, edt::Signature and edt::WorstReference; and the helpers that *)
(* call one for their caller.  They share no state, so their interleavings *)
(* are of no interest: a behaviour is of one component, and the others     *)
(* rest.                                                                   *)
(***************************************************************************)
EXTENDS Naturals

CONSTANTS
  Callbacks, MaxGuards,                                           \* OnScopeLeave
  Delegates, Functions, Methods, Objects, ClassOf, nullptr,       \* Delegate
  MaxInvocations,
  Messages, unknown, MaxCalls,                                    \* CallAndRethrow
  Classes, void,                                                  \* Signature
  Decayed, MaxPack,                                               \* WorstReference
  Results, thrown, none, SizeT, MaxSize, MaxArgs, Period, MaxTicks  \* CallHelpers

VARIABLES
  component,
  guards, ran,
  instance_, function_, alive, calls, request,
  frames, flight, printing, nesting_depth, output, context,
  pointer, signature,
  pack,
  helper, pending, made, clock, t0, returned

Scopes == INSTANCE OnScopeLeave WITH MoveAgain <- FALSE
Delegation == INSTANCE Delegate WITH MaxDepth <- MaxInvocations
Exceptions == INSTANCE NestedExceptions WITH MaxDepth <- MaxCalls
Signatures == INSTANCE Signature
References == INSTANCE WorstReference
Helpers == INSTANCE CallHelpers

ASSUME CallablesAssumption ==
  /\ Scopes!GuardAssumption
  /\ Delegation!DelegateAssumption
  /\ Exceptions!ExceptionsAssumption
  /\ References!WorstAssumption
  /\ Helpers!HelpersAssumption

scopes == <<guards, ran>>
delegation == <<instance_, function_, alive, calls, request>>
exceptions == <<frames, flight, printing, nesting_depth, output, context>>
types == <<pointer, signature, pack>>
helpers == <<helper, pending, made, clock, t0, returned>>
vars == <<component, scopes, delegation, exceptions, types, helpers>>

Init ==
  /\ component \in {"OnScopeLeave", "Delegate", "CallAndRethrow", "Signature", "WorstReference",
                    "CallHelpers"}
  /\ Scopes!Init /\ Delegation!Init /\ Exceptions!Init
  /\ IF component = "Signature" THEN Signatures!Init
     ELSE pointer = (CHOOSE p \in Signatures!Pointers : TRUE) /\ signature = {}
  /\ IF component = "WorstReference" THEN References!Init
     ELSE pack = <<CHOOSE type \in References!Types : TRUE>>
  /\ Helpers!Init /\ (component # "CallHelpers" => clock = 0)

Next ==
  /\ UNCHANGED component
  /\ \/ /\ component = "OnScopeLeave" /\ Scopes!Next
        /\ UNCHANGED <<delegation, exceptions, types, helpers>>
     \/ /\ component = "Delegate" /\ Delegation!Next
        /\ UNCHANGED <<scopes, exceptions, types, helpers>>
     \/ /\ component = "CallAndRethrow" /\ Exceptions!Next
        /\ UNCHANGED <<scopes, delegation, types, helpers>>
     \/ /\ UNCHANGED <<scopes, delegation, exceptions, helpers>>
        /\ \/ component = "Signature" /\ Signatures!Next /\ UNCHANGED pack
           \/ component = "WorstReference" /\ References!Next /\ UNCHANGED <<pointer, signature>>
     \/ /\ component = "CallHelpers" /\ Helpers!Next
        /\ UNCHANGED <<scopes, delegation, exceptions, types>>

Spec == Init /\ [][Next]_vars

-----------------------------------------------------------------------------
\* However its guard is moved around, the callback of an OnScopeLeave runs exactly
\* once: one armed guard holds it, or it has run once and nobody does.  And guards
\* undo in the reverse order of their creation, moves in between included.
GuardsUndoOnce == Scopes!GuardsUndoOnce

\* A thunk never gets an object of another class than the one it casts to, nor,
\* as long as owners reset their delegates, one that was destroyed.
ThunkMatchesInstance == Delegation!ThunkMatchesInstance

\* Whatever was called before, from inside a call too: Bind puts the target it names
\* into its delegate, a copy that of the delegate copied, Reset none; Invoke runs the
\* target its delegate holds, and a call in progress keeps the one it began with.
\* Delegate implements BoundTarget, which carries the requests.
HoldsOneTarget == Delegation!HoldsOneTarget

\* PrintException prints every level CallAndRethrow put around what was thrown,
\* outermost first and each once, and last the cause.
PrintsEveryLevel == Exceptions!PrintsEveryLevel

\* One signature matches a pointer, and says its qualifiers and no others; and the
\* worst of a pack of types has every qualifier that any of them has, where none is
\* a reference, and of references is the first.
TypesReadBack == Signatures!TypesReadBack /\ []References!WorstOfThePack

\* The call helpers make the calls they were asked for, in order and each once, up
\* to one that throws; return what the last returned; and the time measured is the
\* call's.
CallsAsAsked == Helpers!CallsAsAsked
=============================================================================
