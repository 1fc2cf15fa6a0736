------------------------------- MODULE Delegate -------------------------------
(***************************************************************************)
(* edt::Delegate (delegate.hpp): an object pointer and a thunk that knows  *)
(* the object's type.  The callable run by Invoke may bind, copy, reset or *)
(* invoke any delegate, the one it was called through included.            *)
(***************************************************************************)
EXTENDS Naturals, Sequences

CONSTANTS
  Delegates,
  Functions,      \* free functions
  Methods,        \* pointers to methods, and the call operators of functor types
  Objects,
  ClassOf,        \* the class of each method and of each object
  nullptr,
  MaxDepth        \* bound on the depth of nested calls

DelegateAssumption ==
  /\ nullptr \notin Functions \cup Methods \cup Objects
  /\ Functions \cap Methods = {}
  /\ (Methods \cup Objects) \subseteq DOMAIN ClassOf
  /\ MaxDepth \in Nat

VARIABLES
  instance_,
  function_,
  alive,          \* the objects that exist
  calls,          \* the calls in progress, innermost last: thunk and object
  request         \* the latest call of the client, with its arguments

vars == <<instance_, function_, alive, calls, request>>

Pair(fn, object) == [function |-> fn, instance |-> object]

BoundTo(object) == {d \in Delegates : function_[d] # nullptr /\ instance_[d] = object}

\* Bind<fn>()
BindFunction(d, fn) ==
  /\ request' = <<"bind", d, Pair(fn, nullptr)>>
  /\ instance_' = [instance_ EXCEPT ![d] = nullptr]
  /\ function_' = [function_ EXCEPT ![d] = fn]
  /\ UNCHANGED <<alive, calls>>

\* Mutant: only the object is set: the thunk of the former target stays.
BindMethod_KeepsThunk(d, object, method) ==
  /\ object \in alive /\ ClassOf[object] = ClassOf[method]
  /\ request' = <<"bind", d, Pair(method, object)>>
  /\ instance_' = [instance_ EXCEPT ![d] = object]
  /\ function_' = IF function_[d] \in Methods THEN function_ ELSE [function_ EXCEPT ![d] = method]
  /\ UNCHANGED <<alive, calls>>

\* Bind<T, method>(T*) and, with T's call operator for the method, Bind(T&). The
\* compiler checks that the method is one of the object's class.
BindMethod(d, object, method) ==
  /\ object \in alive /\ ClassOf[object] = ClassOf[method]
  /\ request' = <<"bind", d, Pair(method, object)>>
  /\ instance_' = [instance_ EXCEPT ![d] = object]
  /\ function_' = [function_ EXCEPT ![d] = method]
  /\ UNCHANGED <<alive, calls>>

\* Mutant: a delegate without an object is taken for one that is not bound.
Reset_KeepsFunction(d) ==
  /\ request' = <<"reset", d>>
  /\ instance_' = [instance_ EXCEPT ![d] = nullptr]
  /\ function_' = IF instance_[d] = nullptr THEN function_ ELSE [function_ EXCEPT ![d] = nullptr]
  /\ UNCHANGED <<alive, calls>>

Reset(d) ==
  /\ request' = <<"reset", d>>
  /\ instance_' = [instance_ EXCEPT ![d] = nullptr]
  /\ function_' = [function_ EXCEPT ![d] = nullptr]
  /\ UNCHANGED <<alive, calls>>

\* The implicit copy operations.
Copy(d, from) ==
  /\ request' = <<"copy", d, from>>
  /\ instance_' = [instance_ EXCEPT ![d] = instance_[from]]
  /\ function_' = [function_ EXCEPT ![d] = function_[from]]
  /\ UNCHANGED <<alive, calls>>

IsBound(d) == function_[d] # nullptr

\* Both members are read before the callable is entered. An unbound delegate
\* fails the assertion; callers ask IsBound first.
Invoke(d) ==
  /\ IsBound(d) /\ Len(calls) < MaxDepth
  /\ request' = <<"invoke", d>>
  /\ calls' = Append(calls, Pair(function_[d], instance_[d]))
  /\ UNCHANGED <<instance_, function_, alive>>

Return ==
  /\ calls # <<>>
  /\ request' = <<"return">>
  /\ calls' = SubSeq(calls, 1, Len(calls) - 1)
  /\ UNCHANGED <<instance_, function_, alive>>

\* The delegate does not own the object. Its owner destroys it outside of its
\* methods, once every delegate bound to it, copies included, is reset or rebound.
Destroy(object) ==
  /\ object \in alive /\ BoundTo(object) = {}
  /\ \A n \in DOMAIN calls : calls[n].instance # object
  /\ alive' = alive \ {object}
  /\ UNCHANGED <<instance_, function_, calls, request>>

Init ==
  /\ instance_ = [d \in Delegates |-> nullptr]
  /\ function_ = [d \in Delegates |-> nullptr]
  /\ alive = Objects
  /\ calls = <<>>
  /\ request = <<"construct">>

Next ==
  \/ \E d \in Delegates, fn \in Functions : BindFunction(d, fn)
  \/ \E d \in Delegates, object \in Objects, method \in Methods : BindMethod(d, object, method)
  \/ \E d \in Delegates : Reset(d)
  \/ \E d, from \in Delegates : Copy(d, from)
  \/ \E d \in Delegates : Invoke(d)
  \/ Return
  \/ \E object \in Objects : Destroy(object)

Spec == Init /\ [][Next]_vars

-----------------------------------------------------------------------------
\* A thunk casts the void* it gets to the class it was made for: the two members
\* must come from one Bind, or the cast is to a class the object is not of.
WellTyped(pair) ==
  pair.function \in Methods =>
    pair.instance \in alive /\ ClassOf[pair.instance] = ClassOf[pair.function]

\* No delegate and no call in progress joins a thunk to an object of another class,
\* to none or, as long as owners reset their delegates, to one destroyed.
ThunkMatchesInstance ==
  /\ \A d \in Delegates : WellTyped(Pair(function_[d], instance_[d]))
  /\ \A n \in DOMAIN calls : WellTyped(calls[n])

\* As a target: the free function, or the method with its object.
Unbound == Pair(nullptr, nullptr)

Targets == {Pair(fn, nullptr) : fn \in Functions} \cup
           {Pair(m, o) : m \in Methods, o \in Objects}

Promise == INSTANCE BoundTarget WITH
  target <- [d \in Delegates |-> Pair(function_[d], instance_[d])],
  running <- calls

\* Each request does to its delegate, and to no other, what it says: rebinding
\* replaces the target, a copy takes that of the delegate it is asked to copy, a
\* reset delegate has none, whatever it was bound to; and Invoke runs the target at
\* the time, which no request made during the call changes.
HoldsOneTarget == Promise!Spec
=============================================================================
