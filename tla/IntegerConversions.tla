-------------------------- MODULE IntegerConversions --------------------------
(***************************************************************************)
(* edt::CheckedCast (exception/checked_cast.hpp) with ThrowIfFailed, and   *)
(* edt::ClampToAnotherTypeBounds (algorithm/clamp.hpp): one call each on a *)
(* value of one integer type and another type.                             *)
(***************************************************************************)
EXTENDS IntTypes

CONSTANT Widths     \* of the integer types

\* What the bounds of a type ask of powers, which proofs know nothing of.
WidthsAssumption ==
  /\ Widths \subseteq Nat \ {0, 1}
  /\ \A bits \in Widths : 2 ^ (bits - 1) \in Nat \ {0} /\ 2 ^ bits = 2 * 2 ^ (bits - 1)

VARIABLES
  from, to,     \* the two types
  value,        \* of type from
  call,         \* what is called: "CheckedCast", "Clamp", or "none" before
  outcome,      \* "returns", "throws", or "none" before
  result        \* what was returned

vars == <<from, to, value, call, outcome, result>>

Types == [signed : BOOLEAN, bits : Widths]

\* ThrowIfFailed(condition, message): control reaches what follows it, or not.
ThrowIfFailed(condition, Then) == IF condition THEN Then ELSE [outcome |-> "throws", result |-> 0]

in_range(t, v) == v \in ValuesOf(t)

CheckedCasted(t, v) == ThrowIfFailed(in_range(t, v), [outcome |-> "returns", result |-> Converted(t, v)])

\* Mutant: the bounds are compared after conversion to the type of the value.
Clamped_Converted(f, b, v) ==
  LET l == Converted(f, lowest(b)) h == Converted(f, max(b))
      raised == IF lowest(f) < l /\ v < l THEN l ELSE v
  IN IF max(f) > h /\ raised > h THEN h ELSE raised

\* std::max and std::min with a bound that exists in the value's own type: each
\* is compiled in only where the other type's bound is the tighter one.
Clamped(f, b, v) ==
  LET raised == IF lowest(f) < lowest(b) /\ v < Converted(f, lowest(b)) THEN Converted(f, lowest(b)) ELSE v
  IN IF max(f) > max(b) /\ raised > Converted(f, max(b)) THEN Converted(f, max(b)) ELSE raised

Init ==
  /\ from \in Types /\ to \in Types /\ value \in ValuesOf(from)
  /\ call = "none" /\ outcome = "none" /\ result = 0

CheckedCast ==
  /\ call = "none" /\ call' = "CheckedCast"
  /\ outcome' = CheckedCasted(to, value).outcome
  /\ result' = CheckedCasted(to, value).result
  /\ UNCHANGED <<from, to, value>>

ClampToAnotherTypeBounds ==
  /\ call = "none" /\ call' = "Clamp"
  /\ outcome' = "returns"
  /\ result' = Clamped(from, to, value)
  /\ UNCHANGED <<from, to, value>>

Next == CheckedCast \/ ClampToAnotherTypeBounds

Spec == Init /\ [][Next]_vars

-----------------------------------------------------------------------------
\* A checked cast returns the value it was given, and throws exactly when the
\* other type does not have it: never a value wrapped around.
KeepsTheValue ==
  call = "CheckedCast" =>
    IF \E v \in ValuesOf(to) : v = value THEN outcome = "returns" /\ result = value ELSE outcome = "throws"

\* The value of both types that is nearest to the one given, for every pair of
\* widths and signs.
NearestInBounds ==
  call = "Clamp" =>
    /\ result \in ValuesOf(from) \cap ValuesOf(to)
    /\ \A v \in ValuesOf(to) :
         LET Distance(a, b) == IF a < b THEN b - a ELSE a - b
         IN Distance(result, value) <= Distance(v, value)
=============================================================================
