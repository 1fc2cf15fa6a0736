------------------------------- MODULE IntTypes -------------------------------
(***************************************************************************)
(* Integer types of C++ as the bounds of their values: numeric_limits,     *)
(* conversion between them and the comparisons of <utility>.               *)
(***************************************************************************)
EXTENDS Integers

Type == [signed : BOOLEAN, bits : Nat]

lowest(t) == IF t.signed THEN -(2 ^ (t.bits - 1)) ELSE 0
max(t) == IF t.signed THEN 2 ^ (t.bits - 1) - 1 ELSE 2 ^ t.bits - 1

ValuesOf(t) == lowest(t) .. max(t)

\* static_cast between integers keeps the low bits.
Converted(t, value) == ((value - lowest(t)) % 2 ^ t.bits) + lowest(t)
=============================================================================
