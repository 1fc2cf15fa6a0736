------------------------------ MODULE BitVector ------------------------------
(***************************************************************************)
(* What a bitset of varying size promises: a sequence of Booleans numbered *)
(* from 0, whose length and elements change by request only.               *)
(***************************************************************************)
EXTENDS Integers

CONSTANTS
  MaxSize,
  MayFail       \* may memory run out?

VARIABLES
  bits,       \* the function from 0 .. Size() - 1 to BOOLEAN
  request     \* the latest call, with its arguments

vars == <<bits, request>>

Length(b) == IF DOMAIN b = {} THEN 0 ELSE 1 + (CHOOSE i \in DOMAIN b : i + 1 \notin DOMAIN b)

Init == bits = [i \in {} |-> FALSE] /\ request = <<"construct">>

\* What remained is as it was and what is new has the new value.
Resize(size, value) ==
  /\ request' = <<"resize", size, value>>
  /\ bits' = [i \in 0 .. size - 1 |-> IF i \in DOMAIN bits THEN bits[i] ELSE value]

ResizeFails(size, value) ==
  /\ MayFail
  /\ size > Length(bits)
  /\ request' = <<"resize fails", size, value>>
  /\ UNCHANGED bits

Clear ==
  /\ request' = <<"clear">>
  /\ bits' = [i \in {} |-> FALSE]

Set(index, value) ==
  /\ request' = <<"set", index, value>>
  /\ bits' = [bits EXCEPT ![index] = value]

SetRange(begin, end, value) ==
  /\ request' = <<"set range", begin, end, value>>
  /\ bits' = [i \in DOMAIN bits |-> IF begin <= i /\ i < end THEN value ELSE bits[i]]

Next ==
  \E value \in BOOLEAN :
    \/ \E size \in 0 .. MaxSize : Resize(size, value) \/ ResizeFails(size, value)
    \/ Clear
    \/ \E index \in DOMAIN bits : Set(index, value)
    \/ \E begin \in DOMAIN bits : \E end \in begin .. Length(bits) : SetRange(begin, end, value)

Spec == Init /\ [][Next]_vars
=============================================================================
