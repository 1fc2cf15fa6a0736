------------------------------ MODULE BitWords ------------------------------
(***************************************************************************)
(* The functions of bitset/bitset_adapter.hpp and branchless/: a word is   *)
(* the set of the positions of its one-bits, so & is intersection, ^ the   *)
(* symmetric difference and ~ the complement in kFullMask; parts is the    *)
(* array of words an adapter views, indexed from 0.                        *)
(***************************************************************************)
EXTENDS Integers

CONSTANT kBitsCount       \* bits per word

ASSUME WordAssumption == kBitsCount \in Nat \ {0}

kEmptyMask == {}
kFullMask == 0 .. kBitsCount - 1
Words == SUBSET kFullMask

Xor(a, b) == (a \ b) \cup (b \ a)

\* branchless/int_if.hpp: -condition is all ones or all zeros.
IntIf(condition, if_true, if_false) ==
  LET mask == IF condition THEN kFullMask ELSE kEmptyMask
  IN  Xor(if_false, Xor(if_true, if_false) \cap mask)

\* branchless/swap_if.hpp: the values of a and b afterwards.
SwapIf(condition, a, b) ==
  LET mask == Xor(a, b) \cap (IF condition THEN kFullMask ELSE kEmptyMask)
  IN  <<Xor(a, mask), Xor(b, mask)>>

-----------------------------------------------------------------------------
\* The shift amount is masked into range - kBitsCount is a power of two - and
\* IntIf discards the result when every bit should have gone.
InRange(count) == count % kBitsCount

LeftShifted(mask, count) ==
  LET shifted == {i + InRange(count) : i \in mask} \cap kFullMask
  IN  IntIf(count < kBitsCount, shifted, kEmptyMask)

RightShifted(mask, count) ==
  LET shifted == {i - InRange(count) : i \in mask} \cap kFullMask
  IN  IntIf(count < kBitsCount, shifted, kEmptyMask)

SetWordMasked(word, mask, value) ==
  (word \ mask) \cup (mask \cap IntIf(value, kFullMask, kEmptyMask))

SetWordRange(word, begin, end, value) ==
  SetWordMasked(word, LeftShifted(RightShifted(kFullMask, kBitsCount - (end - begin)), begin), value)

-----------------------------------------------------------------------------
(* Over all the words.                                                     *)

Part(index) == index \div kBitsCount
Bit(index) == index % kBitsCount

Get(parts, index) == parts[Part(index)] \cap LeftShifted({0}, Bit(index)) # kEmptyMask

Set(parts, index, value) ==
  [parts EXCEPT ![Part(index)] = SetWordRange(@, Bit(index), Bit(index) + 1, value)]

\* A range that ends on a word boundary has no trailing word; its part may be
\* the one past the last.
SpansWords(parts, begin, end, value) ==
  [p \in DOMAIN parts |->
     IF p = Part(begin) THEN SetWordRange(parts[p], Bit(begin), kBitsCount, value)
     ELSE IF Part(begin) < p /\ p < Part(end) THEN IntIf(value, kFullMask, kEmptyMask)
     ELSE IF p = Part(end) /\ Bit(end) # 0 THEN SetWordRange(parts[p], 0, Bit(end), value)
     ELSE parts[p]]

\* Mutant: the last word of the range is filled whole.
SetRange_FillsLastWord(parts, begin, end, value) ==
  IF begin >= end THEN parts
  ELSE IF Part(begin) = Part(end)
    THEN [parts EXCEPT ![Part(begin)] = SetWordRange(@, Bit(begin), Bit(end), value)]
    ELSE SpansWords(parts, begin, (Part(end) + 1) * kBitsCount, value)

SetRange(parts, begin, end, value) ==
  IF begin >= end THEN parts
  ELSE IF Part(begin) = Part(end)
    THEN [parts EXCEPT ![Part(begin)] = SetWordRange(@, Bit(begin), Bit(end), value)]
    ELSE SpansWords(parts, begin, end, value)

-----------------------------------------------------------------------------
(* What the words stand for: a flat set of bits.                           *)

BitsOf(parts, size) == {i \in 0 .. size - 1 : Get(parts, i)}

Assigned(bits, S, value) == IF value THEN bits \cup S ELSE bits \ S
=============================================================================
