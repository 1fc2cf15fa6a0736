---------------------------- MODULE DynamicBitset ----------------------------
(***************************************************************************)
(* edt::DynamicBitset (bitset/dynamic_bitset.hpp): a vector of words and a *)
(* size in bits, which need not be a multiple of a word's.  kBitsCount is  *)
(* kPartSizeBits, 64 in the code.                                          *)
(***************************************************************************)
EXTENDS BitWords

CONSTANTS
  MaxSize,      \* bound: the greatest size asked for
  MayFail       \* may the vector's allocation throw?

SizeAssumption == MaxSize \in Nat /\ MayFail \in BOOLEAN

VARIABLES
  parts_,     \* the words: a function from 0 .. parts_.size() - 1
  size_,
  request     \* the latest call, with its arguments

vars == <<parts_, size_, request>>

NoParts == [p \in {} |-> kEmptyMask]

PartsFor(size) ==
  size \div kBitsCount + (IF size % kBitsCount # 0 THEN 1 ELSE 0)

\* vector::resize: words are dropped, or appended as zeros.
Resized(parts, count) ==
  [p \in 0 .. count - 1 |-> IF p \in DOMAIN parts THEN parts[p] ELSE kEmptyMask]

-----------------------------------------------------------------------------
\* Mutant: only new words are given the new value.
Resize_NewWordsOnly(size, value) ==
  /\ request' = <<"resize", size, value>>
  /\ size_' = size
  /\ parts_' = [p \in 0 .. PartsFor(size) - 1 |->
                  IF p \in DOMAIN parts_ THEN parts_[p] ELSE IntIf(value, kFullMask, kEmptyMask)]

Resize(size, value) ==
  /\ request' = <<"resize", size, value>>
  /\ size_' = size
  /\ LET parts == Resized(parts_, PartsFor(size)) IN
       parts_' = IF size > size_ THEN SetRange(parts, size_, size, value) ELSE parts

\* The vector has to grow and cannot: it throws before anything changed.
ResizeFails(size, value) ==
  /\ MayFail
  /\ 0 .. PartsFor(size) - 1 # DOMAIN parts_ /\ size > size_
  /\ request' = <<"resize fails", size, value>>
  /\ UNCHANGED <<parts_, size_>>

Clear ==
  /\ request' = <<"clear">>
  /\ parts_' = NoParts
  /\ size_' = 0

SetBit(index, value) ==
  /\ index < size_
  /\ request' = <<"set", index, value>>
  /\ parts_' = Set(parts_, index, value)
  /\ UNCHANGED size_

SetBits(begin, end, value) ==
  /\ begin <= end /\ begin < size_ /\ end <= size_
  /\ request' = <<"set range", begin, end, value>>
  /\ parts_' = SetRange(parts_, begin, end, value)
  /\ UNCHANGED size_

Init == parts_ = NoParts /\ size_ = 0 /\ request = <<"construct">>

Next ==
  \E value \in BOOLEAN :
    \/ \E size \in 0 .. MaxSize : Resize(size, value) \/ ResizeFails(size, value)
    \/ Clear
    \/ \E index \in 0 .. size_ - 1 : SetBit(index, value)
    \/ \E begin, end \in 0 .. size_ : SetBits(begin, end, value)

Spec == Init /\ [][Next]_vars

-----------------------------------------------------------------------------
\* The words are as many as the size needs, so that every index and every range
\* a caller may pass finds its word.
TypeOK ==
  /\ size_ \in 0 .. MaxSize
  /\ parts_ \in [0 .. PartsFor(size_) - 1 -> Words]

\* Seen through Get, the bitset is the vector of bits that was asked for, though
\* a shrunk bitset keeps stale bits behind its end that growing uncovers again.
Vector == INSTANCE BitVector WITH bits <- [i \in 0 .. size_ - 1 |-> Get(parts_, i)]

ImplementsBitVector == Vector!Spec
=============================================================================
