----------------------------- MODULE FixedBitset -----------------------------
(***************************************************************************)
(* edt::FixedBitset (bitset/fixed_bitset.hpp): bits_count bits in an array *)
(* of the widest words that waste no byte.                                 *)
(***************************************************************************)
EXTENDS Integers

CONSTANTS
  bits_count,
  BitsPerByte,    \* 8
  AllParts        \* the sizes in bytes of the word types: {8, 4, 2, 1}

FixedAssumption ==
  /\ bits_count \in Nat
  /\ BitsPerByte \in Nat \ {0}
  /\ AllParts \subseteq Nat \ {0} /\ 1 \in AllParts
  /\ \E widest \in AllParts : \A part \in AllParts : part <= widest

CeilDiv(n, d) == n \div d + (IF n % d # 0 THEN 1 ELSE 0)

BytesRequiredForBitset(bits) == CeilDiv(bits, BitsPerByte)

WastedSpace(bytes_required, part) == CeilDiv(bytes_required, part) * part - bytes_required

\* The first of the word types, from the widest on, that wastes least.
BiggestPartTypeWithNoWaste_Bytes(bytes_required) ==
  CHOOSE part \in AllParts : \A other \in AllParts :
    \/ WastedSpace(bytes_required, part) < WastedSpace(bytes_required, other)
    \/ WastedSpace(bytes_required, part) = WastedSpace(bytes_required, other) /\ part >= other

PartBits == BitsPerByte * BiggestPartTypeWithNoWaste_Bytes(BytesRequiredForBitset(bits_count))

PartsCount == CeilDiv(bits_count, PartBits)

Word == INSTANCE BitWords WITH kBitsCount <- PartBits

VARIABLE parts_

Init == parts_ = [p \in 0 .. PartsCount - 1 |-> Word!kEmptyMask]

SetBit(index, value) ==
  /\ index < bits_count
  /\ parts_' = Word!Set(parts_, index, value)

SetBits(begin, end, value) ==
  /\ end <= bits_count
  /\ parts_' = Word!SetRange(parts_, begin, end, value)

\* Mutant: the whole array is filled, as BitsetAdapter::Fill would.
Fill_WholeWords(value) ==
  parts_' = Word!SetRange(parts_, 0, PartsCount * PartBits, value)

Fill(value) == parts_' = Word!SetRange(parts_, 0, bits_count, value)

Next ==
  \E value \in BOOLEAN :
    \/ \E index \in 0 .. bits_count - 1 : SetBit(index, value)
    \/ \E begin, end \in 0 .. bits_count : SetBits(begin, end, value)
    \/ Fill(value)

Spec == Init /\ [][Next]_parts_

-----------------------------------------------------------------------------
\* The slack behind Size() in the last word stays zero whatever is called, so
\* words of equal bitsets are equal.
SlackStaysZero ==
  /\ parts_ \in [0 .. PartsCount - 1 -> Word!Words]
  /\ \A i \in bits_count .. PartsCount * PartBits - 1 : ~Word!Get(parts_, i)

\* For every count up to the bound the array takes no byte more than the bits
\* need, and no wider word type would do.
Bound == 2 * BitsPerByte * 8

NoWaste ==
  \A bits \in 1 .. Bound :
    LET bytes == BytesRequiredForBitset(bits)
        part == BiggestPartTypeWithNoWaste_Bytes(bytes)
    IN  /\ part * CeilDiv(bits, BitsPerByte * part) = bytes
        /\ \A other \in AllParts : other > part => bytes % other # 0
=============================================================================
