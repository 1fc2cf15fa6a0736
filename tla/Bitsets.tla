------------------------------- MODULE Bitsets -------------------------------
(***************************************************************************)
(* The bitsets: edt::BitsetAdapter, as a view that is walked and as a wide *)
(* one without walks, edt::BitIterator, edt::DynamicBitset and             *)
(* edt::FixedBitset, all of them over the words of BitWords, and           *)
(* enumerations as sets of flags.  Each has words of its own and nothing   *)
(* in common with the others, so a behaviour is of one of them, and the    *)
(* others rest.                                                            *)
(***************************************************************************)
EXTENDS BitWords

CONSTANTS
  WalkedParts, WideParts,              \* the numbers of words of the two views
  IteratorBits,                        \* the width of the iterator's word
  MaxSize,                             \* bound on the size of the DynamicBitset
  bits_count, BitsPerByte, AllParts,   \* of the FixedBitset
  UnderlyingBits, BitsOfInt            \* of the flags

VARIABLES
  component,
  parts_, walk, part, word, visited, steady, ever,
  wide,                                        \* the words of the wide view
  bitset_, reported_, result, returned, kept,
  words, size_, request,                       \* the DynamicBitset
  array,                                       \* the FixedBitset
  underlying, flags                            \* the flags

Walked == INSTANCE BitsetAdapter WITH PartsCount <- WalkedParts
Wide == INSTANCE BitsetAdapter WITH PartsCount <- WideParts, parts_ <- wide
Iterator == INSTANCE BitIterator WITH kBitsCount <- IteratorBits
Dynamic == INSTANCE DynamicBitset WITH parts_ <- words, MayFail <- TRUE
Fixed == INSTANCE FixedBitset WITH parts_ <- array
Enumerations == INSTANCE FlagSets

ASSUME BitsetsAssumption ==
  /\ Walked!AdapterAssumption /\ Wide!AdapterAssumption
  /\ IteratorBits \in Nat \ {0}
  /\ Dynamic!SizeAssumption
  /\ Fixed!FixedAssumption
  /\ Enumerations!FlagsAssumption

view == <<parts_, walk, part, word, visited, steady, ever>>
iterator == <<bitset_, reported_, result, returned, kept>>
dynamic == <<words, size_, request>>
enumeration == <<underlying, flags>>
vars == <<component, view, wide, iterator, dynamic, array, enumeration>>

Init ==
  /\ component \in {"BitsetAdapter", "wide BitsetAdapter", "BitIterator", "DynamicBitset", "FixedBitset",
                    "flags"}
  /\ Walked!Init /\ Wide!Init /\ Dynamic!Init /\ Fixed!Init
  /\ Iterator!Init /\ (component # "BitIterator" => bitset_ = kEmptyMask)
  /\ IF component = "flags" THEN Enumerations!Init
     ELSE underlying \in {CHOOSE type \in [signed : BOOLEAN, bits : UnderlyingBits] : TRUE} /\ flags = 0

Next ==
  /\ UNCHANGED component
  /\ \/ component = "BitsetAdapter" /\ Walked!Next /\ UNCHANGED <<wide, iterator, dynamic, array, enumeration>>
     \/ component = "wide BitsetAdapter" /\ Wide!Change /\ UNCHANGED <<parts_, iterator, dynamic, array, enumeration>>
     \/ component = "BitIterator" /\ Iterator!Next /\ UNCHANGED <<view, wide, dynamic, array, enumeration>>
     \/ component = "DynamicBitset" /\ Dynamic!Next /\ UNCHANGED <<view, wide, iterator, array, enumeration>>
     \/ component = "FixedBitset" /\ Fixed!Next /\ UNCHANGED <<view, wide, iterator, dynamic, enumeration>>
     \/ component = "flags" /\ Enumerations!Next /\ UNCHANGED <<view, wide, iterator, dynamic, array>>

Spec == Init /\ [][Next]_vars

-----------------------------------------------------------------------------
\* ForEachBit visits the bits lowest first, each at most once, whatever its
\* callback does to the words under the walk; and a walk that is not stopped
\* visits every bit that stayed set throughout, and no bit that never was.
VisitsTheSetBits == component = "BitsetAdapter" => Walked!LowestFirst /\ Walked!VisitsTheSetBits

\* In every state of the words, every operation of BitsetAdapter assigns exactly
\* the bits it names in the flat view, and no other.
RangesAreFlat == component = "wide BitsetAdapter" => Wide!RangesAreFlat

\* BitIterator returns no bit twice or when clear, and misses none that stayed
\* set, though its word is written between the calls.
IteratesSetBits == Iterator!IteratesSetBits

\* Whatever is shrunk, grown and cleared, DynamicBitset reads as the vector of
\* Booleans that was asked for.
ImplementsBitVector == Dynamic!ImplementsBitVector

\* No operation of FixedBitset sets a bit of the slack behind its last one, its
\* words waste no byte, and no wider word type would do.
SlackStaysZero == component = "FixedBitset" => Fixed!SlackStaysZero /\ Fixed!NoWaste

\* Enumerations are sets of flags under the operators, promoted to int and
\* narrowed again, signed or not, and filtering the list of all flags by one, or
\* a list of types made of them, gives its flags and no others.
FlagsAreSets == component = "flags" => Enumerations!FlagsAreSets
=============================================================================
