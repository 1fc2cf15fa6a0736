------------------------------- MODULE FlagSets -------------------------------
(***************************************************************************)
(* Enumerations as sets of flags: the operators of bitset/enum_bitset.hpp  *)
(* and the functions of bitset/bitset_utilities.hpp.  An operand narrower  *)
(* than int is promoted, so that negative ones are extended by their sign, *)
(* and the result is cast back.                                            *)
(***************************************************************************)
EXTENDS IntTypes, TypesList, FiniteSets

CONSTANTS
  UnderlyingBits,    \* widths of the underlying types
  BitsOfInt          \* width of int

FlagsAssumption ==
  /\ BitsOfInt \in Nat \ {0, 1}
  /\ UnderlyingBits \subseteq 2 .. BitsOfInt
  \* What of powers of two the proofs need and the provers do not know.
  /\ \A n \in 1 .. BitsOfInt : 2 ^ n \in Nat \ {0} /\ 2 ^ n = 2 * 2 ^ (n - 1)

VARIABLES
  underlying,   \* std::underlying_type_t of the enumeration
  flags         \* a value of it

vars == <<underlying, flags>>

Promoted == IF underlying.bits < BitsOfInt THEN [signed |-> TRUE, bits |-> BitsOfInt] ELSE underlying

\* A promoted value as the positions of its ones in two's complement, and back.
Ones(v) == {i \in 0 .. Promoted.bits - 1 : (v \div 2 ^ i) % 2 = 1}
Number(ones) == CHOOSE v \in ValuesOf(Promoted) : Ones(v) = ones

Enum(v) == Converted(underlying, v)     \* static_cast<E>

Or(lhs, rhs) == Enum(Number(Ones(lhs) \cup Ones(rhs)))
And(lhs, rhs) == Enum(Number(Ones(lhs) \cap Ones(rhs)))
Xor(lhs, rhs) == Enum(Number((Ones(lhs) \cup Ones(rhs)) \ (Ones(lhs) \cap Ones(rhs))))
Not(v) == Enum(Number((0 .. Promoted.bits - 1) \ Ones(v)))
ShiftLeft(v, i) == Enum(Converted(Promoted, v * 2 ^ i))
ShiftRight(v, i) == Enum(v \div 2 ^ i)

-----------------------------------------------------------------------------
MakeFlagByIndex(index) == Enum(Converted(Promoted, 2 ^ index))

\* Mutant: a flag is taken for set when the masked value is positive.
FlagIsSet_Positive(value, flag) == Number(Ones(value) \cap Ones(flag)) > 0

FlagIsSet(value, flag) == Number(Ones(value) \cap Ones(flag)) # 0

GetSetFlagsCount(value) ==
  LET U == [signed |-> FALSE, bits |-> underlying.bits]
  IN Cardinality({i \in 0 .. U.bits - 1 : (Converted(U, value) \div 2 ^ i) % 2 = 1})

\* (values | ...), which folds from the right.
FlagsToBitset(list) ==
  LET Fold[k \in DOMAIN list] == IF k = Len(list) THEN list[k] ELSE Or(list[k], Fold[k + 1])
  IN Fold[1]

FlagIsSetFilter(bitset) == [flag \in ValuesOf(underlying) |-> FlagIsSet(bitset, flag)]

MakeFlagByIndexMapFunctor == [index \in 0 .. underlying.bits - 1 |-> MakeFlagByIndex(index)]

-----------------------------------------------------------------------------
Init ==
  /\ underlying \in [signed : BOOLEAN, bits : UnderlyingBits]
  /\ flags \in ValuesOf(underlying)

OrAssign(rhs) == flags' = Or(flags, rhs)
AndAssign(rhs) == flags' = And(flags, rhs)
XorAssign(rhs) == flags' = Xor(flags, rhs)

\* A shift by the width of the promoted type or more is undefined.
ShiftLeftAssign(i) == i < Promoted.bits /\ flags' = ShiftLeft(flags, i)
ShiftRightAssign(i) == i < Promoted.bits /\ flags' = ShiftRight(flags, i)

Next ==
  /\ UNCHANGED underlying
  /\ \/ \E rhs \in ValuesOf(underlying) : OrAssign(rhs) \/ AndAssign(rhs) \/ XorAssign(rhs)
     \/ flags' = Not(flags)
     \/ \E i \in 0 .. BitsOfInt - 1 : ShiftLeftAssign(i) \/ ShiftRightAssign(i)

Spec == Init /\ [][Next]_vars

-----------------------------------------------------------------------------
Positions == 0 .. underlying.bits - 1
Flags(v) == {i \in Positions : (v \div 2 ^ i) % 2 = 1}

\* The operators are those of sets of flags, and their results values of the type;
\* but >> of a signed type shifts the sign in.
OperatorsOfSets ==
  /\ flags \in ValuesOf(underlying)
  /\ Flags(Not(flags)) = Positions \ Flags(flags)
  /\ \A rhs \in ValuesOf(underlying) :
       /\ Flags(Or(flags, rhs)) = Flags(flags) \cup Flags(rhs)
       /\ Flags(And(flags, rhs)) = Flags(flags) \cap Flags(rhs)
       /\ Flags(Xor(flags, rhs)) = {i \in Positions : (i \in Flags(flags)) # (i \in Flags(rhs))}
       /\ FlagIsSet(flags, rhs) <=> Flags(flags) \cap Flags(rhs) # {}
  /\ \A i \in 0 .. Promoted.bits - 1 :
       /\ Flags(ShiftLeft(flags, i)) = {f + i : f \in Flags(flags)} \cap Positions
       /\ Flags(ShiftRight(flags, i)) =
            {f \in Positions : f + i \in Flags(flags) \/ (flags < 0 /\ f + i >= underlying.bits)}

\* Filtering the list of all the flags by FlagIsSetFilter gives those of a set,
\* lowest first; their number is the count, and or-ing them the set itself.  A
\* type made of each is found at its first position, however often it follows.
Decomposes ==
  LET all == ValuesList_MapToValue(MakeFlagByIndexMapFunctor,
               ValuesList_FromIntegerSequence([i \in 1 .. underlying.bits |-> i - 1]))
      set == ValuesList_Filter(FlagIsSetFilter(flags), all)
      F == [flag \in ValuesOf(underlying) |-> <<"F", flag>>]
      Predicate == [type \in {F[all[i]] : i \in DOMAIN all} |-> FlagIsSet(flags, type[2])]
      types == TypesList_Filter(Predicate, ValuesList_MapToType(F, all))
  IN  /\ \A i \in DOMAIN all : Flags(all[i]) = {i - 1}
      /\ {all[i] : i \in DOMAIN all} \cap {set[i] : i \in DOMAIN set}
           = {all[i + 1] : i \in Flags(flags)}
      /\ Len(set) = GetSetFlagsCount(flags) /\ Len(set) = Cardinality(Flags(flags))
      /\ set # <<>> => FlagsToBitset(set) = flags
      /\ types = ValuesList_MapToType(F, set)
      /\ TypesList_MapToValue([type \in {types[i] : i \in DOMAIN types} |-> type[2]], types) = set
      /\ \A i \in DOMAIN types :
           /\ TypesList_IndexOf(types[i], TypesList_Concat(types, types)) = i - 1
           /\ Flags(set[i]) = {CHOOSE f \in Flags(flags) :
                Cardinality({g \in Flags(flags) : g < f}) = i - 1}

FlagsAreSets == OperatorsOfSets /\ Decomposes
=============================================================================
