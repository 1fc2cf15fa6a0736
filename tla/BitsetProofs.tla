---------------------------- MODULE BitsetProofs ----------------------------
(***************************************************************************)
(* What the bitsets of Bitsets compute, for every word width and every     *)
(* number of words: the ranges of the view; the iterator, whatever is      *)
(* written to its word between the calls; the walk over the view, whose    *)
(* callback may write to all the words; the vector DynamicBitset is; the   *)
(* slack behind the last bit of FixedBitset; and, for every width of the   *)
(* underlying type and of int, the enumerations that are sets of flags,    *)
(* with the lists of values and types made of the flags.                   *)
(***************************************************************************)
EXTENDS Bitsets, BitWordsProofs, SequenceTheorems, WellFoundedInduction, FiniteSetTheorems

-----------------------------------------------------------------------------
(* BitsetAdapter, which is Wide in Bitsets.                                *)

\* The operators it is built from are those of BitWords.
LEMMA SameWords ==
  ASSUME NEW parts, NEW b, NEW e, NEW v
  PROVE  /\ Wide!SetRange(parts, b, e, v) = SetRange(parts, b, e, v)
         /\ Wide!Set(parts, b, v) = Set(parts, b, v)
         /\ Wide!BitsOf(parts, b) = BitsOf(parts, b)
         /\ Wide!SetMasked(parts, b, v) = [parts EXCEPT ![0] = SetWordMasked(@, b, v)]
         /\ Wide!Assigned(parts, b, v) = Assigned(parts, b, v)
         /\ Wide!Words = Words
<1> USE DEF Wide!Words, Words, Wide!kFullMask, kFullMask, Wide!kEmptyMask, kEmptyMask, Wide!Part, Part, Wide!Bit, Bit,
            Wide!InRange, InRange, Wide!Xor, Xor, Wide!IntIf, IntIf, Wide!LeftShifted, LeftShifted,
            Wide!RightShifted, RightShifted, Wide!SetWordMasked, SetWordMasked, Wide!SetWordRange, SetWordRange
<1>1. Wide!Words = Words
  OBVIOUS
<1>2. Wide!Assigned(parts, b, v) = Assigned(parts, b, v)
  BY DEF Wide!Assigned, Assigned
<1>3. Wide!SetMasked(parts, b, v) = [parts EXCEPT ![0] = SetWordMasked(@, b, v)]
  BY Zenon DEF Wide!SetMasked
<1>4. Wide!BitsOf(parts, b) = BitsOf(parts, b)
  BY Zenon DEF Wide!BitsOf, BitsOf, Wide!Get, Get
<1>5. Wide!Set(parts, b, v) = Set(parts, b, v)
  BY Zenon DEF Wide!Set, Set
<1>6. Wide!SetRange(parts, b, e, v) = SetRange(parts, b, e, v)
  BY Zenon DEF Wide!SetRange, SetRange, Wide!SpansWords, SpansWords
<1> QED BY <1>1, <1>2, <1>3, <1>4, <1>5, <1>6

WideInv == wide \in ArrayOf(WideParts)

LEMMA WideRanges ==
  ASSUME WideInv, NEW v \in BOOLEAN, NEW b \in 0 .. Wide!Size, NEW e \in 0 .. Wide!Size
  PROVE  /\ Wide!SetRange(wide, b, e, v) \in ArrayOf(WideParts)
         /\ Wide!Assigns(Wide!SetRange(wide, b, e, v), b .. e - 1, v)
<1>1. WideParts \in Nat /\ Wide!Size = WideParts * kBitsCount
  BY BitsetsAssumption DEF Wide!AdapterAssumption, Wide!Size
<1>2. SetRange(wide, b, e, v) \in ArrayOf(WideParts)
  BY <1>1, RangeStaysInside DEF WideInv
<1>3. BitsOf(SetRange(wide, b, e, v), Wide!Size) = Assigned(BitsOf(wide, Wide!Size), b .. e - 1, v)
  BY <1>1, RangesAssignFlatly DEF WideInv
<1> DEFINE new == Wide!SetRange(wide, b, e, v)
<1>4. new = SetRange(wide, b, e, v)
  BY SameWords
<1> HIDE DEF new
<1>5. /\ Wide!BitsOf(new, Wide!Size) = BitsOf(new, Wide!Size)
      /\ Wide!BitsOf(wide, Wide!Size) = BitsOf(wide, Wide!Size)
      /\ Wide!Assigned(BitsOf(wide, Wide!Size), b .. e - 1, v) = Assigned(BitsOf(wide, Wide!Size), b .. e - 1, v)
  BY SameWords
<1>6. new \in ArrayOf(WideParts) /\ Wide!Assigns(new, b .. e - 1, v)
  BY <1>2, <1>3, <1>4, <1>5 DEF Wide!Assigns
<1> QED BY <1>6 DEF new

LEMMA WideBits ==
  ASSUME WideInv, NEW v \in BOOLEAN, NEW i \in Wide!Indices
  PROVE  /\ Wide!Set(wide, i, v) \in ArrayOf(WideParts)
         /\ Wide!Assigns(Wide!Set(wide, i, v), {i}, v)
<1>1. WideParts \in Nat /\ Wide!Size = WideParts * kBitsCount
  BY BitsetsAssumption DEF Wide!AdapterAssumption, Wide!Size
<1>2. Wide!Size \in Nat /\ \A x \in Nat : x < Wide!Size <=> Part(x) < WideParts
  BY <1>1, ArrayEnds
<1> HIDE DEF Wide!Size
<1>3. PICK next \in 0 .. Wide!Size : next = i + 1 /\ i .. next - 1 = {i}
  BY <1>2 DEF Wide!Indices
<1>4. i \in Nat /\ Part(i) < WideParts /\ i \in 0 .. Wide!Size
  BY <1>2 DEF Wide!Indices
<1>5. Set(wide, i, v) = SetRange(wide, i, next, v)
  BY <1>1, <1>3, <1>4, SetIsRange DEF WideInv
<1>6. Wide!Set(wide, i, v) = Set(wide, i, v) /\ Wide!SetRange(wide, i, next, v) = SetRange(wide, i, next, v)
  BY SameWords
<1>7. /\ Wide!SetRange(wide, i, next, v) \in ArrayOf(WideParts)
      /\ Wide!Assigns(Wide!SetRange(wide, i, next, v), i .. next - 1, v)
  BY <1>4, WideRanges
<1>8. i .. next - 1 = {i}
  BY <1>3
<1> QED BY <1>5, <1>6, <1>7, <1>8

LEMMA WideMasks ==
  ASSUME WideInv, NEW v \in BOOLEAN, NEW mask \in Words
  PROVE  /\ Wide!SetMasked(wide, mask, v) \in ArrayOf(WideParts)
         /\ Wide!Assigns(Wide!SetMasked(wide, mask, v), mask, v)
<1> DEFINE new == [wide EXCEPT ![0] = SetWordMasked(@, mask, v)]
<1>1. WideParts \in Nat \ {0} /\ Wide!Size = WideParts * kBitsCount
  BY BitsetsAssumption DEF Wide!AdapterAssumption, Wide!Size
<1>2. new \in ArrayOf(WideParts) /\ BitsOf(new, Wide!Size) = Assigned(BitsOf(wide, Wide!Size), mask, v)
  BY <1>1, MaskAssigns DEF WideInv
<1>3. Wide!SetMasked(wide, mask, v) = new
  BY SameWords
<1> HIDE DEF new
<1>4. /\ Wide!BitsOf(new, Wide!Size) = BitsOf(new, Wide!Size)
      /\ Wide!BitsOf(wide, Wide!Size) = BitsOf(wide, Wide!Size)
      /\ Wide!Assigned(BitsOf(wide, Wide!Size), mask, v) = Assigned(BitsOf(wide, Wide!Size), mask, v)
  BY SameWords
<1> QED BY <1>2, <1>3, <1>4 DEF Wide!Assigns

\* SetFirstN, SetLastN, SetN and Fill are ranges that lie inside the words.
LEMMA WideEnds ==
  /\ Wide!Size \in Nat /\ 0 \in 0 .. Wide!Size /\ Wide!Size \in 0 .. Wide!Size
  /\ \A n \in 0 .. Wide!Size :
       /\ Wide!Size - n \in 0 .. Wide!Size
       /\ {i \in Wide!Indices : i < n} = 0 .. n - 1
       /\ {i \in Wide!Indices : i >= Wide!Size - n} = Wide!Size - n .. Wide!Size - 1
       /\ \A m \in 0 .. Wide!Size - n : n + m \in 0 .. Wide!Size
       /\ {n, n + 1} = n .. n + 2 - 1
  /\ Wide!Indices = 0 .. Wide!Size - 1
<1>1. Wide!Size \in Nat
  BY BitsetsAssumption, WordAssumption DEF Wide!AdapterAssumption, Wide!Size
<1> HIDE DEF Wide!Size
<1>2. ASSUME NEW n \in 0 .. Wide!Size
      PROVE  /\ Wide!Size - n \in 0 .. Wide!Size
             /\ {i \in Wide!Indices : i < n} = 0 .. n - 1
             /\ {i \in Wide!Indices : i >= Wide!Size - n} = Wide!Size - n .. Wide!Size - 1
             /\ \A m \in 0 .. Wide!Size - n : n + m \in 0 .. Wide!Size
             /\ {n, n + 1} = n .. n + 2 - 1
  <2>1. {i \in Wide!Indices : i < n} = 0 .. n - 1
    BY <1>1 DEF Wide!Indices
  <2>2. {i \in Wide!Indices : i >= Wide!Size - n} = Wide!Size - n .. Wide!Size - 1
    BY <1>1 DEF Wide!Indices
  <2>3. Wide!Size - n \in 0 .. Wide!Size /\ \A m \in 0 .. Wide!Size - n : n + m \in 0 .. Wide!Size
    BY <1>1
  <2>4. {n, n + 1} = n .. n + 2 - 1
    BY <1>1
  <2> QED BY <2>1, <2>2, <2>3, <2>4
<1> QED BY <1>1, <1>2 DEF Wide!Indices

\* Whatever is assigned, the words stay words.
LEMMA WideInvHolds == Spec => []WideInv
<1>1. Init => WideInv
  BY BitsetsAssumption DEF Init, Wide!Init, WideInv, ArrayOf, Words, Wide!Parts, Wide!kEmptyMask, Wide!AdapterAssumption
<1>2. WideInv /\ [Next]_vars => WideInv'
  <2> SUFFICES ASSUME WideInv, Wide!Change PROVE WideInv'
    BY DEF Next, vars, WideInv
  <2>1. PICK v \in BOOLEAN :
          \/ \E index \in Wide!Indices : Wide!Store(Wide!Set(wide, index, v))
          \/ \E begin, end \in 0 .. Wide!Size : Wide!Store(Wide!SetRange(wide, begin, end, v))
          \/ \E begin \in 0 .. Wide!Size : \E count \in 0 .. Wide!Size - begin :
               Wide!Store(Wide!SetN(wide, begin, count, v))
          \/ \E count \in 0 .. Wide!Size : Wide!Store(Wide!SetFirstN(wide, count, v))
          \/ \E count \in 0 .. Wide!Size : Wide!Store(Wide!SetLastN(wide, count, v))
          \/ Wide!Store(Wide!Fill(wide, v))
          \/ \E mask \in Wide!Words : Wide!Store(Wide!SetMasked(wide, mask, v))
    BY Zenon DEF Wide!Change
  <2>2. ASSUME NEW parts \in ArrayOf(WideParts), Wide!Store(parts) PROVE WideInv'
    BY <2>2 DEF Wide!Store, WideInv
  <2>3. ASSUME NEW b \in 0 .. Wide!Size, NEW e \in 0 .. Wide!Size, Wide!Store(Wide!SetRange(wide, b, e, v))
        PROVE  WideInv'
    BY <2>2, <2>3, WideRanges
  <2>4. CASE \E index \in Wide!Indices : Wide!Store(Wide!Set(wide, index, v))
    BY <2>2, <2>4, WideBits
  <2>5. CASE \E begin, end \in 0 .. Wide!Size : Wide!Store(Wide!SetRange(wide, begin, end, v))
    BY <2>3, <2>5
  <2>6. CASE \E begin \in 0 .. Wide!Size : \E count \in 0 .. Wide!Size - begin :
               Wide!Store(Wide!SetN(wide, begin, count, v))
    BY <2>3, <2>6, WideEnds DEF Wide!SetN
  <2>7. CASE \E count \in 0 .. Wide!Size : Wide!Store(Wide!SetFirstN(wide, count, v))
    BY <2>3, <2>7, WideEnds DEF Wide!SetFirstN
  <2>8. CASE \E count \in 0 .. Wide!Size : Wide!Store(Wide!SetLastN(wide, count, v))
    BY <2>3, <2>8, WideEnds DEF Wide!SetLastN
  <2>9. CASE Wide!Store(Wide!Fill(wide, v))
    BY <2>3, <2>9, WideEnds DEF Wide!Fill
  <2>10. CASE \E mask \in Wide!Words : Wide!Store(Wide!SetMasked(wide, mask, v))
    BY <2>2, <2>10, WideMasks, SameWords
  <2> QED BY <2>1, <2>4, <2>5, <2>6, <2>7, <2>8, <2>9, <2>10
<1> QED BY <1>1, <1>2, PTL DEF Spec

\* Whatever the words hold, Set, SetRange, SetN, SetFirstN, SetLastN, Fill and SetMasked
\* of BitsetAdapter assign exactly the flat bits they name, across the boundaries of the
\* words, and no other bit.
THEOREM EveryRangeIsFlat == Spec => []RangesAreFlat
<1>1. WideInv => Wide!RangesAreFlat
  <2> SUFFICES ASSUME WideInv, NEW v \in BOOLEAN
               PROVE  /\ \A i \in Wide!Indices : Wide!Assigns(Wide!Set(wide, i, v), {i}, v)
                      /\ \A b, e \in 0 .. Wide!Size : Wide!Assigns(Wide!SetRange(wide, b, e, v), b .. e - 1, v)
                      /\ \A n \in 0 .. Wide!Size :
                           /\ Wide!Assigns(Wide!SetFirstN(wide, n, v), {i \in Wide!Indices : i < n}, v)
                           /\ Wide!Assigns(Wide!SetLastN(wide, n, v), {i \in Wide!Indices : i >= Wide!Size - n}, v)
                           /\ n + 2 <= Wide!Size => Wide!Assigns(Wide!SetN(wide, n, 2, v), {n, n + 1}, v)
                      /\ Wide!Assigns(Wide!Fill(wide, v), Wide!Indices, v)
                      /\ \A mask \in Wide!Words : Wide!Assigns(Wide!SetMasked(wide, mask, v), mask, v)
    BY Zenon DEF Wide!RangesAreFlat
  <2>1. \A b, e \in 0 .. Wide!Size : Wide!Assigns(Wide!SetRange(wide, b, e, v), b .. e - 1, v)
    BY WideRanges
  <2>2. \A i \in Wide!Indices : Wide!Assigns(Wide!Set(wide, i, v), {i}, v)
    BY WideBits
  <2>3. \A mask \in Wide!Words : Wide!Assigns(Wide!SetMasked(wide, mask, v), mask, v)
    BY WideMasks, SameWords
  <2>4. Wide!Assigns(Wide!Fill(wide, v), Wide!Indices, v)
    BY <2>1, WideEnds DEF Wide!Fill
  <2>5. ASSUME NEW n \in 0 .. Wide!Size
        PROVE  /\ Wide!Assigns(Wide!SetFirstN(wide, n, v), {i \in Wide!Indices : i < n}, v)
               /\ Wide!Assigns(Wide!SetLastN(wide, n, v), {i \in Wide!Indices : i >= Wide!Size - n}, v)
               /\ n + 2 <= Wide!Size => Wide!Assigns(Wide!SetN(wide, n, 2, v), {n, n + 1}, v)
    <3>1. Wide!Assigns(Wide!SetRange(wide, 0, n, v), 0 .. n - 1, v)
      BY <2>1, WideEnds
    <3>2. Wide!Assigns(Wide!SetRange(wide, Wide!Size - n, Wide!Size, v), Wide!Size - n .. Wide!Size - 1, v)
      BY <2>1, WideEnds
    <3>3. n + 2 <= Wide!Size => n + 2 \in 0 .. Wide!Size
      BY WideEnds
    <3>4. n + 2 <= Wide!Size => Wide!Assigns(Wide!SetRange(wide, n, n + 2, v), n .. n + 2 - 1, v)
      BY <2>1, <3>3
    <3> QED BY <3>1, <3>2, <3>4, WideEnds DEF Wide!SetFirstN, Wide!SetLastN, Wide!SetN
  <2> QED BY <2>1, <2>2, <2>3, <2>4, <2>5
<1> QED BY <1>1, WideInvHolds, PTL DEF RangesAreFlat

-----------------------------------------------------------------------------
(* BitIterator, which is Iterator in Bitsets.                              *)

\* A word that is not empty has a least bit.
LEMMA LowestBitIsLeast ==
  ASSUME NEW w \in Iterator!Words, w # {}
  PROVE  Iterator!LowestBit(w) \in w /\ \A c \in w : Iterator!LowestBit(w) <= c
<1> DEFINE less == {pair \in Nat \X Nat : pair[1] < pair[2]}
<1>1. w \subseteq Nat
  BY DEF Iterator!Words, Iterator!kFullMask
<1>2. PICK b \in w : \A c \in w : <<c, b>> \notin less
  <2>1. IsWellFoundedOn(less, Nat)
    BY NatLessThanWellFounded DEF OpToRel
  <2> HIDE DEF less
  <2> QED BY <1>1, <2>1, WFMin
<1>3. \A c \in w : b <= c
  <2> TAKE c \in w
  <2>1. b \in Nat /\ c \in Nat
    BY <1>1
  <2>2. ~(c < b)
    BY <1>2, <2>1
  <2> QED BY <2>1, <2>2
<1> QED BY <1>3 DEF Iterator!LowestBit

\* What a call does when bits are left: it takes the least bit that is not behind
\* the iterator, and with it everything below it.
LEMMA NextBitTakesTheLeast ==
  ASSUME Iterator!TypeOK, Iterator!NextBit, bitset_ \ reported_ # {}
  PROVE  \E b \in Iterator!kFullMask :
           /\ b \in bitset_ /\ b \notin reported_
           /\ \A c \in bitset_ \ reported_ : b <= c
           /\ result' = {b} /\ reported_' = 0 .. b
           /\ returned' = returned \cup {b}
           /\ UNCHANGED <<bitset_, kept>>
<1> DEFINE b == Iterator!LowestBit(bitset_ \ reported_)
<1>1. bitset_ \ reported_ \in Iterator!Words
  BY DEF Iterator!TypeOK, Iterator!Words
<1>2. b \in bitset_ \ reported_ /\ \A c \in bitset_ \ reported_ : b <= c
  BY <1>1, LowestBitIsLeast
<1>3. result' = {b} /\ reported_' = 0 .. b /\ returned' = returned \cup {b} /\ UNCHANGED <<bitset_, kept>>
  BY DEF Iterator!NextBit, Iterator!kEmptyMask
<1>4. b \in Iterator!kFullMask
  BY <1>1, <1>2 DEF Iterator!Words
<1> HIDE DEF b
<1> QED BY <1>2, <1>3, <1>4

\* What is behind the iterator are the positions up to the last bit returned, and
\* no bit that stayed set is among them without having been returned.
LEMMA IteratorInvHolds == Iterator!Spec => []Iterator!IndInv
<1>1. Iterator!Init => Iterator!IndInv
  BY DEF Iterator!Init, Iterator!IndInv, Iterator!TypeOK, Iterator!BehindInv, Iterator!NothingMissed,
         Iterator!Words, Iterator!kEmptyMask
<1>2. Iterator!IndInv /\ [Iterator!Next]_(Iterator!vars) => Iterator!IndInv'
  <2> SUFFICES ASSUME Iterator!IndInv, [Iterator!Next]_(Iterator!vars) PROVE Iterator!IndInv'
    OBVIOUS
  <2> USE DEF Iterator!IndInv
  <2>1. ASSUME NEW w \in Iterator!Words, Iterator!Write(w) PROVE Iterator!IndInv'
    BY <2>1 DEF Iterator!Write, Iterator!TypeOK, Iterator!BehindInv, Iterator!NothingMissed, Iterator!Words
  <2>2. CASE Iterator!NextBit /\ bitset_ \ reported_ = {}
    <3>1. UNCHANGED <<bitset_, kept, reported_, returned>> /\ result' = {}
      BY <2>2 DEF Iterator!NextBit, Iterator!kEmptyMask
    <3> QED BY <3>1 DEF Iterator!TypeOK, Iterator!BehindInv, Iterator!NothingMissed
  <2>3. CASE Iterator!NextBit /\ bitset_ \ reported_ # {}
    <3>1. PICK b \in Iterator!kFullMask :
            /\ b \in bitset_ /\ b \notin reported_
            /\ \A c \in bitset_ \ reported_ : b <= c
            /\ result' = {b} /\ reported_' = 0 .. b
            /\ returned' = returned \cup {b}
            /\ UNCHANGED <<bitset_, kept>>
      BY <2>3, NextBitTakesTheLeast
    <3>2. b \in Int /\ 0 .. b \subseteq Iterator!kFullMask
      BY BitsetsAssumption DEF Iterator!kFullMask
    <3>3. Iterator!TypeOK'
      BY <3>1, <3>2 DEF Iterator!TypeOK, Iterator!Words
    <3>4. returned \subseteq Iterator!kFullMask /\ \A v \in returned : v < b
      BY <3>1 DEF Iterator!TypeOK, Iterator!BehindInv, Iterator!Words, Iterator!kFullMask
    <3>5. Iterator!BehindInv'
      BY <3>1, <3>2, <3>4 DEF Iterator!BehindInv, Iterator!kFullMask
    <3>6. Iterator!NothingMissed'
      <4>1. ASSUME NEW c \in kept, c \in 0 .. b PROVE c \in returned \cup {b}
        <5>1. CASE c \in reported_
          BY <4>1, <5>1 DEF Iterator!NothingMissed
        <5>2. CASE c \notin reported_
          BY <3>1, <3>2, <4>1, <5>2 DEF Iterator!NothingMissed
        <5> QED BY <5>1, <5>2
      <4> QED BY <3>1, <4>1 DEF Iterator!NothingMissed
    <3> QED BY <3>3, <3>5, <3>6
  <2>4. CASE UNCHANGED Iterator!vars
    BY <2>4 DEF Iterator!vars, Iterator!TypeOK, Iterator!BehindInv, Iterator!NothingMissed
  <2> QED BY <2>1, <2>2, <2>3, <2>4 DEF Iterator!Next
<1> QED BY <1>1, <1>2, PTL DEF Iterator!Spec

\* A call returns a bit that is set at that moment and lies above all those
\* returned before, and none only when every bit that stayed set has been returned.
LEMMA IteratorReturnsEveryBitOnce == Iterator!Spec => Iterator!IteratesSetBits
<1> DEFINE Right == Iterator!NextBit => IF result' = {} THEN kept \subseteq returned
                               ELSE \A b \in result' : b \in bitset_ /\ \A v \in returned : v < b
<1>1. Iterator!IndInv /\ [Iterator!Next]_(Iterator!vars) => [Right]_(Iterator!vars)
  <2> SUFFICES ASSUME Iterator!IndInv, Iterator!NextBit
               PROVE  IF result' = {} THEN kept \subseteq returned
                      ELSE \A b \in result' : b \in bitset_ /\ \A v \in returned : v < b
    OBVIOUS
  <2>1. CASE bitset_ \ reported_ = {}
    <3>1. result' = {}
      BY <2>1 DEF Iterator!NextBit, Iterator!kEmptyMask
    <3>2. kept \subseteq returned
      BY <2>1 DEF Iterator!IndInv, Iterator!NothingMissed
    <3> QED BY <3>1, <3>2
  <2>2. CASE bitset_ \ reported_ # {}
    <3>1. PICK b \in Iterator!kFullMask :
            b \in bitset_ /\ b \notin reported_ /\ result' = {b}
      BY <2>2, NextBitTakesTheLeast DEF Iterator!IndInv
    <3>2. \A v \in returned : v < b
      BY <3>1 DEF Iterator!IndInv, Iterator!TypeOK, Iterator!BehindInv, Iterator!Words, Iterator!kFullMask
    <3> QED BY <3>1, <3>2
  <2> QED BY <2>1, <2>2
<1> QED BY <1>1, IteratorInvHolds, PTL DEF Iterator!Spec, Iterator!IteratesSetBits

\* However the word is edited between the calls, each call returns a bit that is set at that
\* moment and lies above all those returned before, and none only when every bit that stayed
\* set has been returned; in Bitsets, where the iterator is one of several components.
THEOREM EveryBitOnce == Spec => IteratesSetBits
<1>1. Init => Iterator!Init
  BY DEF Init
<1>2. [Next]_vars => [Iterator!Next]_(Iterator!vars)
  BY DEF Next, vars, iterator, Iterator!vars
<1> QED BY <1>1, <1>2, IteratorReturnsEveryBitOnce, PTL DEF Spec, Iterator!Spec, IteratesSetBits

-----------------------------------------------------------------------------
(* The walk over the view, which is Walked in Bitsets.                     *)

\* The walk has called back with x.
Seen(vis, x) == \E i \in DOMAIN vis : vis[i] = x
InOrder(vis) == \A i, j \in DOMAIN vis : i < j => vis[i] < vis[j]

\* A word that is not empty has a least bit.
LEMMA LowestOfWord ==
  ASSUME NEW w \in Words, w # {}
  PROVE  /\ Walked!LowestBit(w) \in w /\ Walked!LowestBit(w) \in 0 .. kBitsCount - 1
         /\ \A c \in w : Walked!LowestBit(w) <= c
<1> DEFINE less == {pair \in Nat \X Nat : pair[1] < pair[2]}
<1>1. w \subseteq Nat
  BY DEF Words, kFullMask
<1>2. PICK b \in w : \A c \in w : <<c, b>> \notin less
  <2>1. IsWellFoundedOn(less, Nat)
    BY NatLessThanWellFounded DEF OpToRel
  <2> HIDE DEF less
  <2> QED BY <1>1, <2>1, WFMin
<1>3. \A c \in w : b <= c
  <2> TAKE c \in w
  <2>1. b \in Nat /\ c \in Nat
    BY <1>1
  <2>2. ~(c < b)
    BY <1>2, <2>1
  <2> QED BY <2>1, <2>2
<1>4. Walked!LowestBit(w) \in w /\ \A c \in w : Walked!LowestBit(w) <= c
  BY <1>3 DEF Walked!LowestBit
<1> HIDE DEF Walked!LowestBit
<1> QED BY <1>4 DEF Words, kFullMask

\* What a callback with x, behind all the bits visited, adds to them.
LEMMA Visit ==
  ASSUME NEW vis \in Seq(Nat), NEW x \in Nat, InOrder(vis), \A y \in Nat : Seen(vis, y) => y < x
  PROVE  /\ Append(vis, x) \in Seq(Nat) /\ InOrder(Append(vis, x))
         /\ \A y : Seen(Append(vis, x), y) <=> Seen(vis, y) \/ y = x
<1> DEFINE new == Append(vis, x)
<1>1. /\ new \in Seq(Nat) /\ Len(vis) \in Nat /\ DOMAIN vis = 1 .. Len(vis) /\ DOMAIN new = 1 .. Len(vis) + 1
      /\ new[Len(vis) + 1] = x /\ \A n \in 1 .. Len(vis) : new[n] = vis[n]
  OBVIOUS
<1>2. \A n \in 1 .. Len(vis) : vis[n] \in Nat /\ Seen(vis, vis[n])
  BY <1>1 DEF Seen
<1> HIDE DEF new
<1>3. InOrder(new)
  BY <1>1, <1>2 DEF InOrder
<1>4. ASSUME NEW y PROVE Seen(new, y) <=> Seen(vis, y) \/ y = x
  BY <1>1 DEF Seen
<1> QED BY <1>1, <1>3, <1>4 DEF new

\* The operators the view is built from are those of BitWords.
LEMMA WalkedWords ==
  ASSUME NEW parts, NEW b, NEW e, NEW v
  PROVE  /\ Walked!SetRange(parts, b, e, v) = SetRange(parts, b, e, v)
         /\ Walked!Set(parts, b, v) = Set(parts, b, v)
         /\ Walked!BitsOf(parts, b) = BitsOf(parts, b)
         /\ Walked!SetMasked(parts, b, v) = [parts EXCEPT ![0] = SetWordMasked(@, b, v)]
         /\ Walked!Words = Words
<1> USE DEF Walked!Words, Words, Walked!kFullMask, kFullMask, Walked!kEmptyMask, kEmptyMask, Walked!Part, Part,
            Walked!Bit, Bit, Walked!InRange, InRange, Walked!Xor, Xor, Walked!IntIf, IntIf,
            Walked!LeftShifted, LeftShifted, Walked!RightShifted, RightShifted,
            Walked!SetWordMasked, SetWordMasked, Walked!SetWordRange, SetWordRange
<1>1. Walked!Words = Words
  OBVIOUS
<1>2. Walked!SetMasked(parts, b, v) = [parts EXCEPT ![0] = SetWordMasked(@, b, v)]
  BY Zenon DEF Walked!SetMasked
<1>3. Walked!BitsOf(parts, b) = BitsOf(parts, b)
  BY Zenon DEF Walked!BitsOf, BitsOf, Walked!Get, Get
<1>4. Walked!Set(parts, b, v) = Set(parts, b, v)
  BY Zenon DEF Walked!Set, Set
<1>5. Walked!SetRange(parts, b, e, v) = SetRange(parts, b, e, v)
  BY Zenon DEF Walked!SetRange, SetRange, Walked!SpansWords, SpansWords
<1> QED BY <1>1, <1>2, <1>3, <1>4, <1>5

\* What every change stores is an array of words again.
LEMMA ChangeStoresWords ==
  ASSUME parts_ \in ArrayOf(WalkedParts), Walked!Change
  PROVE  \E parts \in ArrayOf(WalkedParts) : Walked!Store(parts)
<1> DEFINE size == Walked!Size
<1>1. /\ WalkedParts \in Nat \ {0} /\ size \in Nat /\ size = WalkedParts * kBitsCount
      /\ Walked!Indices = 0 .. size - 1
  BY BitsetsAssumption, WordAssumption DEF Walked!AdapterAssumption, Walked!Size, Walked!Indices
<1>2. \A x \in Nat : x < size <=> Part(x) < WalkedParts
  BY <1>1, ArrayEnds
<1>3. PICK v \in BOOLEAN :
        \/ \E index \in Walked!Indices : Walked!Store(Walked!Set(parts_, index, v))
        \/ \E begin, end \in 0 .. Walked!Size : Walked!Store(Walked!SetRange(parts_, begin, end, v))
        \/ \E begin \in 0 .. Walked!Size : \E count \in 0 .. Walked!Size - begin :
             Walked!Store(Walked!SetN(parts_, begin, count, v))
        \/ \E count \in 0 .. Walked!Size : Walked!Store(Walked!SetFirstN(parts_, count, v))
        \/ \E count \in 0 .. Walked!Size : Walked!Store(Walked!SetLastN(parts_, count, v))
        \/ Walked!Store(Walked!Fill(parts_, v))
        \/ \E mask \in Walked!Words : Walked!Store(Walked!SetMasked(parts_, mask, v))
  BY Zenon DEF Walked!Change
<1> HIDE DEF size
<1>4. ASSUME NEW b \in 0 .. size, NEW e \in 0 .. size
      PROVE  Walked!SetRange(parts_, b, e, v) \in ArrayOf(WalkedParts)
  <2>1. SetRange(parts_, b, e, v) \in ArrayOf(WalkedParts)
    BY <1>1, RangeStaysInside
  <2> QED BY <2>1, WalkedWords
<1>5. CASE \E index \in Walked!Indices : Walked!Store(Walked!Set(parts_, index, v))
  <2>1. PICK i \in 0 .. size - 1 : Walked!Store(Walked!Set(parts_, i, v))
    BY <1>1, <1>5
  <2>2. i \in Nat /\ i \in 0 .. size /\ i + 1 \in 0 .. size /\ Part(i) < WalkedParts
    BY <1>1, <1>2
  <2>3. Set(parts_, i, v) = SetRange(parts_, i, i + 1, v)
    BY <1>1, <2>2, SetIsRange
  <2>4. Walked!Set(parts_, i, v) = Walked!SetRange(parts_, i, i + 1, v)
    BY <2>3, WalkedWords
  <2> QED BY <1>4, <2>1, <2>2, <2>4
<1>6. CASE \E begin, end \in 0 .. Walked!Size : Walked!Store(Walked!SetRange(parts_, begin, end, v))
  BY <1>4, <1>6 DEF size
<1>7. CASE \E begin \in 0 .. Walked!Size : \E count \in 0 .. Walked!Size - begin :
             Walked!Store(Walked!SetN(parts_, begin, count, v))
  <2>1. PICK b \in 0 .. size : \E count \in 0 .. size - b : Walked!Store(Walked!SetN(parts_, b, count, v))
    BY <1>7 DEF size
  <2>2. PICK n \in 0 .. size - b : Walked!Store(Walked!SetN(parts_, b, n, v))
    BY <2>1
  <2>3. b + n \in 0 .. size
    BY <1>1
  <2> QED BY <1>4, <2>2, <2>3 DEF Walked!SetN
<1>8. CASE \E count \in 0 .. Walked!Size : Walked!Store(Walked!SetFirstN(parts_, count, v))
  <2>1. 0 \in 0 .. size
    BY <1>1
  <2> QED BY <1>4, <1>8, <2>1 DEF Walked!SetFirstN, size
<1>9. CASE \E count \in 0 .. Walked!Size : Walked!Store(Walked!SetLastN(parts_, count, v))
  <2>1. PICK n \in 0 .. size : Walked!Store(Walked!SetLastN(parts_, n, v))
    BY <1>9 DEF size
  <2>2. size - n \in 0 .. size /\ size \in 0 .. size
    BY <1>1
  <2>3. Walked!SetLastN(parts_, n, v) = Walked!SetRange(parts_, size - n, size, v)
    BY Zenon DEF Walked!SetLastN, size
  <2> QED BY <1>4, <2>1, <2>2, <2>3
<1>10. CASE Walked!Store(Walked!Fill(parts_, v))
  <2>1. 0 \in 0 .. size /\ size \in 0 .. size
    BY <1>1
  <2>2. Walked!Fill(parts_, v) = Walked!SetRange(parts_, 0, size, v)
    BY Zenon DEF Walked!Fill, size
  <2> QED BY <1>4, <1>10, <2>1, <2>2
<1>11. CASE \E mask \in Walked!Words : Walked!Store(Walked!SetMasked(parts_, mask, v))
  <2>1. PICK mask \in Words : Walked!Store(Walked!SetMasked(parts_, mask, v))
    BY <1>11, WalkedWords
  <2> DEFINE new == [parts_ EXCEPT ![0] = SetWordMasked(@, mask, v)]
  <2>2. new \in ArrayOf(WalkedParts)
    BY <1>1, MaskAssigns
  <2>3. Walked!SetMasked(parts_, mask, v) = new
    BY WalkedWords
  <2> HIDE DEF new
  <2> QED BY <2>1, <2>2, <2>3
<1> QED BY <1>3, <1>5, <1>6, <1>7, <1>8, <1>9, <1>10, <1>11

\* What is set now.
Now(parts) == BitsOf(parts, WalkedParts * kBitsCount)

\* A bit of the array is set when it is in its word.
LEMMA NowReads ==
  ASSUME NEW parts \in ArrayOf(WalkedParts)
  PROVE  /\ \A x \in Now(parts) : x \in Nat /\ Part(x) \in 0 .. WalkedParts - 1 /\ Bit(x) \in parts[Part(x)]
         /\ \A p \in 0 .. WalkedParts - 1 : \A b \in parts[p] : Place(p, b) \in Now(parts)
<1> DEFINE size == WalkedParts * kBitsCount
<1>1. WalkedParts \in Nat \ {0}
  BY BitsetsAssumption DEF Walked!AdapterAssumption
<1>2. size \in Nat /\ \A x \in Nat : x < size <=> Part(x) < WalkedParts
  BY <1>1, ArrayEnds
<1> HIDE DEF size
<1>3. \A x : x \in Now(parts) <=> x \in 0 .. size - 1 /\ Get(parts, x)
  BY DEF Now, BitsOf, size
<1>4. ASSUME NEW x \in Now(parts)
      PROVE  x \in Nat /\ Part(x) \in 0 .. WalkedParts - 1 /\ Bit(x) \in parts[Part(x)]
  <2>1. x \in Nat /\ Part(x) < WalkedParts /\ Get(parts, x)
    BY <1>2, <1>3
  <2>2. Part(x) \in Nat
    BY <2>1, Division
  <2> QED BY <1>1, <2>1, <2>2, GetReads
<1>5. ASSUME NEW p \in 0 .. WalkedParts - 1, NEW b \in parts[p]
      PROVE  Place(p, b) \in Now(parts)
  <2>1. p \in Nat /\ p < WalkedParts /\ b \in 0 .. kBitsCount - 1
    BY <1>1 DEF ArrayOf, Words, kFullMask
  <2> DEFINE x == Place(p, b)
  <2>2. x \in Nat /\ Part(x) = p /\ Bit(x) = b
    BY <2>1, PlaceParts
  <2> HIDE DEF x
  <2>3. Get(parts, x)
    BY <1>1, <2>1, <2>2, GetReads
  <2>4. x \in 0 .. size - 1
    BY <1>2, <2>1, <2>2
  <2> QED BY <1>3, <2>3, <2>4 DEF x
<1> QED BY <1>4, <1>5

-----------------------------------------------------------------------------
(* The invariant of the walk: all that is before its position and was set  *)
(* throughout has been visited, and nothing behind it has.                 *)

WalkTyped ==
  /\ parts_ \in ArrayOf(WalkedParts)
  /\ walk \in {"none", "reading", "looking", "calling", "done", "stopped"}
  /\ part \in 0 .. WalkedParts /\ word \in Words
  /\ visited \in Seq(Nat) /\ InOrder(visited)
  /\ \A x \in steady : x \in Nat /\ Part(x) \in 0 .. WalkedParts - 1
  /\ component # "BitsetAdapter" => walk = "none"

\* What is steady is set and what is set is remembered, as long as the walk lasts.
Witnessed ==
  /\ \A x \in Nat : Seen(visited, x) => x \in ever
  /\ Walked!Walking => (\A x \in steady : x \in Now(parts_)) /\ (\A x \in Now(parts_) : x \in ever)

BetweenWords ==
  walk = "reading" =>
    /\ \A x \in Nat : Seen(visited, x) => Part(x) < part
    /\ \A x \in steady : Part(x) < part => Seen(visited, x)

\* word is what is left of the copy of a word that may have changed since.
InWord ==
  walk \in {"looking", "calling"} =>
    /\ part < WalkedParts
    /\ \A b \in word : Place(part, b) \in ever
    /\ \A x \in steady : Part(x) < part \/ (Part(x) = part /\ Bit(x) \notin word) => Seen(visited, x)

\* The bits left are behind those visited; while the callback runs its bit is both.
Ahead ==
  /\ walk = "looking" => \A x \in Nat : Seen(visited, x) => Part(x) <= part /\ \A b \in word : x < Place(part, b)
  /\ walk = "calling" => /\ word # {} /\ Seen(visited, Place(part, Walked!LowestBit(word)))
                         /\ \A x \in Nat : Seen(visited, x) => x <= Place(part, Walked!LowestBit(word))

WalkOver == walk = "done" => \A x \in steady : Seen(visited, x)

WalkInv == WalkTyped /\ Witnessed /\ BetweenWords /\ InWord /\ Ahead /\ WalkOver

\* A walk starts with nothing visited.
LEMMA StartWalkKeeps ==
  ASSUME WalkInv, component = "BitsetAdapter", UNCHANGED component, Walked!StartWalk
  PROVE  WalkInv'
<1>1. /\ walk' = "reading" /\ part' = 0 /\ visited' = <<>> /\ UNCHANGED <<parts_, word>>
      /\ steady' = Now(parts_) /\ ever' = Now(parts_)
  BY WalkedWords DEF Walked!StartWalk, Now, Walked!Size
<1>2. parts_ \in ArrayOf(WalkedParts) /\ WalkedParts \in Nat \ {0} /\ word \in Words
  BY BitsetsAssumption DEF Walked!AdapterAssumption, WalkInv, WalkTyped
<1>3. \A x : ~Seen(<<>>, x)
  BY DEF Seen
<1>4. <<>> \in Seq(Nat) /\ InOrder(<<>>)
  BY DEF InOrder
<1>5. \A x \in Now(parts_) : x \in Nat /\ Part(x) \in 0 .. WalkedParts - 1
  BY <1>2, NowReads
<1>6. WalkTyped'
  BY <1>1, <1>2, <1>4, <1>5 DEF WalkTyped
<1>7. Witnessed'
  BY <1>1, <1>3 DEF Witnessed
<1>8. BetweenWords'
  BY <1>1, <1>2, <1>3, <1>5 DEF BetweenWords
<1> QED BY <1>1, <1>6, <1>7, <1>8 DEF WalkInv, InWord, Ahead, WalkOver

\* The walk copies the next word.
LEMMA ReadWordKeeps ==
  ASSUME WalkInv, component = "BitsetAdapter", UNCHANGED component, Walked!ReadWord
  PROVE  WalkInv'
<1>1. /\ walk = "reading" /\ part # WalkedParts /\ walk' = "looking" /\ word' = parts_[part]
      /\ UNCHANGED <<parts_, part, visited, steady, ever>>
  BY DEF Walked!ReadWord, Walked!history
<1>2. /\ parts_ \in ArrayOf(WalkedParts) /\ part \in 0 .. WalkedParts - 1 /\ WalkTyped
      /\ WalkedParts \in Nat \ {0}
  BY <1>1, BitsetsAssumption DEF Walked!AdapterAssumption, WalkInv, WalkTyped
<1>3. /\ \A x \in Now(parts_) : x \in Nat /\ Part(x) \in 0 .. WalkedParts - 1 /\ Bit(x) \in parts_[Part(x)]
      /\ \A b \in word' : Place(part, b) \in Now(parts_)
  BY <1>1, <1>2, NowReads
<1>4. /\ \A x \in Nat : Seen(visited, x) => x \in ever
      /\ \A x \in steady : x \in Now(parts_) /\ x \in ever
      /\ \A x \in Now(parts_) : x \in ever
  BY <1>1 DEF WalkInv, Witnessed, Walked!Walking
<1>5. /\ \A x \in Nat : Seen(visited, x) => Part(x) < part
      /\ \A x \in steady : Part(x) < part => Seen(visited, x)
  BY <1>1 DEF WalkInv, BetweenWords
<1>6. word' \in Words
  BY <1>1, <1>2 DEF ArrayOf
<1>7. WalkTyped'
  BY <1>1, <1>2, <1>6 DEF WalkTyped
<1>8. Witnessed'
  BY <1>1, <1>4 DEF Witnessed, Walked!Walking
<1>9. InWord'
  <2>1. \A x \in steady : Part(x) = part => Bit(x) \in word'
    BY <1>1, <1>3, <1>4
  <2>2. \A x \in steady : Part(x) < part \/ (Part(x) = part /\ Bit(x) \notin word') => Seen(visited, x)
    BY <1>5, <2>1
  <2>3. part < WalkedParts /\ \A b \in word' : Place(part, b) \in ever
    BY <1>2, <1>3, <1>4
  <2> QED BY <1>1, <2>2, <2>3 DEF InWord
<1>10. Ahead'
  <2>1. ASSUME NEW x \in Nat, Seen(visited, x), NEW b \in word' PROVE x < Place(part, b)
    <3>1. b \in 0 .. kBitsCount - 1 /\ part \in Nat
      BY <1>2, <1>6 DEF Words, kFullMask
    <3>2. Place(part, b) \in Nat /\ Part(Place(part, b)) = part
      BY <3>1, PlaceParts
    <3>3. Part(x) < part
      BY <1>5, <2>1
    <3> QED BY <3>2, <3>3, PlaceOrder
  <2>2. \A x \in Nat : Seen(visited, x) => Part(x) <= part
    <3>1. \A x \in Nat : Part(x) \in Nat
      BY Division
    <3> QED BY <1>2, <1>5, <3>1
  <2> QED BY <1>1, <2>1, <2>2 DEF Ahead
<1> QED BY <1>1, <1>7, <1>8, <1>9, <1>10 DEF WalkInv, BetweenWords, WalkOver

\* The callback gets the lowest bit left.
LEMMA CallBackKeeps ==
  ASSUME WalkInv, component = "BitsetAdapter", UNCHANGED component, Walked!CallBack
  PROVE  WalkInv'
<1> DEFINE b == Walked!LowestBit(word)
           x == Place(part, b)
<1>1. /\ walk = "looking" /\ word # {} /\ walk' = "calling"
      /\ visited' = Append(visited, x)
      /\ UNCHANGED <<parts_, part, word, steady, ever>>
  BY DEF Walked!CallBack, Walked!kEmptyMask, Place
<1>2. /\ visited \in Seq(Nat) /\ InOrder(visited) /\ word \in Words /\ part \in Nat /\ WalkTyped
  BY DEF WalkInv, WalkTyped
<1>3. b \in word /\ b \in 0 .. kBitsCount - 1
  BY <1>1, <1>2, LowestOfWord
<1>4. x \in Nat
  BY <1>2, <1>3, PlaceParts
<1>5. /\ part < WalkedParts /\ \A c \in word : Place(part, c) \in ever
      /\ \A y \in steady : Part(y) < part \/ (Part(y) = part /\ Bit(y) \notin word) => Seen(visited, y)
  BY <1>1 DEF WalkInv, InWord
<1>6. \A y \in Nat : Seen(visited, y) => y < x
  BY <1>1, <1>3 DEF WalkInv, Ahead
<1>7. /\ \A y \in Nat : Seen(visited, y) => y \in ever
      /\ \A y \in steady : y \in Now(parts_)
      /\ \A y \in Now(parts_) : y \in ever
  BY <1>1 DEF WalkInv, Witnessed, Walked!Walking
<1>8. x \in ever
  BY <1>3, <1>5
<1> HIDE DEF x
<1>9. /\ visited' \in Seq(Nat) /\ InOrder(visited')
      /\ \A y : Seen(visited', y) <=> Seen(visited, y) \/ y = x
  BY <1>1, <1>2, <1>4, <1>6, Visit
<1>10. WalkTyped'
  BY <1>1, <1>2, <1>9 DEF WalkTyped
<1>11. Witnessed'
  BY <1>1, <1>7, <1>8, <1>9 DEF Witnessed, Walked!Walking
<1>12. InWord'
  BY <1>1, <1>5, <1>9 DEF InWord
<1>13. Ahead'
  <2>1. word # {} /\ Seen(visited', x) /\ \A y \in Nat : Seen(visited', y) => y <= x
    BY <1>1, <1>4, <1>6, <1>9
  <2> QED BY <1>1, <2>1 DEF Ahead, x
<1> QED BY <1>1, <1>10, <1>11, <1>12, <1>13 DEF WalkInv, BetweenWords, WalkOver

\* The callback returned true: its bit leaves the copy.
LEMMA ContinueKeeps ==
  ASSUME WalkInv, component = "BitsetAdapter", UNCHANGED component, Walked!Continue
  PROVE  WalkInv'
<1> DEFINE b == Walked!LowestBit(word)
           x == Place(part, b)
<1>1. /\ walk = "calling" /\ walk' = "looking" /\ word' = word \ {b}
      /\ UNCHANGED <<parts_, part, visited, steady, ever>>
  BY DEF Walked!Continue, Walked!history
<1>2. /\ word \in Words /\ word # {} /\ part \in Nat /\ WalkTyped
      /\ Seen(visited, x) /\ \A y \in Nat : Seen(visited, y) => y <= x
  BY <1>1 DEF WalkInv, WalkTyped, Ahead
<1>3. b \in word /\ b \in 0 .. kBitsCount - 1 /\ \A c \in word : b <= c
  BY <1>2, LowestOfWord
<1>4. x \in Nat /\ Part(x) = part /\ Bit(x) = b
  BY <1>2, <1>3, PlaceParts
<1> HIDE DEF b
<1>5. \A c \in word' : /\ c \in 0 .. kBitsCount - 1 /\ c \in word /\ b < c
                       /\ Place(part, c) \in Nat /\ Part(Place(part, c)) = part /\ Bit(Place(part, c)) = c
  <2> TAKE c \in word'
  <2>1. c \in 0 .. kBitsCount - 1 /\ c \in word /\ b < c
    BY <1>1, <1>2, <1>3 DEF Words, kFullMask
  <2> QED BY <1>2, <2>1, PlaceParts
<1>6. \A c \in word' : x < Place(part, c)
  BY <1>4, <1>5, PlaceOrder
<1> HIDE DEF x
<1>7. Witnessed'
  BY <1>1 DEF WalkInv, Witnessed, Walked!Walking
<1>8. WalkTyped'
  <2>1. word' \in Words
    BY <1>1, <1>2 DEF Words
  <2> QED BY <1>1, <1>2, <2>1 DEF WalkTyped
<1>9. InWord'
  <2>1. /\ part < WalkedParts /\ \A c \in word : Place(part, c) \in ever
        /\ \A y \in steady : Part(y) < part \/ (Part(y) = part /\ Bit(y) \notin word) => Seen(visited, y)
    BY <1>1 DEF WalkInv, InWord
  <2>2. ASSUME NEW y \in steady, Part(y) = part, Bit(y) = b PROVE Seen(visited, y)
    <3>1. y \in Nat
      BY <1>2 DEF WalkTyped
    <3>2. y = x
      BY <2>2, <3>1, PartsPlace DEF x
    <3> QED BY <1>2, <3>2
  <2> QED BY <1>1, <2>1, <2>2 DEF InWord
<1>10. Ahead'
  <2>1. ASSUME NEW y \in Nat, Seen(visited, y) PROVE Part(y) <= part /\ \A c \in word' : y < Place(part, c)
    <3>1. y <= x
      BY <1>2, <2>1
    <3>2. Part(y) <= part
      <4>1. Part(y) \in Nat
        BY Division
      <4> QED BY <1>2, <1>4, <3>1, <4>1, PlaceOrder
    <3> QED BY <1>4, <1>5, <1>6, <3>1, <3>2
  <2> QED BY <1>1, <2>1 DEF Ahead
<1> QED BY <1>1, <1>7, <1>8, <1>9, <1>10 DEF WalkInv, BetweenWords, WalkOver

\* The callback returned false: the walk is over where it is.
LEMMA StopKeeps ==
  ASSUME WalkInv, component = "BitsetAdapter", UNCHANGED component, Walked!Stop
  PROVE  WalkInv'
<1>1. walk = "calling" /\ walk' = "stopped" /\ UNCHANGED <<parts_, part, word, visited, steady, ever>>
  BY DEF Walked!Stop, Walked!history
<1>2. WalkTyped'
  BY <1>1 DEF WalkInv, WalkTyped
<1>3. Witnessed'
  BY <1>1 DEF WalkInv, Witnessed, Walked!Walking
<1> QED BY <1>1, <1>2, <1>3 DEF WalkInv, BetweenWords, InWord, Ahead, WalkOver

\* Nothing is left of the copy: the next word.
LEMMA NextPartKeeps ==
  ASSUME WalkInv, component = "BitsetAdapter", UNCHANGED component, Walked!NextPart
  PROVE  WalkInv'
<1>1. /\ walk = "looking" /\ word = {} /\ walk' = "reading" /\ part' = part + 1
      /\ UNCHANGED <<parts_, word, visited, steady, ever>>
  BY DEF Walked!NextPart, Walked!history, Walked!kEmptyMask
<1>2. /\ WalkTyped /\ WalkedParts \in Nat /\ part \in Nat /\ part < WalkedParts
      /\ \A x \in steady : x \in Nat
      /\ \A x \in steady : Part(x) < part \/ Part(x) = part => Seen(visited, x)
      /\ \A x \in Nat : Seen(visited, x) => Part(x) <= part
  BY <1>1, BitsetsAssumption DEF Walked!AdapterAssumption, WalkInv, WalkTyped, InWord, Ahead
<1>3. \A x \in Nat : Part(x) \in Nat
  BY Division
<1>4. WalkTyped'
  BY <1>1, <1>2 DEF WalkTyped
<1>5. Witnessed'
  BY <1>1 DEF WalkInv, Witnessed, Walked!Walking
<1>6. BetweenWords'
  BY <1>1, <1>2, <1>3 DEF BetweenWords
<1> QED BY <1>1, <1>4, <1>5, <1>6 DEF WalkInv, InWord, Ahead, WalkOver

\* No word is left.
LEMMA EndWalkKeeps ==
  ASSUME WalkInv, component = "BitsetAdapter", UNCHANGED component, Walked!EndWalk
  PROVE  WalkInv'
<1>1. /\ walk = "reading" /\ part = WalkedParts /\ walk' = "done"
      /\ UNCHANGED <<parts_, part, word, visited, steady, ever>>
  BY DEF Walked!EndWalk, Walked!history
<1>2. WalkTyped'
  BY <1>1 DEF WalkInv, WalkTyped
<1>3. Witnessed'
  BY <1>1 DEF WalkInv, Witnessed, Walked!Walking
<1>4. \A x \in steady : Seen(visited, x)
  <2>1. \A x \in steady : Part(x) < WalkedParts
    BY BitsetsAssumption DEF Walked!AdapterAssumption, WalkInv, WalkTyped
  <2> QED BY <1>1, <2>1 DEF WalkInv, BetweenWords
<1> QED BY <1>1, <1>2, <1>3, <1>4 DEF WalkInv, BetweenWords, InWord, Ahead, WalkOver

\* The client, or the callback of a walk, writes to any of the words.
LEMMA StoreKeeps ==
  ASSUME WalkInv, UNCHANGED component, NEW parts \in ArrayOf(WalkedParts), Walked!Store(parts)
  PROVE  WalkInv'
<1>1. /\ ~Walked!Walking \/ walk = "calling"
      /\ parts_' = parts /\ UNCHANGED <<walk, part, word, visited>>
      /\ steady' = IF Walked!Walking THEN steady \cap Now(parts) ELSE steady
      /\ ever' = IF Walked!Walking THEN ever \cup Now(parts) ELSE ever
  BY WalkedWords DEF Walked!Store, Walked!cursor, Now, Walked!Size
<1>2. (\A x \in steady' : x \in steady) /\ (\A x \in ever : x \in ever')
  BY <1>1
<1>3. WalkTyped'
  BY <1>1, <1>2 DEF WalkInv, WalkTyped
<1>4. Witnessed'
  <2>1. \A x \in Nat : Seen(visited, x) => x \in ever
    BY DEF WalkInv, Witnessed
  <2>2. Walked!Walking' => (\A x \in steady' : x \in Now(parts)) /\ (\A x \in Now(parts) : x \in ever')
    BY <1>1 DEF Walked!Walking
  <2> QED BY <1>1, <1>2, <2>1, <2>2 DEF Witnessed
<1>5. BetweenWords'
  BY <1>1, <1>2 DEF WalkInv, BetweenWords
<1>6. InWord'
  BY <1>1, <1>2 DEF WalkInv, InWord
<1>7. Ahead'
  BY <1>1 DEF WalkInv, Ahead
<1>8. WalkOver'
  BY <1>1, <1>2 DEF WalkInv, WalkOver
<1> QED BY <1>3, <1>4, <1>5, <1>6, <1>7, <1>8 DEF WalkInv

\* Another component moves: no walk is on, so that the words of the wide view, which
\* share the history of the walk in this module, leave it alone.
LEMMA OthersRest ==
  ASSUME WalkInv, component # "BitsetAdapter", [Next]_vars
  PROVE  UNCHANGED <<component, view>>
<1>1. walk = "none"
  BY DEF WalkInv, WalkTyped
<1>2. ASSUME NEW parts, Wide!Store(parts) PROVE UNCHANGED <<walk, part, word, visited, steady, ever>>
  BY <1>1, <1>2 DEF Wide!Store, Wide!Walking, Wide!cursor
<1>3. Wide!Change => UNCHANGED <<walk, part, word, visited, steady, ever>>
  BY <1>2, Zenon DEF Wide!Change
<1> QED BY <1>3 DEF Next, vars, view

\* The walk's invariant holds whatever the callback does.
LEMMA WalkInvHolds == Spec => []WalkInv
<1>1. Init => WalkInv
  <2> SUFFICES ASSUME Init PROVE WalkInv
    OBVIOUS
  <2>1. /\ parts_ = [p \in 0 .. WalkedParts - 1 |-> {}] /\ walk = "none" /\ part = 0 /\ word = {}
        /\ visited = <<>> /\ steady = {} /\ ever = {} /\ WalkedParts \in Nat
    BY BitsetsAssumption DEF Init, Walked!Init, Walked!Parts, Walked!kEmptyMask, Walked!AdapterAssumption
  <2>2. parts_ \in ArrayOf(WalkedParts) /\ word \in Words
    BY <2>1 DEF ArrayOf, Words
  <2>3. \A x : ~Seen(<<>>, x)
    BY DEF Seen
  <2>4. <<>> \in Seq(Nat) /\ InOrder(<<>>)
    BY DEF InOrder
  <2>5. WalkTyped
    BY <2>1, <2>2, <2>4 DEF WalkTyped
  <2> QED BY <2>1, <2>3, <2>5 DEF WalkInv, Witnessed, BetweenWords, InWord, Ahead, WalkOver, Walked!Walking
<1>2. WalkInv /\ [Next]_vars => WalkInv'
  <2> SUFFICES ASSUME WalkInv, [Next]_vars PROVE WalkInv'
    OBVIOUS
  <2>1. ASSUME UNCHANGED <<component, view>> PROVE WalkInv'
    <3>1. UNCHANGED <<component, parts_, walk, part, word, visited, steady, ever>>
      BY <2>1 DEF view
    <3> QED BY <3>1 DEF WalkInv, WalkTyped, Witnessed, BetweenWords, InWord, Ahead, WalkOver, Walked!Walking
  <2>2. CASE component # "BitsetAdapter"
    BY <2>1, <2>2, OthersRest
  <2>3. CASE component = "BitsetAdapter" /\ ~UNCHANGED <<component, view>>
    <3>1. UNCHANGED component /\ Walked!Next
      BY <2>3, Zenon DEF Next, vars
    <3>2. CASE Walked!Change
      <4>1. PICK parts \in ArrayOf(WalkedParts) : Walked!Store(parts)
        BY <3>2, ChangeStoresWords DEF WalkInv, WalkTyped
      <4> QED BY <3>1, <4>1, StoreKeeps
    <3>3. CASE Walked!Walk
      BY <2>3, <3>1, <3>3, StartWalkKeeps, ReadWordKeeps, CallBackKeeps, ContinueKeeps, StopKeeps,
         NextPartKeeps, EndWalkKeeps DEF Walked!Walk
    <3> QED BY <3>1, <3>2, <3>3 DEF Walked!Next
  <2>4. CASE UNCHANGED <<component, view>>
    BY <2>1, <2>4
  <2> QED BY <2>2, <2>3, <2>4
<1> QED BY <1>1, <1>2, PTL DEF Spec

\* ForEachBit visits the bits lowest first, each at most once, whatever its callback
\* writes to the words; a walk that is not stopped visits every bit that stayed set
\* throughout, and no bit that never was.
THEOREM WalksVisitTheSetBits == Spec => []VisitsTheSetBits
<1>1. WalkInv => VisitsTheSetBits
  <2> SUFFICES ASSUME WalkInv PROVE Walked!LowestFirst /\ Walked!VisitsTheSetBits
    BY DEF VisitsTheSetBits
  <2>1. Walked!LowestFirst
    BY DEF WalkInv, WalkTyped, InOrder, Walked!LowestFirst
  <2>2. \A i \in DOMAIN visited : visited[i] \in Nat /\ Seen(visited, visited[i])
    BY DEF WalkInv, WalkTyped, Seen
  <2>3. \A i \in DOMAIN visited : visited[i] \in ever
    BY <2>2 DEF WalkInv, Witnessed
  <2>4. walk = "done" => \A x \in steady : \E i \in DOMAIN visited : visited[i] = x
    BY DEF WalkInv, WalkOver, Seen
  <2> QED BY <2>1, <2>3, <2>4 DEF Walked!VisitsTheSetBits
<1> QED BY <1>1, WalkInvHolds, PTL

-----------------------------------------------------------------------------
(* DynamicBitset, which is Dynamic in Bitsets.                             *)

\* The operators it is built from are those of BitWords.
LEMMA DynamicWords ==
  ASSUME NEW parts, NEW b, NEW e, NEW v
  PROVE  /\ Dynamic!SetRange(parts, b, e, v) = SetRange(parts, b, e, v)
         /\ Dynamic!Set(parts, b, v) = Set(parts, b, v)
         /\ Dynamic!Get(parts, b) = Get(parts, b)
         /\ Dynamic!Words = Words
<1> USE DEF Dynamic!Words, Words, Dynamic!kFullMask, kFullMask, Dynamic!kEmptyMask, kEmptyMask, Dynamic!Part, Part,
            Dynamic!Bit, Bit, Dynamic!InRange, InRange, Dynamic!Xor, Xor, Dynamic!IntIf, IntIf,
            Dynamic!LeftShifted, LeftShifted, Dynamic!RightShifted, RightShifted,
            Dynamic!SetWordMasked, SetWordMasked, Dynamic!SetWordRange, SetWordRange
<1>1. Dynamic!Words = Words
  OBVIOUS
<1>2. Dynamic!Get(parts, b) = Get(parts, b)
  BY Zenon DEF Dynamic!Get, Get
<1>3. Dynamic!Set(parts, b, v) = Set(parts, b, v)
  BY Zenon DEF Dynamic!Set, Set
<1>4. Dynamic!SetRange(parts, b, e, v) = SetRange(parts, b, e, v)
  BY Zenon DEF Dynamic!SetRange, SetRange, Dynamic!SpansWords, SpansWords
<1> QED BY <1>1, <1>2, <1>3, <1>4

\* The words are as many as the size needs.
LEMMA PartsForSize ==
  ASSUME NEW size \in Nat
  PROVE  /\ Dynamic!PartsFor(size) \in Nat
         /\ size <= Dynamic!PartsFor(size) * kBitsCount
         /\ \A i \in Nat : i < size => Part(i) < Dynamic!PartsFor(size)
<1> DEFINE n == Dynamic!PartsFor(size)
<1>1. /\ Part(size) \in Nat /\ Bit(size) \in 0 .. kBitsCount - 1
      /\ n = Part(size) + (IF Bit(size) # 0 THEN 1 ELSE 0)
  BY Division DEF Dynamic!PartsFor, Part, Bit
<1> HIDE DEF n
<1>2. n \in Nat /\ (Part(size) < n \/ (Part(size) = n /\ Bit(size) = 0))
  BY <1>1
<1>3. /\ n * kBitsCount \in Nat /\ Part(n * kBitsCount) = n /\ Bit(n * kBitsCount) = 0
      /\ \A x \in Nat : x < n * kBitsCount <=> Part(x) < n
  BY <1>2, ArrayEnds
<1> DEFINE all == n * kBitsCount
<1> HIDE DEF all
<1>4. all \in Nat /\ Part(all) = n /\ Bit(all) = 0 /\ \A x \in Nat : x < all <=> Part(x) < n
  BY <1>3 DEF all
<1>5. size <= all
  <2>1. all < size <=> Part(all) < Part(size) \/ (Part(all) = Part(size) /\ Bit(all) < Bit(size))
    BY <1>4, PlaceOrder
  <2> QED BY <1>1, <1>2, <1>4, <2>1
<1> QED BY <1>2, <1>4, <1>5 DEF n, all

\* What a size is stands for the number of the words, and the vector for the bits.
DynamicInv ==
  /\ MaxSize \in Nat
  /\ size_ \in 0 .. MaxSize
  /\ words \in ArrayOf(Dynamic!PartsFor(size_))

\* What the bitset reads as.
Reads(parts, size) == [i \in 0 .. size - 1 |-> Dynamic!Get(parts, i)]

\* It has as many elements as it has bits, though Length counts the elements of the
\* function.
LEMMA LengthIsSize ==
  ASSUME NEW parts, NEW size \in Nat
  PROVE  Dynamic!Vector!Length(Reads(parts, size)) = size
<1> DEFINE d == 0 .. size - 1
<1>1. DOMAIN Reads(parts, size) = d
  BY DEF Reads
<1>2. CASE size = 0
  <2>1. d = {}
    BY <1>2
  <2> QED BY <1>1, <1>2, <2>1 DEF Dynamic!Vector!Length
<1>3. CASE size # 0
  <2>1. size - 1 \in d /\ size - 1 + 1 \notin d
    BY <1>3
  <2>2. \A i \in d : i + 1 \notin d => i = size - 1
    OBVIOUS
  <2> DEFINE last == CHOOSE i \in d : i + 1 \notin d
  <2>3. last = size - 1
    BY <2>1, <2>2
  <2>4. Dynamic!Vector!Length(Reads(parts, size)) = 1 + last
    BY <1>1, <2>1 DEF Dynamic!Vector!Length
  <2> HIDE DEF last
  <2> QED BY <2>3, <2>4
<1> QED BY <1>2, <1>3

\* What is read with the range assigned.
Overwritten(bits, size, b, e, v) == [i \in 0 .. size - 1 |-> IF b <= i /\ i < e THEN v ELSE bits[i]]

\* What a range assigned to the words does to what they read as.
LEMMA RangeReads ==
  ASSUME NEW size \in Nat, NEW parts \in ArrayOf(Dynamic!PartsFor(size)), NEW v \in BOOLEAN,
         NEW b \in 0 .. size, NEW e \in 0 .. size
  PROVE  /\ Dynamic!SetRange(parts, b, e, v) \in ArrayOf(Dynamic!PartsFor(size))
         /\ Reads(Dynamic!SetRange(parts, b, e, v), size) = Overwritten(Reads(parts, size), size, b, e, v)
<1> DEFINE n == Dynamic!PartsFor(size)
           new == SetRange(parts, b, e, v)
<1>1. n \in Nat /\ size <= n * kBitsCount /\ \A i \in Nat : i < size => Part(i) < n
  BY PartsForSize
<1>2. n * kBitsCount \in Nat
  BY <1>1, WordAssumption
<1>3. b \in Nat /\ e \in Nat /\ b \in 0 .. n * kBitsCount /\ e \in 0 .. n * kBitsCount
  BY <1>1, <1>2
<1> HIDE DEF n
<1>4. parts \in ArrayOf(n)
  BY DEF n
<1>5. /\ Part(b) < n \/ b >= e
      /\ Part(e) <= n /\ (Part(e) = n => Bit(e) = 0)
      /\ new \in ArrayOf(n)
  BY <1>1, <1>3, <1>4, RangeStaysInside
<1>6. new = Dynamic!SetRange(parts, b, e, v)
  BY DynamicWords
<1>7. ASSUME NEW i \in 0 .. size - 1
      PROVE  Get(new, i) <=> IF b <= i /\ i < e THEN v ELSE Get(parts, i)
  <2>1. i \in Nat /\ Part(i) < n
    BY <1>1
  <2>2. Bit(i) \in new[Part(i)] <=> IF b <= i /\ i < e THEN v ELSE Bit(i) \in parts[Part(i)]
    BY <1>1, <1>3, <1>4, <1>5, <2>1, SetRangeAssignsBit
  <2> HIDE DEF new
  <2>3. Get(new, i) <=> Bit(i) \in new[Part(i)]
    BY <1>1, <1>5, <2>1, GetReads
  <2>4. Get(parts, i) <=> Bit(i) \in parts[Part(i)]
    BY <1>1, <1>4, <2>1, GetReads
  <2> QED BY <2>2, <2>3, <2>4
<1> HIDE DEF new
<1>8. ASSUME NEW i \in 0 .. size - 1
      PROVE  Dynamic!Get(new, i) = IF b <= i /\ i < e THEN v ELSE Dynamic!Get(parts, i)
  <2>1. Dynamic!Get(new, i) = Get(new, i) /\ Dynamic!Get(parts, i) = Get(parts, i)
    BY DynamicWords
  <2>2. Get(new, i) \in BOOLEAN /\ Get(parts, i) \in BOOLEAN
    BY DEF Get
  <2>3. Get(new, i) = IF b <= i /\ i < e THEN v ELSE Get(parts, i)
    BY <1>7, <2>2
  <2> QED BY <2>1, <2>3
<1>9. Reads(new, size) = Overwritten(Reads(parts, size), size, b, e, v)
  BY <1>8 DEF Reads, Overwritten
<1> QED BY <1>5, <1>6, <1>9 DEF n

\* vector::resize keeps what remains.
LEMMA ResizedReads ==
  ASSUME NEW size \in Nat, NEW parts \in ArrayOf(Dynamic!PartsFor(size)), NEW other \in Nat
  PROVE  /\ Dynamic!Resized(parts, Dynamic!PartsFor(other)) \in ArrayOf(Dynamic!PartsFor(other))
         /\ \A i \in 0 .. other - 1 :
              i < size => Dynamic!Get(Dynamic!Resized(parts, Dynamic!PartsFor(other)), i) = Dynamic!Get(parts, i)
<1> DEFINE n == Dynamic!PartsFor(size)
           m == Dynamic!PartsFor(other)
           new == Dynamic!Resized(parts, m)
<1>1. n \in Nat /\ \A i \in Nat : i < size => Part(i) < n
  BY PartsForSize
<1>2. m \in Nat /\ \A i \in Nat : i < other => Part(i) < m
  BY PartsForSize
<1>3. parts \in ArrayOf(n)
  OBVIOUS
<1> HIDE DEF n, m
<1>4. new = [p \in 0 .. m - 1 |-> IF p \in 0 .. n - 1 THEN parts[p] ELSE {}]
  BY <1>3 DEF Dynamic!Resized, Dynamic!kEmptyMask, ArrayOf
<1>5. new \in ArrayOf(m)
  BY <1>3, <1>4 DEF ArrayOf, Words
<1> HIDE DEF new
<1>6. ASSUME NEW i \in 0 .. other - 1, i < size
      PROVE  Dynamic!Get(new, i) = Dynamic!Get(parts, i)
  <2>1. i \in Nat /\ Part(i) < n /\ Part(i) < m /\ Part(i) \in Nat
    BY <1>1, <1>2, <1>6, Division
  <2>2. new[Part(i)] = parts[Part(i)]
    BY <1>1, <1>2, <1>4, <2>1
  <2>3. Get(new, i) = Get(parts, i)
    BY <2>2 DEF Get
  <2> QED BY <2>3, DynamicWords
<1> QED BY <1>5, <1>6 DEF new, m

\* Resizing keeps what remains and gives what is new the value asked for, stale bits
\* behind the old end too.
LEMMA ResizeImplements ==
  ASSUME DynamicInv, NEW v \in BOOLEAN, NEW size \in 0 .. MaxSize, Dynamic!Resize(size, v)
  PROVE  DynamicInv' /\ Dynamic!Vector!Resize(size, v)
<1> DEFINE m == Dynamic!PartsFor(size)
           resized == Dynamic!Resized(words, m)
<1>1. size \in Nat /\ size_ \in Nat
  BY DEF DynamicInv
<1>2. /\ request' = <<"resize", size, v>> /\ size_' = size
      /\ words' = IF size > size_ THEN Dynamic!SetRange(resized, size_, size, v) ELSE resized
  BY Zenon DEF Dynamic!Resize
<1>3. /\ resized \in ArrayOf(m)
      /\ \A i \in 0 .. size - 1 : i < size_ => Dynamic!Get(resized, i) = Dynamic!Get(words, i)
  BY <1>1, ResizedReads DEF DynamicInv
<1> HIDE DEF resized
<1>4. CASE size > size_
  <2>1. size_ \in 0 .. size /\ size \in 0 .. size
    BY <1>1, <1>4
  <2> DEFINE new == Dynamic!SetRange(resized, size_, size, v)
  <2>a. /\ new \in ArrayOf(m)
        /\ Reads(new, size) = Overwritten(Reads(resized, size), size, size_, size, v)
    BY <1>1, <1>3, <2>1, RangeReads
  <2>b. words' = new
    BY <1>2, <1>4
  <2> HIDE DEF new
  <2>2. words' \in ArrayOf(m)
    BY <2>a, <2>b
  <2>3. Reads(words', size) = [i \in 0 .. size - 1 |-> IF size_ <= i /\ i < size THEN v ELSE Reads(resized, size)[i]]
    BY <2>a, <2>b DEF Overwritten
  <2>4. Reads(words', size) = [i \in 0 .. size - 1 |-> IF i \in 0 .. size_ - 1 THEN Reads(words, size_)[i] ELSE v]
    <3>1. ASSUME NEW i \in 0 .. size - 1
          PROVE  (IF size_ <= i /\ i < size THEN v ELSE Reads(resized, size)[i])
                    = IF i \in 0 .. size_ - 1 THEN Reads(words, size_)[i] ELSE v
      <4>1. CASE i < size_
        BY <1>1, <1>3, <4>1 DEF Reads
      <4>2. CASE ~(i < size_)
        BY <1>1, <4>2
      <4> QED BY <4>1, <4>2
    <3> QED BY <2>3, <3>1
  <2> QED BY <1>1, <1>2, <2>2, <2>4 DEF DynamicInv, Dynamic!Vector!Resize, Reads
<1>5. CASE ~(size > size_)
  <2>1. words' \in ArrayOf(m)
    BY <1>2, <1>3, <1>5
  <2>2. Reads(words', size) = [i \in 0 .. size - 1 |-> IF i \in 0 .. size_ - 1 THEN Reads(words, size_)[i] ELSE v]
    BY <1>1, <1>2, <1>3, <1>5 DEF Reads
  <2> QED BY <1>1, <1>2, <2>1, <2>2 DEF DynamicInv, Dynamic!Vector!Resize, Reads
<1> QED BY <1>4, <1>5

\* A range in bounds is assigned, and nothing else.
LEMMA SetBitsImplements ==
  ASSUME DynamicInv, NEW v \in BOOLEAN, NEW begin \in 0 .. size_, NEW end \in 0 .. size_,
         Dynamic!SetBits(begin, end, v)
  PROVE  /\ DynamicInv'
         /\ begin \in 0 .. size_ - 1 /\ end \in begin .. size_
         /\ Dynamic!Vector!SetRange(begin, end, v)
<1>0. begin <= end /\ begin < size_ /\ end <= size_
  BY DEF Dynamic!SetBits
<1>1. /\ request' = <<"set range", begin, end, v>> /\ UNCHANGED size_
      /\ words' = Dynamic!SetRange(words, begin, end, v)
  BY DEF Dynamic!SetBits
<1>2. size_ \in Nat /\ words \in ArrayOf(Dynamic!PartsFor(size_))
  BY DEF DynamicInv
<1> DEFINE new == Dynamic!SetRange(words, begin, end, v)
<1>3. /\ new \in ArrayOf(Dynamic!PartsFor(size_))
      /\ Reads(new, size_) = Overwritten(Reads(words, size_), size_, begin, end, v)
  BY <1>2, RangeReads
<1>a. words' = new
  BY <1>1
<1> HIDE DEF new
<1>b. DynamicInv'
  BY <1>1, <1>3, <1>a DEF DynamicInv
<1>c. Reads(words', size_') = [i \in 0 .. size_ - 1 |-> IF begin <= i /\ i < end THEN v ELSE Reads(words, size_)[i]]
  BY <1>1, <1>3, <1>a DEF Overwritten
<1>4. DOMAIN Reads(words, size_) = 0 .. size_ - 1
  BY DEF Reads
<1>d. Dynamic!Vector!SetRange(begin, end, v)
  BY <1>1, <1>4, <1>c DEF Dynamic!Vector!SetRange, Reads
<1>e. begin \in 0 .. size_ - 1 /\ end \in begin .. size_
  BY <1>0, <1>2
<1> QED BY <1>b, <1>d, <1>e

\* So is a bit.
LEMMA SetBitImplements ==
  ASSUME DynamicInv, NEW v \in BOOLEAN, NEW index \in 0 .. size_ - 1, Dynamic!SetBit(index, v)
  PROVE  DynamicInv' /\ Dynamic!Vector!Set(index, v)
<1>1. request' = <<"set", index, v>> /\ UNCHANGED size_ /\ words' = Dynamic!Set(words, index, v)
  BY DEF Dynamic!SetBit
<1>2. /\ size_ \in Nat /\ words \in ArrayOf(Dynamic!PartsFor(size_))
      /\ index \in Nat /\ index \in 0 .. size_ /\ index + 1 \in 0 .. size_ /\ index < size_
  BY DEF DynamicInv
<1>3. Dynamic!PartsFor(size_) \in Nat /\ Part(index) < Dynamic!PartsFor(size_)
  BY <1>2, PartsForSize
<1>4. words' = Dynamic!SetRange(words, index, index + 1, v)
  <2>1. Set(words, index, v) = SetRange(words, index, index + 1, v)
    BY <1>2, <1>3, SetIsRange
  <2> QED BY <1>1, <2>1, DynamicWords
<1> DEFINE new == Dynamic!SetRange(words, index, index + 1, v)
<1>a. /\ new \in ArrayOf(Dynamic!PartsFor(size_))
      /\ Reads(new, size_) = Overwritten(Reads(words, size_), size_, index, index + 1, v)
  BY <1>2, RangeReads
<1> HIDE DEF new
<1>5. /\ words' \in ArrayOf(Dynamic!PartsFor(size_))
      /\ Reads(words', size_)
           = [i \in 0 .. size_ - 1 |-> IF index <= i /\ i < index + 1 THEN v ELSE Reads(words, size_)[i]]
  BY <1>4, <1>a DEF new, Overwritten
<1>6. Reads(words', size_) = [Reads(words, size_) EXCEPT ![index] = v]
  <2>1. DOMAIN Reads(words, size_) = 0 .. size_ - 1
    BY DEF Reads
  <2>2. \A i \in 0 .. size_ - 1 : index <= i /\ i < index + 1 <=> i = index
    BY <1>2
  <2> QED BY <1>5, <2>1, <2>2
<1> QED BY <1>1, <1>2, <1>5, <1>6 DEF DynamicInv, Dynamic!Vector!Set, Reads

LEMMA ClearImplements ==
  ASSUME DynamicInv, Dynamic!Clear
  PROVE  DynamicInv' /\ Dynamic!Vector!Clear
<1>1. request' = <<"clear">> /\ size_' = 0 /\ words' = [p \in {} |-> {}]
  BY DEF Dynamic!Clear, Dynamic!NoParts, Dynamic!kEmptyMask
<1>2. Dynamic!PartsFor(0) = 0
  BY WordAssumption DEF Dynamic!PartsFor
<1>3. 0 .. 0 - 1 = {} /\ 0 \in 0 .. MaxSize
  BY DEF DynamicInv
<1>4. DynamicInv'
  BY <1>1, <1>2, <1>3 DEF DynamicInv, ArrayOf
<1>5. Reads(words', 0) = [i \in {} |-> FALSE]
  BY <1>3 DEF Reads
<1> QED BY <1>1, <1>4, <1>5 DEF Dynamic!Vector!Clear, Reads

\* Every step of DynamicBitset is one of the vector.
LEMMA DynamicStep ==
  ASSUME DynamicInv, Dynamic!Next
  PROVE  DynamicInv' /\ Dynamic!Vector!Next
<1>0. /\ size_ \in Nat /\ Dynamic!Vector!Length(Reads(words, size_)) = size_
      /\ DOMAIN Reads(words, size_) = 0 .. size_ - 1
  BY LengthIsSize DEF DynamicInv, Reads
<1>1. PICK v \in BOOLEAN :
        \/ \E size \in 0 .. MaxSize : Dynamic!Resize(size, v) \/ Dynamic!ResizeFails(size, v)
        \/ Dynamic!Clear
        \/ \E index \in 0 .. size_ - 1 : Dynamic!SetBit(index, v)
        \/ \E begin, end \in 0 .. size_ : Dynamic!SetBits(begin, end, v)
  BY Zenon DEF Dynamic!Next
<1>2. ASSUME NEW size \in 0 .. MaxSize, Dynamic!Resize(size, v)
      PROVE  DynamicInv' /\ Dynamic!Vector!Next
  BY <1>2, ResizeImplements DEF Dynamic!Vector!Next
<1>3. ASSUME NEW size \in 0 .. MaxSize, Dynamic!ResizeFails(size, v)
      PROVE  DynamicInv' /\ Dynamic!Vector!Next
  <2>1. size > size_ /\ request' = <<"resize fails", size, v>> /\ UNCHANGED <<words, size_>>
    BY <1>3 DEF Dynamic!ResizeFails
  <2>2. DynamicInv'
    BY <2>1 DEF DynamicInv
  <2>3. Dynamic!Vector!ResizeFails(size, v)
    BY <1>0, <2>1 DEF Dynamic!Vector!ResizeFails, Reads
  <2> QED BY <2>2, <2>3 DEF Dynamic!Vector!Next
<1>4. CASE Dynamic!Clear
  BY <1>4, ClearImplements DEF Dynamic!Vector!Next
<1>5. ASSUME NEW index \in 0 .. size_ - 1, Dynamic!SetBit(index, v)
      PROVE  DynamicInv' /\ Dynamic!Vector!Next
  <2>1. DynamicInv' /\ Dynamic!Vector!Set(index, v)
    BY <1>5, SetBitImplements
  <2>2. index \in DOMAIN Reads(words, size_)
    BY <1>0
  <2> QED BY <2>1, <2>2 DEF Dynamic!Vector!Next, Reads
<1>6. ASSUME NEW begin \in 0 .. size_, NEW end \in 0 .. size_, Dynamic!SetBits(begin, end, v)
      PROVE  DynamicInv' /\ Dynamic!Vector!Next
  <2>1. /\ DynamicInv' /\ Dynamic!Vector!SetRange(begin, end, v)
        /\ begin \in DOMAIN Reads(words, size_) /\ end \in begin .. Dynamic!Vector!Length(Reads(words, size_))
    BY <1>0, <1>6, SetBitsImplements
  <2> QED BY <2>1 DEF Dynamic!Vector!Next, Reads
<1> QED BY <1>1, <1>2, <1>3, <1>4, <1>5, <1>6

\* Whatever is shrunk, grown, cleared and assigned, for any width of the words and any
\* sizes, and also when memory runs out, DynamicBitset is the vector of Booleans that
\* was asked for: it implements BitVector.
THEOREM DynamicImplementsVector == Spec => ImplementsBitVector
<1>1. Init => DynamicInv /\ Dynamic!Vector!Init
  <2> SUFFICES ASSUME Init PROVE DynamicInv /\ Dynamic!Vector!Init
    OBVIOUS
  <2>1. size_ = 0 /\ words = [p \in {} |-> {}] /\ request = <<"construct">> /\ MaxSize \in Nat
    BY BitsetsAssumption DEF Init, Dynamic!Init, Dynamic!NoParts, Dynamic!kEmptyMask, Dynamic!SizeAssumption
  <2>2. Dynamic!PartsFor(0) = 0 /\ 0 .. 0 - 1 = {}
    BY WordAssumption DEF Dynamic!PartsFor
  <2>3. DynamicInv
    BY <2>1, <2>2 DEF DynamicInv, ArrayOf
  <2>4. Reads(words, size_) = [i \in {} |-> FALSE]
    BY <2>1, <2>2 DEF Reads
  <2> QED BY <2>1, <2>3, <2>4 DEF Dynamic!Vector!Init, Reads
<1>2. DynamicInv /\ [Next]_vars => DynamicInv' /\ [Dynamic!Vector!Next]_(Dynamic!Vector!vars)
  <2> SUFFICES ASSUME DynamicInv, [Next]_vars PROVE DynamicInv' /\ [Dynamic!Vector!Next]_(Dynamic!Vector!vars)
    OBVIOUS
  <2>1. CASE Dynamic!Next
    BY <2>1, DynamicStep
  <2>2. CASE UNCHANGED dynamic
    <3>1. UNCHANGED <<words, size_, request>>
      BY <2>2 DEF dynamic
    <3> QED BY <3>1 DEF DynamicInv, Dynamic!Vector!vars
  <2> QED BY <2>1, <2>2 DEF Next, vars
<1> QED BY <1>1, <1>2, PTL DEF Spec, ImplementsBitVector, Dynamic!ImplementsBitVector, Dynamic!Vector!Spec
-----------------------------------------------------------------------------
(* FixedBitset, which is Fixed in Bitsets.                                 *)

\* What is proved of words of kBitsCount bits, of those of FixedBitset.
FixedWords == INSTANCE BitWordsProofs WITH kBitsCount <- Fixed!PartBits

\* A quotient that is rounded up is the least that reaches the dividend.
LEMMA CeilDivIsLeast ==
  ASSUME NEW n \in Nat, NEW d \in Nat \ {0}
  PROVE  /\ Fixed!CeilDiv(n, d) \in Nat
         /\ n <= d * Fixed!CeilDiv(n, d) /\ d * Fixed!CeilDiv(n, d) < n + d
         /\ \A q \in Nat : n <= d * q /\ d * q < n + d => Fixed!CeilDiv(n, d) = q
<1> DEFINE c == Fixed!CeilDiv(n, d)
           f == n \div d
           r == n % d
<1>1. f \in Nat /\ r \in 0 .. d - 1 /\ n = d * f + r
  OBVIOUS
<1>2. c = IF r # 0 THEN f + 1 ELSE f
  BY <1>1 DEF Fixed!CeilDiv
<1>3. d * f \in Nat /\ d * (f + 1) = d * f + d
  BY <1>1
<1> HIDE DEF c, f, r
<1>4. c \in Nat /\ n <= d * c /\ d * c < n + d
  <2>1. CASE r # 0
    BY <1>1, <1>2, <1>3, <2>1
  <2>2. CASE r = 0
    BY <1>1, <1>2, <1>3, <2>2
  <2> QED BY <2>1, <2>2
<1>5. ASSUME NEW p \in Nat, NEW q \in Nat, p < q PROVE d * q >= d * p + d
  <2>1. PICK s \in Nat : q = p + 1 + s
    <3>1. q - p - 1 \in Nat /\ q = p + 1 + (q - p - 1)
      BY <1>5
    <3> QED BY <3>1
  <2>2. d * q = d * p + d + d * s
    BY <2>1
  <2>3. d * s \in Nat /\ d * p \in Nat
    OBVIOUS
  <2> QED BY <2>2, <2>3
<1>6. ASSUME NEW q \in Nat, n <= d * q, d * q < n + d PROVE c = q
  <2>1. d * q \in Nat /\ d * c \in Nat
    BY <1>4
  <2>2. c < q => d * q >= d * c + d
    BY <1>4, <1>5
  <2>3. q < c => d * c >= d * q + d
    BY <1>4, <1>5
  <2> QED BY <1>4, <1>6, <2>1, <2>2, <2>3
<1> QED BY <1>4, <1>6 DEF c

\* The operators of FixedBitset are those of FixedWords.
LEMMA SameFixedWords ==
  ASSUME NEW parts, NEW b, NEW e, NEW v
  PROVE  /\ Fixed!Word!SetRange(parts, b, e, v) = FixedWords!SetRange(parts, b, e, v)
         /\ Fixed!Word!Set(parts, b, v) = FixedWords!Set(parts, b, v)
         /\ Fixed!Word!Get(parts, b) = FixedWords!Get(parts, b)
         /\ Fixed!Word!Words = FixedWords!Words
<1> USE DEF Fixed!Word!Words, FixedWords!Words, Fixed!Word!kFullMask, FixedWords!kFullMask,
            Fixed!Word!kEmptyMask, FixedWords!kEmptyMask, Fixed!Word!Part, FixedWords!Part,
            Fixed!Word!Bit, FixedWords!Bit, Fixed!Word!InRange, FixedWords!InRange, Fixed!Word!Xor, FixedWords!Xor,
            Fixed!Word!IntIf, FixedWords!IntIf, Fixed!Word!LeftShifted, FixedWords!LeftShifted,
            Fixed!Word!RightShifted, FixedWords!RightShifted, Fixed!Word!SetWordMasked, FixedWords!SetWordMasked,
            Fixed!Word!SetWordRange, FixedWords!SetWordRange
<1>1. Fixed!Word!Words = FixedWords!Words
  OBVIOUS
<1>2. Fixed!Word!Get(parts, b) = FixedWords!Get(parts, b)
  BY Zenon DEF Fixed!Word!Get, FixedWords!Get
<1>3. Fixed!Word!Set(parts, b, v) = FixedWords!Set(parts, b, v)
  BY Zenon DEF Fixed!Word!Set, FixedWords!Set
<1>4. Fixed!Word!SetRange(parts, b, e, v) = FixedWords!SetRange(parts, b, e, v)
  BY Zenon DEF Fixed!Word!SetRange, FixedWords!SetRange, Fixed!Word!SpansWords, FixedWords!SpansWords
<1> QED BY <1>1, <1>2, <1>3, <1>4
\* The word types that waste nothing have a widest, which is the one taken.
LEMMA BestPart ==
  ASSUME NEW bytes \in Nat
  PROVE  LET chosen == Fixed!BiggestPartTypeWithNoWaste_Bytes(bytes)
         IN  /\ chosen \in AllParts /\ Fixed!WastedSpace(bytes, chosen) = 0
             /\ \A other \in AllParts : Fixed!WastedSpace(bytes, other) = 0 => chosen >= other
<1> DEFINE waste(p) == Fixed!WastedSpace(bytes, p)
           best(p) == \A other \in AllParts : \/ waste(p) < waste(other)
                                              \/ waste(p) = waste(other) /\ p >= other
           none == {p \in AllParts : waste(p) = 0}
           less == {pair \in Nat \X Nat : pair[1] < pair[2]}
<1>1. /\ AllParts \subseteq Nat \ {0} /\ 1 \in AllParts
      /\ \E widest \in AllParts : \A chosen \in AllParts : chosen <= widest
  BY BitsetsAssumption DEF Fixed!FixedAssumption
<1>2. ASSUME NEW p \in AllParts PROVE waste(p) \in Nat
  <2>1. Fixed!CeilDiv(bytes, p) \in Nat /\ bytes <= p * Fixed!CeilDiv(bytes, p)
    BY <1>1, CeilDivIsLeast
  <2>2. p * Fixed!CeilDiv(bytes, p) = Fixed!CeilDiv(bytes, p) * p /\ p * Fixed!CeilDiv(bytes, p) \in Nat
    BY <1>1, <2>1
  <2> QED BY <2>1, <2>2 DEF Fixed!WastedSpace
<1>3. waste(1) = 0
  <2>1. Fixed!CeilDiv(bytes, 1) = bytes
    BY CeilDivIsLeast
  <2> QED BY <2>1 DEF Fixed!WastedSpace
<1> HIDE DEF waste
<1>4. PICK widest \in Nat : \A chosen \in AllParts : chosen <= widest
  BY <1>1
<1> DEFINE short == {n \in Nat : \E p \in none : p + n = widest}
<1>5. PICK n \in short : \A m \in short : <<m, n>> \notin less
  <2>1. IsWellFoundedOn(less, Nat)
    BY NatLessThanWellFounded DEF OpToRel
  <2>2. short \subseteq Nat /\ short # {}
    <3>1. 1 \in none /\ widest - 1 \in Nat /\ 1 + (widest - 1) = widest
      BY <1>1, <1>3, <1>4
    <3>2. widest - 1 \in short
      BY <3>1
    <3> QED BY <3>2
  <2> HIDE DEF less, short
  <2> QED BY <2>1, <2>2, WFMin
<1>6. PICK p \in none : p + n = widest
  BY <1>5
<1>7. \A q \in none : p >= q
  <2> TAKE q \in none
  <2>1. q \in Nat /\ p \in Nat /\ q <= widest
    BY <1>1, <1>4
  <2>2. widest - q \in Nat /\ q + (widest - q) = widest
    BY <1>4, <2>1
  <2>3. widest - q \in short
    BY <2>2
  <2>4. ~(widest - q < n)
    BY <1>5, <2>2, <2>3
  <2> QED BY <1>4, <1>5, <1>6, <2>1, <2>4
<1>8. best(p)
  <2> TAKE other \in AllParts
  <2>1. waste(p) = 0 /\ waste(other) \in Nat
    BY <1>2, <1>6
  <2>2. waste(other) = 0 => p >= other
    BY <1>7
  <2> QED BY <2>1, <2>2
<1> DEFINE chosen == CHOOSE q \in AllParts : best(q)
<1>9. chosen \in AllParts /\ best(chosen)
  BY <1>6, <1>8
<1> HIDE DEF best
<1>10. chosen = Fixed!BiggestPartTypeWithNoWaste_Bytes(bytes)
  BY Zenon DEF Fixed!BiggestPartTypeWithNoWaste_Bytes, best, waste
<1> HIDE DEF chosen
<1>11. waste(chosen) = 0 /\ \A other \in AllParts : waste(other) = 0 => chosen >= other
  <2>1. waste(chosen) \in Nat /\ (waste(chosen) < waste(1) \/ waste(chosen) = waste(1))
    BY <1>1, <1>2, <1>9 DEF best
  <2>2. waste(chosen) = 0
    BY <1>3, <2>1
  <2>3. ASSUME NEW other \in AllParts, waste(other) = 0 PROVE chosen >= other
    BY <1>9, <2>2, <2>3 DEF best
  <2> QED BY <2>2, <2>3
<1> QED BY <1>9, <1>10, <1>11 DEF waste

\* The array is as long as the bytes of the bits, for every number of bits, and no wider
\* word would be.
LEMMA NoByteIsWasted == Fixed!NoWaste
<1> SUFFICES ASSUME NEW bits \in 1 .. Fixed!Bound
             PROVE  LET bytes == Fixed!BytesRequiredForBitset(bits)
                        chosen == Fixed!BiggestPartTypeWithNoWaste_Bytes(bytes)
                    IN  /\ chosen * Fixed!CeilDiv(bits, BitsPerByte * chosen) = bytes
                        /\ \A other \in AllParts : other > chosen => bytes % other # 0
  BY Zenon DEF Fixed!NoWaste
<1> DEFINE bytes == Fixed!BytesRequiredForBitset(bits)
           width == Fixed!BiggestPartTypeWithNoWaste_Bytes(bytes)
           q == Fixed!CeilDiv(bytes, width)
<1>1. bits \in Nat /\ BitsPerByte \in Nat \ {0} /\ AllParts \subseteq Nat \ {0}
  BY BitsetsAssumption DEF Fixed!FixedAssumption
<1>2. bytes \in Nat /\ bits <= BitsPerByte * bytes /\ BitsPerByte * bytes < bits + BitsPerByte
  BY <1>1, CeilDivIsLeast DEF Fixed!BytesRequiredForBitset
<1> HIDE DEF bytes
<1>3. /\ width \in AllParts /\ Fixed!WastedSpace(bytes, width) = 0
      /\ \A other \in AllParts : Fixed!WastedSpace(bytes, other) = 0 => width >= other
  BY <1>2, BestPart
<1> HIDE DEF width
<1>a. width \in AllParts
  BY <1>3
<1>b. width \in Nat /\ width >= 1
  <2>1. AllParts \subseteq Nat \ {0}
    BY <1>1
  <2> QED BY <1>a, <2>1
<1>4. q \in Nat
  BY <1>1, <1>2, <1>3, CeilDivIsLeast
<1>5. q * width = bytes
  <2>1. q * width - bytes = 0
    BY <1>3 DEF Fixed!WastedSpace
  <2>2. q * width \in Nat
    BY <1>4, <1>b
  <2> HIDE DEF q
  <2> QED BY <1>2, <2>1, <2>2
<1> HIDE DEF q
<1>6. Fixed!CeilDiv(bits, BitsPerByte * width) = q
  <2> DEFINE d == BitsPerByte * width
  <2>1. d \in Nat \ {0} /\ BitsPerByte <= d
    <3>2. PICK r \in Nat : width = r + 1
      <4>1. width - 1 \in Nat /\ width = width - 1 + 1
        BY <1>b
      <4> QED BY <4>1
    <3>3. d = BitsPerByte * r + BitsPerByte /\ BitsPerByte * r \in Nat
      BY <1>1, <3>2
    <3> QED BY <1>1, <3>3
  <2>2. d * q = BitsPerByte * bytes
    <3>1. width \in Nat
      BY <1>1, <1>3
    <3>2. d * q = BitsPerByte * (q * width)
      BY <1>1, <1>4, <3>1
    <3> QED BY <1>5, <3>2
  <2>3. BitsPerByte * bytes \in Nat
    BY <1>1, <1>2
  <2> HIDE DEF d
  <2>4. bits <= d * q /\ d * q < bits + d
    BY <1>1, <1>2, <2>1, <2>2, <2>3
  <2>5. Fixed!CeilDiv(bits, d) = q
    BY <1>1, <1>4, <2>1, <2>4, CeilDivIsLeast
  <2> QED BY <2>5 DEF d
<1>7. width * q = bytes
  <2>1. width \in Nat
    BY <1>1, <1>3
  <2> QED BY <1>4, <1>5, <2>1
<1>8. ASSUME NEW other \in AllParts, other > width, bytes % other = 0 PROVE FALSE
  <2>1. other \in Nat \ {0} /\ width \in Nat
    BY <1>1, <1>3
  <2>2. bytes = other * (bytes \div other) /\ bytes \div other \in Nat
    BY <1>2, <1>8, <2>1
  <2>3. Fixed!CeilDiv(bytes, other) = bytes \div other
    BY <1>2, <1>8, <2>1, <2>2 DEF Fixed!CeilDiv
  <2>4. Fixed!WastedSpace(bytes, other) = 0
    <3> DEFINE f == bytes \div other
    <3>1. f \in Nat /\ bytes = other * f /\ Fixed!WastedSpace(bytes, other) = f * other - bytes
      BY <2>2, <2>3 DEF Fixed!WastedSpace
    <3> HIDE DEF f
    <3>2. f * other = other * f
      BY <2>1, <3>1
    <3> QED BY <1>2, <3>1, <3>2
  <2> QED BY <1>3, <1>8, <2>1, <2>4
<1> QED BY <1>6, <1>7, <1>8 DEF bytes, width

\* The words hold all the bits.
LEMMA FixedSize ==
  /\ Fixed!PartBits \in Nat \ {0} /\ bits_count \in Nat
  /\ Fixed!PartsCount \in Nat
  /\ Fixed!PartsCount * Fixed!PartBits \in Nat /\ bits_count <= Fixed!PartsCount * Fixed!PartBits
<1> DEFINE bytes == Fixed!BytesRequiredForBitset(bits_count)
           chosen == Fixed!BiggestPartTypeWithNoWaste_Bytes(bytes)
<1>1. bits_count \in Nat /\ BitsPerByte \in Nat \ {0} /\ AllParts \subseteq Nat \ {0}
  BY BitsetsAssumption DEF Fixed!FixedAssumption
<1>2. bytes \in Nat
  BY <1>1, CeilDivIsLeast DEF Fixed!BytesRequiredForBitset
<1> HIDE DEF bytes
<1>3. chosen \in AllParts
  BY <1>2, BestPart
<1> HIDE DEF chosen
<1>4. Fixed!PartBits = BitsPerByte * chosen
  BY DEF Fixed!PartBits, bytes, chosen
<1>5. Fixed!PartBits \in Nat \ {0}
  <2>1. chosen \in Nat \ {0}
    BY <1>1, <1>3
  <2> QED BY <1>1, <1>4, <2>1
<1>6. Fixed!PartsCount \in Nat /\ bits_count <= Fixed!PartBits * Fixed!PartsCount
  BY <1>1, <1>5, CeilDivIsLeast DEF Fixed!PartsCount
<1> DEFINE k == Fixed!PartBits
           n == Fixed!PartsCount
<1>7. k \in Nat /\ n \in Nat /\ bits_count <= k * n
  BY <1>5, <1>6
<1> HIDE DEF k, n
<1>8. n * k = k * n /\ n * k \in Nat
  BY <1>7
<1> QED BY <1>1, <1>5, <1>7, <1>8 DEF k, n

FixedInv ==
  /\ array \in FixedWords!ArrayOf(Fixed!PartsCount)
  /\ \A i \in bits_count .. Fixed!PartsCount * Fixed!PartBits - 1 : ~FixedWords!Get(array, i)

\* A range of the bits leaves the slack alone, in the last word too.
LEMMA FixedRange ==
  ASSUME FixedInv, NEW v \in BOOLEAN, NEW b \in 0 .. bits_count, NEW e \in 0 .. bits_count,
         array' = Fixed!Word!SetRange(array, b, e, v)
  PROVE  FixedInv'
<1> DEFINE k == Fixed!PartBits
           n == Fixed!PartsCount
           new == FixedWords!SetRange(array, b, e, v)
<1>1. k \in Nat \ {0} /\ bits_count \in Nat /\ n \in Nat /\ n * k \in Nat /\ bits_count <= n * k
  BY FixedSize
<1>2. array \in FixedWords!ArrayOf(n) /\ \A i \in bits_count .. n * k - 1 : ~FixedWords!Get(array, i)
  BY DEF FixedInv
<1>3. array' = new
  BY SameFixedWords
<1>4. b \in Nat /\ e \in Nat /\ b \in 0 .. n * k /\ e \in 0 .. n * k
  BY <1>1
<1>5. /\ FixedWords!Part(b) < n \/ b >= e
      /\ FixedWords!Part(e) <= n /\ (FixedWords!Part(e) = n => FixedWords!Bit(e) = 0)
      /\ new \in FixedWords!ArrayOf(n)
  BY <1>1, <1>2, <1>4, FixedWords!RangeStaysInside
<1>6. \A x \in Nat : x < n * k <=> FixedWords!Part(x) < n
  BY <1>1, FixedWords!ArrayEnds
<1>7. ASSUME NEW i \in bits_count .. n * k - 1 PROVE ~FixedWords!Get(new, i)
  <2>1. i \in Nat /\ FixedWords!Part(i) < n /\ ~(i < e)
    BY <1>1, <1>4, <1>6
  <2>2. FixedWords!Bit(i) \in new[FixedWords!Part(i)] <=> FixedWords!Bit(i) \in array[FixedWords!Part(i)]
    BY <1>1, <1>2, <1>4, <1>5, <2>1, FixedWords!SetRangeAssignsBit
  <2>3. FixedWords!Get(array, i) <=> FixedWords!Bit(i) \in array[FixedWords!Part(i)]
    BY <1>1, <1>2, <2>1, FixedWords!GetReads
  <2> HIDE DEF new
  <2>4. FixedWords!Get(new, i) <=> FixedWords!Bit(i) \in new[FixedWords!Part(i)]
    BY <1>1, <1>5, <2>1, FixedWords!GetReads
  <2> QED BY <1>2, <2>2, <2>3, <2>4
<1> HIDE DEF new
<1> QED BY <1>3, <1>5, <1>7 DEF FixedInv

LEMMA FixedInvHolds == Spec => []FixedInv
<1>1. Init => FixedInv
  <2> SUFFICES ASSUME Init PROVE FixedInv
    OBVIOUS
  <2> DEFINE k == Fixed!PartBits
             n == Fixed!PartsCount
  <2>1. array = [p \in 0 .. n - 1 |-> {}]
    BY DEF Init, Fixed!Init, Fixed!Word!kEmptyMask
  <2>2. k \in Nat \ {0} /\ n \in Nat /\ n * k \in Nat /\ bits_count \in Nat
    BY FixedSize
  <2>3. array \in FixedWords!ArrayOf(n)
    BY <2>1 DEF FixedWords!ArrayOf, FixedWords!Words
  <2>4. ASSUME NEW i \in bits_count .. n * k - 1 PROVE ~FixedWords!Get(array, i)
    <3>1. i \in Nat /\ FixedWords!Part(i) < n
      BY <2>2, FixedWords!ArrayEnds
    <3>2. FixedWords!Part(i) \in Nat
      BY <2>2, <3>1, FixedWords!Division
    <3>3. array[FixedWords!Part(i)] = {}
      BY <2>1, <2>2, <3>1, <3>2
    <3> QED BY <3>3 DEF FixedWords!Get, FixedWords!kEmptyMask
  <2> QED BY <2>3, <2>4 DEF FixedInv
<1>2. FixedInv /\ [Next]_vars => FixedInv'
  <2> SUFFICES ASSUME FixedInv, Fixed!Next PROVE FixedInv'
    BY DEF Next, vars, FixedInv
  <2>1. PICK v \in BOOLEAN :
          \/ \E index \in 0 .. bits_count - 1 : Fixed!SetBit(index, v)
          \/ \E begin, end \in 0 .. bits_count : Fixed!SetBits(begin, end, v)
          \/ Fixed!Fill(v)
    BY Zenon DEF Fixed!Next
  <2>2. CASE \E index \in 0 .. bits_count - 1 : Fixed!SetBit(index, v)
    <3>1. PICK i \in 0 .. bits_count - 1 : array' = Fixed!Word!Set(array, i, v)
      BY <2>2 DEF Fixed!SetBit
    <3>2. i \in Nat /\ i < bits_count /\ i \in 0 .. bits_count /\ i + 1 \in 0 .. bits_count
      BY FixedSize
    <3>3. FixedWords!Part(i) < Fixed!PartsCount
      <4> DEFINE all == Fixed!PartsCount * Fixed!PartBits
      <4>1. all \in Nat /\ i < all
        BY <3>2, FixedSize
      <4>2. \A x \in Nat : x < all <=> FixedWords!Part(x) < Fixed!PartsCount
        BY FixedSize, FixedWords!ArrayEnds
      <4> HIDE DEF all
      <4> QED BY <3>2, <4>1, <4>2
    <3>4. FixedWords!Set(array, i, v) = FixedWords!SetRange(array, i, i + 1, v)
      BY <3>2, <3>3, FixedSize, FixedWords!SetIsRange DEF FixedInv
    <3>5. array' = Fixed!Word!SetRange(array, i, i + 1, v)
      BY <3>1, <3>4, SameFixedWords
    <3> QED BY <3>2, <3>5, FixedRange
  <2>3. CASE \E begin, end \in 0 .. bits_count : Fixed!SetBits(begin, end, v)
    BY <2>3, FixedRange DEF Fixed!SetBits
  <2>4. CASE Fixed!Fill(v)
    <3>1. 0 \in 0 .. bits_count /\ bits_count \in 0 .. bits_count
      BY FixedSize
    <3> QED BY <2>4, <3>1, FixedRange DEF Fixed!Fill
  <2> QED BY <2>1, <2>2, <2>3, <2>4
<1> QED BY <1>1, <1>2, PTL DEF Spec

\* No operation of FixedBitset sets a bit of the slack behind its last one, whatever the
\* number of bits and the word types; its words waste no byte, and no wider one would do.
THEOREM NoOperationSetsTheSlack == Spec => []SlackStaysZero
<1>1. FixedInv => SlackStaysZero
  <2> SUFFICES ASSUME FixedInv PROVE Fixed!SlackStaysZero
    BY NoByteIsWasted DEF SlackStaysZero
  <2>1. array \in [0 .. Fixed!PartsCount - 1 -> Fixed!Word!Words]
    BY SameFixedWords DEF FixedInv, FixedWords!ArrayOf
  <2>2. \A i : Fixed!Word!Get(array, i) = FixedWords!Get(array, i)
    BY SameFixedWords
  <2> QED BY <2>1, <2>2, Zenon DEF FixedInv, Fixed!SlackStaysZero
<1> QED BY <1>1, FixedInvHolds, PTL

-----------------------------------------------------------------------------
(* Flag sets: powers of two and the digits of numbers.                     *)

Power(n) == 2 ^ n
Digit(v, i) == (v \div Power(i)) % 2

\* What holds of none, and of one more when it holds of some, holds of all.
LEMMA UpTheNumbers ==
  ASSUME NEW L \in Nat, NEW H, 0 \in H, \A k \in 1 .. L : k - 1 \in H => k \in H
  PROVE  L \in H
<1> DEFINE B == (0 .. L) \ H
           less == {pair \in Nat \X Nat : pair[1] < pair[2]}
<1>1. IsWellFoundedOn(less, Nat)
  BY NatLessThanWellFounded DEF OpToRel
<1>2. ASSUME B # {} PROVE FALSE
  <2>1. B \subseteq Nat
    OBVIOUS
  <2>2. PICK k \in B : \A q \in B : <<q, k>> \notin less
    <3> HIDE DEF B, less
    <3> QED BY <1>1, <1>2, <2>1, WFMin
  <2>3. k \in 1 .. L /\ k \notin H /\ k - 1 \in 0 .. L /\ k - 1 < k
    <3>1. k \in 0 .. L /\ k \notin H
      OBVIOUS
    <3> QED BY <3>1
  <2>4. <<k - 1, k>> \in less
    BY <2>3
  <2>5. k - 1 \notin B
    <3> HIDE DEF B, less
    <3> QED BY <2>2, <2>4
  <2> QED BY <2>3, <2>5
<1> QED BY <1>2

\* Each power of two is twice the one before.
LEMMA PowersOfTwo ==
  /\ BitsOfInt \in Nat /\ BitsOfInt >= 2
  /\ Power(0) = 1
  /\ \A n \in 0 .. BitsOfInt : Power(n) \in Nat \ {0}
  /\ \A n \in 1 .. BitsOfInt : Power(n) = 2 * Power(n - 1)
<1>1. BitsOfInt \in Nat /\ BitsOfInt >= 2
  BY BitsetsAssumption DEF Enumerations!FlagsAssumption
<1>2. Power(0) = 1
  BY DEF Power
<1>3. ASSUME NEW n \in 1 .. BitsOfInt PROVE Power(n) \in Nat \ {0} /\ Power(n) = 2 * Power(n - 1)
  BY <1>3, BitsetsAssumption DEF Enumerations!FlagsAssumption, Power
<1>4. ASSUME NEW n \in 0 .. BitsOfInt PROVE Power(n) \in Nat \ {0}
  <2>1. n = 0 \/ n \in 1 .. BitsOfInt
    BY <1>1
  <2> QED BY <1>2, <1>3, <2>1
<1> QED BY <1>1, <1>2, <1>3, <1>4

\* The powers of two multiply.
LEMMA PowersMultiply ==
  ASSUME NEW i \in Nat, NEW f \in Nat, i + f <= BitsOfInt
  PROVE  Power(i + f) = Power(f) * Power(i)
<1> DEFINE H == {k \in 0 .. f : Power(i + k) = Power(k) * Power(i)}
<1>1. Power(i) \in Nat
  <2>1. i \in 0 .. BitsOfInt
    BY PowersOfTwo
  <2> QED BY <2>1, PowersOfTwo
<1>2. 0 \in H
  <2>1. Power(i + 0) = 1 * Power(i)
    BY <1>1
  <2> QED BY <2>1, PowersOfTwo
<1>3. ASSUME NEW k \in 1 .. f, k - 1 \in H PROVE k \in H
  <2>1. Power(i + (k - 1)) = Power(k - 1) * Power(i)
    BY <1>3
  <2>2. i + k \in 1 .. BitsOfInt /\ k \in 1 .. BitsOfInt /\ k - 1 \in 0 .. BitsOfInt /\ (i + k) - 1 = i + (k - 1)
    BY PowersOfTwo
  <2>3. Power(i + k) = 2 * Power(i + (k - 1)) /\ Power(k) = 2 * Power(k - 1) /\ Power(k - 1) \in Nat
    BY <2>2, PowersOfTwo
  <2>4. 2 * (Power(k - 1) * Power(i)) = (2 * Power(k - 1)) * Power(i)
    BY <1>1, <2>3
  <2> QED BY <2>1, <2>3, <2>4
<1>4. f \in H
  <2> HIDE DEF H
  <2> QED BY <1>2, <1>3, UpTheNumbers
<1> QED BY <1>4

\* What is left of a multiple of M and less than M is no part of the quotient.
LEMMA QuotientIs ==
  ASSUME NEW M \in Nat \ {0}, NEW q \in Int, NEW r \in 0 .. M - 1
  PROVE  (q * M + r) \div M = q
<1> DEFINE x == q * M + r
           p == x \div M
           s == x % M
<1>1. x \in Int
  OBVIOUS
<1>2. p \in Int /\ s \in 0 .. M - 1 /\ x = p * M + s
  <2> HIDE DEF x
  <2> QED BY <1>1
<1> HIDE DEF p, s
<1>3. (q - p) * M = s - r
  BY <1>2
<1>4. q - p = 0
  <2> DEFINE d == q - p
  <2>1. d \in Int /\ d * M < M /\ -M < d * M
    BY <1>2, <1>3
  <2> HIDE DEF d
  <2>2. ASSUME d >= 1 PROVE FALSE
    <3>1. PICK more \in Nat : d = 1 + more
      <4>1. d - 1 \in Nat /\ d = 1 + (d - 1)
        BY <2>1, <2>2
      <4> QED BY <4>1
    <3>2. d * M = M + more * M /\ more * M \in Nat
      BY <3>1
    <3> QED BY <2>1, <3>2
  <2>3. ASSUME d <= -1 PROVE FALSE
    <3>1. PICK more \in Nat : d = -(1 + more)
      <4>1. -d - 1 \in Nat /\ d = -(1 + (-d - 1))
        BY <2>1, <2>3
      <4> QED BY <4>1
    <3>2. d * M = -(M + more * M) /\ more * M \in Nat
      BY <3>1
    <3> QED BY <2>1, <3>2
  <2> QED BY <2>1, <2>2, <2>3 DEF d
<1> QED BY <1>2, <1>4 DEF p

\* Every number has a quotient and what is left.
LEMMA Divided ==
  ASSUME NEW M \in Nat \ {0}, NEW v \in Int
  PROVE  v \div M \in Int /\ \E r \in 0 .. M - 1 : v = (v \div M) * M + r
<1>1. v \div M \in Int /\ v % M \in 0 .. M - 1 /\ v = (v \div M) * M + (v % M)
  OBVIOUS
<1> QED BY <1>1

\* Numbers that differ by a multiple of a power have the digits below it in common.
LEMMA DigitsOfTurns ==
  ASSUME NEW n \in 0 .. BitsOfInt, NEW i \in 0 .. n - 1, NEW v \in Int, NEW k \in Int
  PROVE  Digit(v + k * Power(n), i) = Digit(v, i)
<1> DEFINE M == Power(i)
           c == Power(n - i - 1)
           q == v \div M
<1>1. BitsOfInt \in Nat /\ n \in Nat /\ i \in Nat /\ n - i - 1 \in Nat /\ n - i \in Nat
  BY PowersOfTwo
<1>2. M \in Nat \ {0} /\ c \in Nat
  BY <1>1, PowersOfTwo
<1>3. Power(n) = Power(n - i) * M
  <2>1. i + (n - i) = n /\ i + (n - i) <= BitsOfInt
    BY <1>1
  <2> QED BY <1>1, <2>1, PowersMultiply
<1>4. Power(n - i) = 2 * c
  <2>1. n - i \in 1 .. BitsOfInt
    BY <1>1
  <2> QED BY <2>1, PowersOfTwo
<1> HIDE DEF c
<1>5. q \in Int /\ \E r \in 0 .. M - 1 : v = q * M + r
  <2> HIDE DEF M
  <2> QED BY <1>2, Divided
<1>6. PICK r \in 0 .. M - 1 : v = q * M + r
  BY <1>5
<1> HIDE DEF q, M
<1> DEFINE p == q + 2 * (k * c)
<1>7. v + k * Power(n) = p * M + r
  <2>1. k * ((2 * c) * M) = (2 * (k * c)) * M
    BY <1>2
  <2>2. p * M = q * M + (2 * (k * c)) * M
    BY <1>2, <1>5
  <2>3. r \in Int /\ q * M \in Int /\ (2 * (k * c)) * M \in Int
    BY <1>2, <1>5
  <2> QED BY <1>3, <1>4, <1>6, <2>1, <2>2, <2>3
<1>8. p \in Int /\ k * c \in Int
  BY <1>2, <1>5
<1>9. (v + k * Power(n)) \div M = p
  <2> HIDE DEF p
  <2> QED BY <1>2, <1>7, <1>8, QuotientIs
<1>10. p % 2 = q % 2
  <2> DEFINE d == k * c
  <2>1. d \in Int
    BY <1>8
  <2> HIDE DEF d
  <2>2. (q + 2 * d) % 2 = q % 2
    BY <1>5, <2>1
  <2> QED BY <2>2 DEF d
<1>11. Digit(v + k * Power(n), i) = p % 2
  BY <1>9 DEF Digit, M
<1>12. Digit(v, i) = q % 2
  BY DEF Digit, M, q
<1> QED BY <1>10, <1>11, <1>12

-----------------------------------------------------------------------------
(* Numbers from their digits, and values of a type from their low bits.    *)

\* A digit is zero or one; digits of zero are zero.
LEMMA DigitsAreBits ==
  ASSUME NEW i \in 0 .. BitsOfInt, NEW v \in Int
  PROVE  Digit(v, i) \in {0, 1} /\ Digit(0, i) = 0
<1>1. Power(i) \in Nat \ {0}
  BY PowersOfTwo
<1> DEFINE M == Power(i)
<1> HIDE DEF M
<1>2. M \in Nat \ {0}
  BY <1>1 DEF M
<1>3. v \div M \in Int
  BY <1>2
<1>4. 0 \div M = 0
  <2>1. 0 * M + 0 = 0 /\ 0 \in 0 .. M - 1
    BY <1>2
  <2>2. (0 * M + 0) \div M = 0
    BY <1>2, <2>1, QuotientIs
  <2> QED BY <2>1, <2>2
<1>5. (v \div M) % 2 \in {0, 1}
  <2> DEFINE q == v \div M
  <2>1. q \in Int
    BY <1>3
  <2> HIDE DEF q
  <2>2. q % 2 \in {0, 1}
    BY <2>1
  <2> QED BY <2>2 DEF q
<1> QED BY <1>4, <1>5 DEF Digit, M

\* The n-th digit of a number below twice the n-th power says whether it reaches the power.
LEMMA HighestDigit ==
  ASSUME NEW n \in 0 .. BitsOfInt, NEW v \in 0 .. 2 * Power(n) - 1
  PROVE  Digit(v, n) = IF v >= Power(n) THEN 1 ELSE 0
<1> DEFINE M == Power(n)
<1>1. M \in Nat \ {0}
  BY PowersOfTwo
<1> HIDE DEF M
<1>2. v \in 0 .. 2 * M - 1
  BY DEF M
<1>3. CASE v >= M
  <2>1. 1 * M + (v - M) = v /\ v - M \in 0 .. M - 1
    BY <1>1, <1>2, <1>3
  <2>2. (1 * M + (v - M)) \div M = 1
    BY <1>1, <2>1, QuotientIs
  <2> QED BY <1>3, <2>1, <2>2 DEF Digit, M
<1>4. CASE ~(v >= M)
  <2>1. 0 * M + v = v /\ v \in 0 .. M - 1
    BY <1>1, <1>2, <1>4
  <2>2. (0 * M + v) \div M = 0
    BY <1>1, <2>1, QuotientIs
  <2> QED BY <1>4, <2>1, <2>2 DEF Digit, M
<1> QED BY <1>3, <1>4

\* u is the number whose n digits are the ones of S.
Spelled(n, S, u) == u \in 0 .. Power(n) - 1 /\ \A i \in 0 .. n - 1 : Digit(u, i) = 1 <=> i \in S

\* A digit more is a power of two more, or not.
LEMMA SpellsOneMore ==
  ASSUME NEW n \in 1 .. BitsOfInt, NEW S, NEW u
  PROVE  Spelled(n, S, u) <=>
           /\ u \in Int
           /\ Spelled(n - 1, S, IF n - 1 \in S THEN u - Power(n - 1) ELSE u)
<1> DEFINE k == n - 1
           M == Power(k)
<1>1. k \in 0 .. BitsOfInt /\ n \in 0 .. BitsOfInt /\ k \in Nat /\ n = k + 1 /\ 0 .. n - 1 = (0 .. k - 1) \cup {k}
  BY PowersOfTwo
<1>2. M \in Nat \ {0} /\ Power(n) = 2 * M
  BY <1>1, PowersOfTwo
<1>3. ASSUME NEW v \in 0 .. 2 * M - 1 PROVE Digit(v, k) = IF v >= M THEN 1 ELSE 0
  BY <1>1, HighestDigit
<1>4. ASSUME NEW v \in Int, NEW i \in 0 .. k - 1 PROVE Digit(v - M, i) = Digit(v, i)
  <2>1. Digit(v + (-1) * M, i) = Digit(v, i)
    <3>1. -1 \in Int /\ k \in 0 .. BitsOfInt
      BY <1>1
    <3> HIDE DEF k
    <3> QED BY <3>1, DigitsOfTurns
  <2>2. v + (-1) * M = v - M
    BY <1>2
  <2> QED BY <2>1, <2>2
<1> HIDE DEF M, k
<1>5. CASE k \in S
  <2>1. ASSUME Spelled(n, S, u) PROVE u \in Int /\ Spelled(k, S, u - M)
    <3>1. u \in 0 .. 2 * M - 1 /\ Digit(u, k) = 1
      BY <1>1, <1>2, <1>5, <2>1 DEF Spelled
    <3>2. u >= M
      BY <1>3, <3>1
    <3>3. u - M \in 0 .. M - 1 /\ u \in Int
      BY <1>2, <3>1, <3>2
    <3>4. \A i \in 0 .. k - 1 : Digit(u - M, i) = 1 <=> i \in S
      BY <1>1, <1>4, <2>1, <3>3 DEF Spelled
    <3> QED BY <3>3, <3>4 DEF Spelled, M
  <2>2. ASSUME u \in Int, Spelled(k, S, u - M) PROVE Spelled(n, S, u)
    <3>1. u - M \in 0 .. M - 1
      BY <2>2 DEF Spelled, M
    <3>2. u \in 0 .. 2 * M - 1 /\ u >= M
      BY <1>2, <2>2, <3>1
    <3>3. Digit(u, k) = 1
      BY <1>3, <3>2
    <3>4. \A i \in 0 .. k - 1 : Digit(u, i) = 1 <=> i \in S
      BY <1>4, <2>2 DEF Spelled
    <3> QED BY <1>1, <1>2, <1>5, <3>2, <3>3, <3>4 DEF Spelled
  <2> QED BY <1>5, <2>1, <2>2 DEF k, M
<1>6. CASE k \notin S
  <2>1. ASSUME Spelled(n, S, u) PROVE u \in Int /\ Spelled(k, S, u)
    <3>1. u \in 0 .. 2 * M - 1 /\ Digit(u, k) # 1
      BY <1>1, <1>2, <1>6, <2>1 DEF Spelled
    <3>2. ~(u >= M)
      BY <1>3, <3>1
    <3>3. u \in 0 .. M - 1 /\ u \in Int
      BY <1>2, <3>1, <3>2
    <3> QED BY <1>1, <2>1, <3>3 DEF Spelled, M
  <2>2. ASSUME Spelled(k, S, u) PROVE Spelled(n, S, u)
    <3>1. u \in 0 .. M - 1
      BY <2>2 DEF Spelled, M
    <3>2. u \in 0 .. 2 * M - 1 /\ ~(u >= M)
      BY <1>2, <3>1
    <3>3. Digit(u, k) = 0
      BY <1>3, <3>2
    <3> QED BY <1>1, <1>2, <1>6, <2>2, <3>2, <3>3 DEF Spelled
  <2> QED BY <1>6, <2>1, <2>2 DEF k
<1> QED BY <1>5, <1>6

\* There is one number of n digits for each set of them, and only one.
LEMMA SpelledOnce ==
  ASSUME NEW n \in 0 .. BitsOfInt, NEW S
  PROVE  /\ \E u \in Int : Spelled(n, S, u)
         /\ \A u, v : Spelled(n, S, u) /\ Spelled(n, S, v) => u = v
<1> DEFINE Some(k) == \E u \in Int : Spelled(k, S, u)
           One(k) == \A u, v : Spelled(k, S, u) /\ Spelled(k, S, v) => u = v
           H == {k \in 0 .. n : Some(k) /\ One(k)}
<1>1. 0 \in H
  <2>1. Power(0) = 1 /\ n \in Nat
    BY PowersOfTwo
  <2>2. \A u : Spelled(0, S, u) <=> u = 0
    BY <2>1 DEF Spelled
  <2>3. Some(0) /\ One(0)
    BY <2>2
  <2> QED BY <2>1, <2>3
<1>2. ASSUME NEW k \in 1 .. n, k - 1 \in H PROVE k \in H
  <2> DEFINE M == Power(k - 1)
             Less(u) == IF k - 1 \in S THEN u - M ELSE u
  <2>1. k \in 1 .. BitsOfInt /\ k \in 0 .. n /\ M \in Int
    <3>1. n \in Nat /\ k \in 1 .. BitsOfInt /\ k - 1 \in 0 .. BitsOfInt /\ k \in 0 .. n
      BY PowersOfTwo
    <3> QED BY <3>1, PowersOfTwo
  <2>2. ASSUME NEW u PROVE Spelled(k, S, u) <=> u \in Int /\ Spelled(k - 1, S, Less(u))
    BY <2>1, SpellsOneMore
  <2>3. Some(k - 1) /\ One(k - 1)
    BY <1>2
  <2> HIDE DEF M
  <2>4. Some(k)
    <3>1. PICK u \in Int : Spelled(k - 1, S, u)
      BY <2>3
    <3> DEFINE v == IF k - 1 \in S THEN u + M ELSE u
    <3>2. v \in Int /\ Less(v) = u
      BY <2>1
    <3> HIDE DEF v, Less
    <3>3. Spelled(k, S, v)
      BY <2>2, <3>1, <3>2
    <3> QED BY <3>2, <3>3
  <2>5. One(k)
    <3> SUFFICES ASSUME NEW u, NEW v, Spelled(k, S, u), Spelled(k, S, v) PROVE u = v
      OBVIOUS
    <3>1. u \in Int /\ v \in Int /\ Spelled(k - 1, S, Less(u)) /\ Spelled(k - 1, S, Less(v))
      <4> HIDE DEF Less
      <4> QED BY <2>2
    <3>2. Less(u) = Less(v)
      <4> HIDE DEF Less
      <4> QED BY <2>3, <3>1
    <3> QED BY <2>1, <3>1, <3>2
  <2> HIDE DEF Some, One
  <2> QED BY <2>1, <2>4, <2>5
<1>3. n \in H
  <2>1. n \in Nat
    BY PowersOfTwo
  <2> HIDE DEF H
  <2> QED BY <1>1, <1>2, <2>1, UpTheNumbers
<1> QED BY <1>3

-----------------------------------------------------------------------------
(* Flag sets: values of types, promoted and converted.                     *)

FlagTypes == [signed : BOOLEAN, bits : 1 .. BitsOfInt]
LowOf(t) == IF t.signed THEN Power(t.bits - 1) ELSE 0

\* The values of a type are as many as its width says, and zero is one.
LEMMA ValuesOfFlagType ==
  ASSUME NEW t \in FlagTypes
  PROVE  /\ LowOf(t) \in Nat /\ LowOf(t) < Power(t.bits) /\ Power(t.bits) \in Nat \ {0}
         /\ Enumerations!lowest(t) = -LowOf(t)
         /\ Enumerations!ValuesOf(t) = -LowOf(t) .. Power(t.bits) - 1 - LowOf(t)
<1>1. t.bits \in 1 .. BitsOfInt /\ t.signed \in BOOLEAN
  BY DEF FlagTypes
<1>2. BitsOfInt \in Nat /\ t.bits \in 0 .. BitsOfInt /\ t.bits - 1 \in 0 .. BitsOfInt
  BY <1>1, PowersOfTwo
<1> DEFINE all == Power(t.bits)
           half == Power(t.bits - 1)
<1>3. all \in Nat \ {0} /\ half \in Nat \ {0} /\ all = 2 * half
  BY <1>1, <1>2, PowersOfTwo
<1>4. /\ Enumerations!lowest(t) = IF t.signed THEN -half ELSE 0
      /\ Enumerations!max(t) = IF t.signed THEN half - 1 ELSE all - 1
  BY Zenon DEF Enumerations!lowest, Enumerations!max, Power
<1>5. LowOf(t) = IF t.signed THEN half ELSE 0
  BY DEF LowOf
<1> HIDE DEF all, half
<1> DEFINE low == LowOf(t)
<1>6. low \in Nat /\ low < all /\ Enumerations!lowest(t) = -low /\ Enumerations!max(t) = all - 1 - low
  <2>1. CASE t.signed
    BY <1>3, <1>4, <1>5, <2>1
  <2>2. CASE ~t.signed
    <3>1. Enumerations!lowest(t) = 0 /\ Enumerations!max(t) = all - 1 /\ low = 0
      BY <1>4, <1>5, <2>2
    <3> HIDE DEF low
    <3>2. low \in Nat /\ low < all /\ all - 1 = all - 1 - low
      BY <1>3, <3>1
    <3>3. -low = 0 - low
      BY <3>2
    <3> QED BY <3>1, <3>2, <3>3
  <2> QED BY <2>1, <2>2
<1> HIDE DEF low
<1>7. Enumerations!ValuesOf(t) = -low .. all - 1 - low
  BY <1>6 DEF Enumerations!ValuesOf
<1> QED BY <1>3, <1>6, <1>7 DEF low, all

\* Zero is a value of every type.
LEMMA ZeroIsAValue == ASSUME NEW t \in FlagTypes PROVE 0 \in Enumerations!ValuesOf(t)
<1> DEFINE low == LowOf(t)
           all == Power(t.bits)
<1>1. low \in Nat /\ low < all /\ all \in Nat /\ Enumerations!ValuesOf(t) = -low .. all - 1 - low
  BY ValuesOfFlagType
<1> HIDE DEF low, all
<1> QED BY <1>1

\* Two values of a type that differ by whole turns are one, since a turn is as many as there are values.
LEMMA OneInATurn ==
  ASSUME NEW all \in Nat \ {0}, NEW low \in Int, NEW v \in -low .. all - 1 - low, NEW w \in -low .. all - 1 - low,
         NEW k \in Int, v = w + k * all
  PROVE  v = w
<1>1. v + low \in 0 .. all - 1 /\ w + low \in 0 .. all - 1
  OBVIOUS
<1>2. ((k * all) + (w + low)) \div all = k
  BY <1>1, QuotientIs
<1>3. (0 * all + (v + low)) \div all = 0
  BY <1>1, QuotientIs
<1>4. 0 * all + (v + low) = (k * all) + (w + low)
  <2>1. k * all \in Int /\ 0 * all = 0
    OBVIOUS
  <2> QED BY <2>1
<1>5. k = 0
  BY <1>2, <1>3, <1>4
<1> QED BY <1>5

\* A conversion changes a number by whole turns.
LEMMA ConvertedTurns ==
  ASSUME NEW t \in FlagTypes, NEW x \in Int
  PROVE  /\ Enumerations!Converted(t, x) \in Enumerations!ValuesOf(t)
         /\ \E k \in Int : Enumerations!Converted(t, x) = x + k * Power(t.bits)
<1> DEFINE all == Power(t.bits)
           low == LowOf(t)
<1>1. /\ low \in Nat /\ low < all /\ all \in Nat \ {0} /\ Enumerations!lowest(t) = -low
      /\ Enumerations!ValuesOf(t) = -low .. all - 1 - low
  BY ValuesOfFlagType
<1>2. Enumerations!Converted(t, x) = ((x - Enumerations!lowest(t)) % all) + Enumerations!lowest(t)
  BY Zenon DEF Enumerations!Converted, Power
<1> HIDE DEF all, low
<1> DEFINE y == x - (-low)
           r == y % all
<1>3. y \in Int
  BY <1>1
<1>4. y \div all \in Int /\ r \in 0 .. all - 1 /\ y = (y \div all) * all + r
  <2> HIDE DEF y
  <2> QED BY <1>1, <1>3
<1>5. Enumerations!Converted(t, x) = r + (-low)
  BY <1>1, <1>2, Zenon
<1> HIDE DEF r
<1>6. PICK q \in Int : y = q * all + r
  BY <1>4
<1>7. r + (-low) = x + (-q) * all
  <2>1. q * all \in Int /\ (-q) * all = -(q * all)
    BY <1>1
  <2> QED BY <1>1, <1>4, <1>6, <2>1
<1>8. r + (-low) \in -low .. all - 1 - low
  BY <1>1, <1>4
<1>9. -q \in Int
  OBVIOUS
<1> QED BY <1>1, <1>5, <1>7, <1>8, <1>9 DEF all

\* A conversion keeps the low bits.
LEMMA ConvertedKeepsDigits ==
  ASSUME NEW t \in FlagTypes, NEW x \in Int
  PROVE  /\ Enumerations!Converted(t, x) \in Enumerations!ValuesOf(t)
         /\ Enumerations!Converted(t, x) \in Int
         /\ \A i \in 0 .. t.bits - 1 : Digit(Enumerations!Converted(t, x), i) = Digit(x, i)
<1>1. PICK k \in Int : Enumerations!Converted(t, x) = x + k * Power(t.bits)
  BY ConvertedTurns
<1>2. t.bits \in 0 .. BitsOfInt /\ Power(t.bits) \in Nat
  BY PowersOfTwo DEF FlagTypes
<1>3. \A i \in 0 .. t.bits - 1 : Digit(x + k * Power(t.bits), i) = Digit(x, i)
  BY <1>2, DigitsOfTurns
<1>4. x + k * Power(t.bits) \in Int
  BY <1>2
<1> QED BY <1>1, <1>3, <1>4, ConvertedTurns

\* What a type has is converted to itself.
LEMMA ConvertedIsSame ==
  ASSUME NEW t \in FlagTypes, NEW v \in Enumerations!ValuesOf(t)
  PROVE  v \in Int /\ Enumerations!Converted(t, v) = v
<1> DEFINE all == Power(t.bits)
           low == LowOf(t)
           w == Enumerations!Converted(t, v)
<1>1. low \in Nat /\ all \in Nat \ {0} /\ Enumerations!ValuesOf(t) = -low .. all - 1 - low
  BY ValuesOfFlagType
<1> HIDE DEF low, all
<1>2. v \in Int
  BY <1>1
<1>3. w \in Enumerations!ValuesOf(t) /\ \E k \in Int : w = v + k * Power(t.bits)
  BY <1>2, ConvertedTurns
<1>4. PICK k \in Int : w = v + k * all
  BY <1>3 DEF all
<1> HIDE DEF w
<1>5. w = v
  <2>1. w \in -low .. all - 1 - low /\ v \in -low .. all - 1 - low /\ low \in Int
    BY <1>1, <1>3
  <2> QED BY <1>1, <1>4, <2>1, OneInATurn
<1> QED BY <1>2, <1>5 DEF w

\* A type has one value for each set of low bits, and only one.
LEMMA ValuesFromDigits ==
  ASSUME NEW t \in FlagTypes
  PROVE  /\ \A S : \E v \in Enumerations!ValuesOf(t) : \A i \in 0 .. t.bits - 1 : Digit(v, i) = 1 <=> i \in S
         /\ \A v, w \in Enumerations!ValuesOf(t) :
              (\A i \in 0 .. t.bits - 1 : Digit(v, i) = 1 <=> Digit(w, i) = 1) => v = w
<1>1. t.bits \in 0 .. BitsOfInt
  BY PowersOfTwo DEF FlagTypes
<1>2. ASSUME NEW S
      PROVE  \E v \in Enumerations!ValuesOf(t) : \A i \in 0 .. t.bits - 1 : Digit(v, i) = 1 <=> i \in S
  <2>1. PICK u \in Int : Spelled(t.bits, S, u)
    BY <1>1, SpelledOnce
  <2>2. \A i \in 0 .. t.bits - 1 : Digit(u, i) = 1 <=> i \in S
    BY <2>1 DEF Spelled
  <2> DEFINE v == Enumerations!Converted(t, u)
  <2>3. v \in Enumerations!ValuesOf(t) /\ \A i \in 0 .. t.bits - 1 : Digit(v, i) = Digit(u, i)
    BY ConvertedKeepsDigits
  <2> HIDE DEF v
  <2> QED BY <2>2, <2>3
<1>3. ASSUME NEW v \in Enumerations!ValuesOf(t), NEW w \in Enumerations!ValuesOf(t),
             \A i \in 0 .. t.bits - 1 : Digit(v, i) = 1 <=> Digit(w, i) = 1
      PROVE  v = w
  <2> DEFINE all == Power(t.bits)
             low == LowOf(t)
             unsigned == [signed |-> FALSE, bits |-> t.bits]
             S == {i \in 0 .. t.bits - 1 : Digit(v, i) = 1}
             x == Enumerations!Converted(unsigned, v)
             y == Enumerations!Converted(unsigned, w)
  <2>1. low \in Nat /\ all \in Nat \ {0} /\ Enumerations!ValuesOf(t) = -low .. all - 1 - low
    BY ValuesOfFlagType
  <2>2. unsigned \in FlagTypes /\ unsigned.bits = t.bits /\ LowOf(unsigned) = 0
    BY DEF FlagTypes, LowOf
  <2>3. Enumerations!ValuesOf(unsigned) = 0 .. all - 1
    <3>1. Enumerations!ValuesOf(unsigned) = -LowOf(unsigned) .. Power(unsigned.bits) - 1 - LowOf(unsigned)
      <4> HIDE DEF unsigned
      <4> QED BY <2>2, ValuesOfFlagType
    <3> QED BY <2>1, <2>2, <3>1
  <2> HIDE DEF low, all, unsigned
  <2>4. v \in Int /\ w \in Int
    BY <2>1
  <2>5. /\ x \in 0 .. all - 1 /\ \E k \in Int : x = v + k * Power(unsigned.bits)
        /\ \A i \in 0 .. unsigned.bits - 1 : Digit(x, i) = Digit(v, i)
    BY <2>2, <2>3, <2>4, ConvertedTurns, ConvertedKeepsDigits
  <2>6. /\ y \in 0 .. all - 1 /\ \E k \in Int : y = w + k * Power(unsigned.bits)
        /\ \A i \in 0 .. unsigned.bits - 1 : Digit(y, i) = Digit(w, i)
    BY <2>2, <2>3, <2>4, ConvertedTurns, ConvertedKeepsDigits
  <2> HIDE DEF x, y
  <2>7. Spelled(t.bits, S, x) /\ Spelled(t.bits, S, y)
    BY <1>3, <2>2, <2>5, <2>6 DEF Spelled, all
  <2>8. x = y
    <3> HIDE DEF S
    <3> QED BY <1>1, <2>7, SpelledOnce
  <2>9. PICK k \in Int : x = v + k * all
    BY <2>2, <2>5 DEF all
  <2>10. PICK l \in Int : y = w + l * all
    BY <2>2, <2>6 DEF all
  <2>11. v = w + (l - k) * all /\ l - k \in Int
    <3> DEFINE kk == k * all
               ll == l * all
    <3>1. (l - k) * all = ll - kk /\ ll \in Int /\ kk \in Int
      BY <2>1
    <3>2. x = v + kk /\ y = w + ll
      BY <2>9, <2>10
    <3> HIDE DEF kk, ll
    <3>3. v = w + (ll - kk)
      <4> HIDE DEF S
      <4>1. v + kk = w + ll
        BY <2>8, <3>2
      <4> QED BY <2>4, <3>1, <4>1
    <3> QED BY <3>1, <3>3
  <2>12. v \in -low .. all - 1 - low /\ w \in -low .. all - 1 - low /\ low \in Int
    BY <2>1
  <2> QED BY <2>1, <2>11, <2>12, OneInATurn
<1> QED BY <1>2, <1>3

-----------------------------------------------------------------------------
(* Flag sets: the bitwise operators.                                       *)

FlagType == underlying \in [signed : BOOLEAN, bits : UnderlyingBits]
FlagValues == Enumerations!ValuesOf(underlying)

\* An operand is promoted to the width of int.
LEMMA FlagWidths ==
  ASSUME FlagType
  PROVE  /\ underlying \in FlagTypes /\ Enumerations!Promoted \in FlagTypes
         /\ Enumerations!Promoted.bits = BitsOfInt /\ underlying.bits \in 2 .. BitsOfInt
<1>1. UnderlyingBits \subseteq 2 .. BitsOfInt /\ BitsOfInt \in Nat
  BY BitsetsAssumption DEF Enumerations!FlagsAssumption
<1>2. underlying.bits \in 2 .. BitsOfInt /\ underlying.signed \in BOOLEAN
  BY <1>1 DEF FlagType
<1>3. underlying.bits \in 1 .. BitsOfInt /\ BitsOfInt \in 1 .. BitsOfInt
  BY <1>1, <1>2, PowersOfTwo
<1>4. underlying \in FlagTypes
  BY <1>3 DEF FlagType, FlagTypes
<1>5. CASE underlying.bits < BitsOfInt
  <2>1. Enumerations!Promoted = [signed |-> TRUE, bits |-> BitsOfInt]
    BY <1>5, Zenon DEF Enumerations!Promoted
  <2> QED BY <1>2, <1>3, <1>4, <2>1 DEF FlagTypes
<1>6. CASE ~(underlying.bits < BitsOfInt)
  <2>1. Enumerations!Promoted = underlying
    BY <1>6, Zenon DEF Enumerations!Promoted
  <2> QED BY <1>1, <1>2, <1>4, <1>6, <2>1
<1> QED BY <1>5, <1>6

\* Ones and Flags are the digits, of the promoted type and of the type.
LEMMA DigitsAre ==
  ASSUME FlagType, NEW v
  PROVE  /\ Enumerations!Ones(v) = {i \in 0 .. BitsOfInt - 1 : Digit(v, i) = 1}
         /\ Enumerations!Flags(v) = {i \in 0 .. underlying.bits - 1 : Digit(v, i) = 1}
         /\ Enumerations!Positions = 0 .. underlying.bits - 1
         /\ Enumerations!Flags(v) = Enumerations!Ones(v) \cap Enumerations!Positions
<1>1. Enumerations!Ones(v) = {i \in 0 .. BitsOfInt - 1 : Digit(v, i) = 1}
  BY FlagWidths, Zenon DEF Enumerations!Ones, Digit, Power
<1>2. Enumerations!Positions = 0 .. underlying.bits - 1
  BY DEF Enumerations!Positions
<1>3. Enumerations!Flags(v) = {i \in 0 .. underlying.bits - 1 : Digit(v, i) = 1}
  BY Zenon DEF Enumerations!Flags, Enumerations!Positions, Digit, Power
<1>4. \A i \in 0 .. underlying.bits - 1 : i \in 0 .. BitsOfInt - 1
  <2>1. underlying.bits \in 2 .. BitsOfInt /\ BitsOfInt \in Nat
    BY FlagWidths, PowersOfTwo
  <2> QED BY <2>1
<1> QED BY <1>1, <1>2, <1>3, <1>4

\* Number is the value of the promoted type with the ones that are asked for.
LEMMA NumberIs ==
  ASSUME FlagType, NEW S \in SUBSET (0 .. BitsOfInt - 1)
  PROVE  /\ Enumerations!Number(S) \in Int
         /\ Enumerations!Ones(Enumerations!Number(S)) = S
         /\ Enumerations!Number(S) = 0 <=> S = {}
<1> DEFINE P == Enumerations!Promoted
           V == Enumerations!ValuesOf(P)
<1>1. P \in FlagTypes /\ P.bits = BitsOfInt
  BY FlagWidths
<1> HIDE DEF P
<1>2. PICK u \in V : \A i \in 0 .. BitsOfInt - 1 : Digit(u, i) = 1 <=> i \in S
  BY <1>1, ValuesFromDigits
<1>3. Enumerations!Ones(u) = S
  BY <1>2, DigitsAre
<1> DEFINE w == CHOOSE v \in V : Enumerations!Ones(v) = S
<1>4. w \in V /\ Enumerations!Ones(w) = S
  <2> HIDE DEF V
  <2> QED BY <1>3
<1>5. Enumerations!Number(S) = w
  BY Zenon DEF Enumerations!Number, P
<1>6. 0 \in V
  BY <1>1, ZeroIsAValue
<1>7. Enumerations!Ones(0) = {}
  <2>1. \A i \in 0 .. BitsOfInt - 1 : Digit(0, i) # 1
    <3>1. \A i \in 0 .. BitsOfInt - 1 : i \in 0 .. BitsOfInt
      BY PowersOfTwo
    <3> QED BY <3>1, DigitsAreBits
  <2> QED BY <2>1, DigitsAre
<1> HIDE DEF w
<1>8. w \in Int
  BY <1>1, <1>4, ConvertedIsSame
<1>9. ASSUME S = {} PROVE w = 0
  <2>1. \A i \in 0 .. P.bits - 1 : Digit(w, i) = 1 <=> Digit(0, i) = 1
    BY <1>1, <1>4, <1>7, <1>9, DigitsAre
  <2> QED BY <1>1, <1>4, <1>6, <2>1, ValuesFromDigits
<1> QED BY <1>4, <1>5, <1>7, <1>8, <1>9

\* A cast to the enumeration keeps its flags.
LEMMA EnumIs ==
  ASSUME FlagType, NEW x \in Int
  PROVE  /\ Enumerations!Enum(x) \in FlagValues
         /\ Enumerations!Flags(Enumerations!Enum(x)) = Enumerations!Flags(x)
<1>1. Enumerations!Enum(x) = Enumerations!Converted(underlying, x)
  BY DEF Enumerations!Enum
<1>2. /\ Enumerations!Converted(underlying, x) \in FlagValues
      /\ \A i \in 0 .. underlying.bits - 1 : Digit(Enumerations!Converted(underlying, x), i) = Digit(x, i)
  BY FlagWidths, ConvertedKeepsDigits DEF FlagValues
<1>3. /\ Enumerations!Flags(Enumerations!Enum(x)) = {i \in 0 .. underlying.bits - 1 : Digit(Enumerations!Enum(x), i) = 1}
      /\ Enumerations!Flags(x) = {i \in 0 .. underlying.bits - 1 : Digit(x, i) = 1}
  BY DigitsAre
<1> QED BY <1>1, <1>2, <1>3

\* Values with the same flags are the same.
LEMMA FlagsTellApart ==
  ASSUME FlagType, NEW v \in FlagValues, NEW w \in FlagValues, Enumerations!Flags(v) = Enumerations!Flags(w)
  PROVE  v = w
<1>1. \A i \in 0 .. underlying.bits - 1 : Digit(v, i) = 1 <=> Digit(w, i) = 1
  <2>1. /\ Enumerations!Flags(v) = {i \in 0 .. underlying.bits - 1 : Digit(v, i) = 1}
        /\ Enumerations!Flags(w) = {i \in 0 .. underlying.bits - 1 : Digit(w, i) = 1}
    BY DigitsAre
  <2> QED BY <2>1
<1> QED BY <1>1, FlagWidths, ValuesFromDigits DEF FlagValues

\* A set of ones, as an enumeration: those of its positions are its flags.
LEMMA FlagsOfNumber ==
  ASSUME FlagType, NEW S \in SUBSET (0 .. BitsOfInt - 1)
  PROVE  /\ Enumerations!Enum(Enumerations!Number(S)) \in FlagValues
         /\ Enumerations!Flags(Enumerations!Enum(Enumerations!Number(S))) = S \cap Enumerations!Positions
<1> DEFINE x == Enumerations!Number(S)
<1>1. x \in Int /\ Enumerations!Ones(x) = S
  BY NumberIs
<1> HIDE DEF x
<1>2. Enumerations!Flags(x) = Enumerations!Ones(x) \cap Enumerations!Positions
  BY DigitsAre
<1> QED BY <1>1, <1>2, EnumIs DEF x

\* A number not as far from zero as the divisor has no quotient but its sign.
LEMMA QuotientIsSign ==
  ASSUME NEW M \in Nat \ {0}, NEW v \in Int, -M <= v, v < M
  PROVE  v \div M = IF v < 0 THEN -1 ELSE 0
<1>1. CASE v < 0
  <2>1. (-1) * M + (v + M) = v /\ v + M \in 0 .. M - 1 /\ -1 \in Int
    BY <1>1
  <2>2. ((-1) * M + (v + M)) \div M = -1
    BY <2>1, QuotientIs
  <2> QED BY <1>1, <2>1, <2>2
<1>2. CASE ~(v < 0)
  <2>1. 0 * M + v = v /\ v \in 0 .. M - 1
    BY <1>2
  <2>2. (0 * M + v) \div M = 0
    BY <2>1, QuotientIs
  <2> QED BY <1>2, <2>1, <2>2
<1> QED BY <1>1, <1>2

\* Values of the type are no farther from zero than the power of its width, and the
\* negative ones no farther than half of it.
LEMMA FlagValueBounds ==
  ASSUME FlagType, NEW v \in FlagValues
  PROVE  /\ v \in Int /\ -Power(underlying.bits) <= v /\ v < Power(underlying.bits)
         /\ v < 0 => underlying.signed /\ -Power(underlying.bits - 1) <= v
<1> DEFINE all == Power(underlying.bits)
           half == Power(underlying.bits - 1)
           low == LowOf(underlying)
<1>1. low \in Nat /\ low < all /\ all \in Nat /\ v \in -low .. all - 1 - low
  BY FlagWidths, ValuesOfFlagType DEF FlagValues
<1>2. low = IF underlying.signed THEN half ELSE 0
  BY DEF LowOf
<1>3. half \in Nat
  <2>1. underlying.bits - 1 \in 0 .. BitsOfInt
    BY FlagWidths, PowersOfTwo
  <2> QED BY <2>1, PowersOfTwo
<1> HIDE DEF all, half, low
<1>4. v \in Int /\ -all <= v /\ v < all
  BY <1>1
<1>5. ASSUME v < 0 PROVE underlying.signed /\ -half <= v
  <2>1. low > 0
    BY <1>1, <1>5
  <2>2. underlying.signed /\ low = half
    BY <1>2, <2>1
  <2> QED BY <1>1, <2>2
<1> QED BY <1>4, <1>5 DEF all, half

\* Beyond the width, the digits are those of the sign, which has a position of its own.
LEMMA SignIsExtended ==
  ASSUME FlagType, NEW v \in FlagValues, NEW i \in Enumerations!Ones(v), i \notin Enumerations!Positions
  PROVE  v < 0 /\ underlying.bits - 1 \in Enumerations!Flags(v)
<1> DEFINE b == underlying.bits
<1>1. b \in 2 .. BitsOfInt /\ BitsOfInt \in Nat
  BY FlagWidths, PowersOfTwo
<1>2. i \in 0 .. BitsOfInt - 1 /\ Digit(v, i) = 1 /\ i \notin 0 .. b - 1
  BY DigitsAre
<1> DEFINE M == Power(i)
           h == Power(b - 1)
           all == Power(b)
<1>3. v \in Int /\ -all <= v /\ v < all /\ (v < 0 => -h <= v)
  BY FlagValueBounds
<1> HIDE DEF b
<1>4. i \in Nat /\ b \in 0 .. BitsOfInt /\ b - 1 \in 0 .. BitsOfInt /\ i - b \in 0 .. BitsOfInt /\ b + (i - b) = i
      /\ i \in 0 .. BitsOfInt
  BY <1>1, <1>2
<1>5. M = Power(i - b) * all /\ Power(i - b) \in Nat \ {0} /\ all \in Nat \ {0} /\ h \in Nat \ {0} /\ M \in Nat \ {0}
  <2>1. b \in Nat /\ i - b \in Nat /\ b + (i - b) <= BitsOfInt
    BY <1>4
  <2>2. Power(b + (i - b)) = Power(i - b) * Power(b)
    BY <2>1, PowersMultiply
  <2> QED BY <1>4, <2>2, PowersOfTwo
<1>6. all <= M
  <2> DEFINE c == Power(i - b)
  <2>1. PICK more \in Nat : c = 1 + more
    <3>1. c - 1 \in Nat /\ c = 1 + (c - 1)
      BY <1>5
    <3> QED BY <3>1
  <2> HIDE DEF c, all, M
  <2>2. (1 + more) * all = all + more * all /\ more * all \in Nat
    BY <1>5
  <2>3. M = (1 + more) * all
    BY <1>5, <2>1 DEF c
  <2> QED BY <1>5, <2>2, <2>3
<1> HIDE DEF M, h, all
<1>7. v \div M = IF v < 0 THEN -1 ELSE 0
  <2>1. -M <= v /\ v < M
    BY <1>3, <1>5, <1>6
  <2> QED BY <1>3, <1>5, <2>1, QuotientIsSign
<1>8. v < 0
  BY <1>2, <1>7 DEF Digit, M
<1>9. v \div h = -1
  <2>1. -h <= v /\ v < h
    BY <1>3, <1>5, <1>8
  <2> QED BY <1>3, <1>5, <1>8, <2>1, QuotientIsSign
<1>10. Digit(v, b - 1) = 1
  BY <1>9 DEF Digit, h
<1>11. b - 1 \in 0 .. b - 1
  BY <1>1
<1> QED BY <1>8, <1>10, <1>11, DigitsAre DEF b

\* |, &, ^ and ~ are union, intersection, symmetric difference and complement.
LEMMA BitwiseOperators ==
  ASSUME FlagType, NEW v \in FlagValues, NEW w \in FlagValues
  PROVE  /\ Enumerations!Or(v, w) \in FlagValues
         /\ Enumerations!And(v, w) \in FlagValues
         /\ Enumerations!Xor(v, w) \in FlagValues
         /\ Enumerations!Not(v) \in FlagValues
         /\ Enumerations!Flags(Enumerations!Or(v, w)) = Enumerations!Flags(v) \cup Enumerations!Flags(w)
         /\ Enumerations!Flags(Enumerations!And(v, w)) = Enumerations!Flags(v) \cap Enumerations!Flags(w)
         /\ Enumerations!Flags(Enumerations!Xor(v, w)) =
              {i \in Enumerations!Positions : (i \in Enumerations!Flags(v)) # (i \in Enumerations!Flags(w))}
         /\ Enumerations!Flags(Enumerations!Not(v)) = Enumerations!Positions \ Enumerations!Flags(v)
<1> DEFINE A == Enumerations!Ones(v)
           B == Enumerations!Ones(w)
           all == 0 .. BitsOfInt - 1
           Cast(S) == Enumerations!Enum(Enumerations!Number(S))
<1>1. A \in SUBSET all /\ B \in SUBSET all
  BY DigitsAre
<1>2. /\ Enumerations!Flags(v) = A \cap Enumerations!Positions
      /\ Enumerations!Flags(w) = B \cap Enumerations!Positions
  BY DigitsAre
<1>3. Enumerations!Positions \subseteq all
  <2>1. underlying.bits \in 2 .. BitsOfInt /\ BitsOfInt \in Nat
    BY FlagWidths, PowersOfTwo
  <2> QED BY <2>1 DEF Enumerations!Positions
<1>4. \A S \in SUBSET all : Cast(S) \in FlagValues /\ Enumerations!Flags(Cast(S)) = S \cap Enumerations!Positions
  BY FlagsOfNumber
<1>5. /\ Enumerations!Or(v, w) = Cast(A \cup B)
      /\ Enumerations!And(v, w) = Cast(A \cap B)
      /\ Enumerations!Xor(v, w) = Cast((A \cup B) \ (A \cap B))
  BY Zenon DEF Enumerations!Or, Enumerations!And, Enumerations!Xor
<1>6. Enumerations!Not(v) = Cast(all \ A)
  <2>1. Enumerations!Promoted.bits = BitsOfInt
    BY FlagWidths
  <2> QED BY <2>1, Zenon DEF Enumerations!Not
<1> HIDE DEF Cast, A, B, all
<1>7. A \cup B \in SUBSET all /\ A \cap B \in SUBSET all /\ (A \cup B) \ (A \cap B) \in SUBSET all /\ all \ A \in SUBSET all
  BY <1>1
<1>8. ((A \cup B) \ (A \cap B)) \cap Enumerations!Positions =
        {i \in Enumerations!Positions : (i \in Enumerations!Flags(v)) # (i \in Enumerations!Flags(w))}
  BY <1>2
<1>9. (all \ A) \cap Enumerations!Positions = Enumerations!Positions \ Enumerations!Flags(v)
  BY <1>2, <1>3
<1>10. /\ (A \cup B) \cap Enumerations!Positions = Enumerations!Flags(v) \cup Enumerations!Flags(w)
       /\ (A \cap B) \cap Enumerations!Positions = Enumerations!Flags(v) \cap Enumerations!Flags(w)
  BY <1>2
<1>11. /\ Enumerations!Or(v, w) \in FlagValues /\ Enumerations!And(v, w) \in FlagValues
       /\ Enumerations!Xor(v, w) \in FlagValues /\ Enumerations!Not(v) \in FlagValues
  BY <1>4, <1>5, <1>6, <1>7
<1>12. /\ Enumerations!Flags(Enumerations!Or(v, w)) = Enumerations!Flags(v) \cup Enumerations!Flags(w)
       /\ Enumerations!Flags(Enumerations!And(v, w)) = Enumerations!Flags(v) \cap Enumerations!Flags(w)
  BY <1>4, <1>5, <1>7, <1>10
<1>13. Enumerations!Flags(Enumerations!Xor(v, w)) =
              {i \in Enumerations!Positions : (i \in Enumerations!Flags(v)) # (i \in Enumerations!Flags(w))}
  BY <1>4, <1>5, <1>7, <1>8
<1>14. Enumerations!Flags(Enumerations!Not(v)) = Enumerations!Positions \ Enumerations!Flags(v)
  BY <1>4, <1>6, <1>7, <1>9
<1> QED BY <1>11, <1>12, <1>13, <1>14

\* FlagIsSet looks for a flag in common; the ones of promoted signs have it, too.
LEMMA FlagIsSetIs ==
  ASSUME FlagType, NEW v \in FlagValues, NEW w \in FlagValues
  PROVE  Enumerations!FlagIsSet(v, w) <=> Enumerations!Flags(v) \cap Enumerations!Flags(w) # {}
<1> DEFINE S == Enumerations!Ones(v) \cap Enumerations!Ones(w)
<1>1. S \in SUBSET (0 .. BitsOfInt - 1)
  BY DigitsAre
<1>2. /\ Enumerations!Flags(v) = Enumerations!Ones(v) \cap Enumerations!Positions
      /\ Enumerations!Flags(w) = Enumerations!Ones(w) \cap Enumerations!Positions
  BY DigitsAre
<1>3. Enumerations!FlagIsSet(v, w) <=> S # {}
  <2>1. Enumerations!Number(S) = 0 <=> S = {}
    <3> HIDE DEF S
    <3> QED BY <1>1, NumberIs
  <2> QED BY <2>1, Zenon DEF Enumerations!FlagIsSet
<1>4. ASSUME S # {} PROVE Enumerations!Flags(v) \cap Enumerations!Flags(w) # {}
  <2>1. PICK i \in S : TRUE
    BY <1>4
  <2>2. CASE i \in Enumerations!Positions
    BY <1>2, <2>2
  <2>3. CASE i \notin Enumerations!Positions
    <3>1. underlying.bits - 1 \in Enumerations!Flags(v) /\ underlying.bits - 1 \in Enumerations!Flags(w)
      BY <2>3, SignIsExtended
    <3> QED BY <3>1
  <2> QED BY <2>2, <2>3
<1>5. Enumerations!Flags(v) \cap Enumerations!Flags(w) # {} => S # {}
  BY <1>2
<1> QED BY <1>3, <1>4, <1>5

\* Dividing twice is dividing by the product.
LEMMA DividedTwice ==
  ASSUME NEW v \in Int, NEW a \in Nat \ {0}, NEW b \in Nat \ {0}
  PROVE  (v \div a) \div b = v \div (b * a)
<1> DEFINE q == v \div a
           p == q \div b
<1>1. q \in Int /\ \E r \in 0 .. a - 1 : v = q * a + r
  BY Divided
<1> HIDE DEF q
<1>2. p \in Int /\ \E s \in 0 .. b - 1 : q = p * b + s
  BY <1>1, Divided
<1> HIDE DEF p
<1>3. PICK r \in 0 .. a - 1 : v = q * a + r
  BY <1>1
<1>4. PICK s \in 0 .. b - 1 : q = p * b + s
  BY <1>2
<1>5. v = p * (b * a) + (s * a + r)
  <2>1. (p * b + s) * a = p * (b * a) + s * a
    BY <1>2
  <2>2. p * (b * a) \in Int /\ s * a \in Int
    BY <1>2
  <2> QED BY <1>3, <1>4, <2>1, <2>2
<1>6. b * a \in Nat \ {0} /\ s * a + r \in 0 .. b * a - 1
  <2>1. PICK more \in Nat : b = s + 1 + more
    <3>1. b - s - 1 \in Nat /\ b = s + 1 + (b - s - 1)
      OBVIOUS
    <3> QED BY <3>1
  <2>2. (s + 1 + more) * a = s * a + a + more * a /\ s * a \in Nat /\ more * a \in Nat
    OBVIOUS
  <2>3. b * a = s * a + a + more * a
    BY <2>1, <2>2
  <2> QED BY <2>2, <2>3
<1>7. (p * (b * a) + (s * a + r)) \div (b * a) = p
  <2> DEFINE c == b * a
             e == s * a + r
  <2>1. c \in Nat \ {0} /\ e \in 0 .. c - 1
    BY <1>6
  <2> HIDE DEF c, e
  <2>2. (p * c + e) \div c = p
    BY <1>2, <2>1, QuotientIs
  <2> QED BY <2>2 DEF c, e
<1> QED BY <1>5, <1>7 DEF p, q

\* << moves the digits up and fills with zeros.
LEMMA DigitsShiftedLeft ==
  ASSUME NEW v \in Int, NEW i \in 0 .. BitsOfInt, NEW f \in 0 .. BitsOfInt
  PROVE  Digit(v * Power(i), f) = IF f < i THEN 0 ELSE Digit(v, f - i)
<1>1. BitsOfInt \in Nat /\ Power(i) \in Nat \ {0} /\ Power(f) \in Nat \ {0}
  BY PowersOfTwo
<1>2. CASE f < i
  <2>1. f \in 0 .. i - 1 /\ 0 \in Int /\ 0 + v * Power(i) = v * Power(i)
    BY <1>1, <1>2
  <2>2. Digit(0 + v * Power(i), f) = Digit(0, f)
    BY <2>1, DigitsOfTurns
  <2> QED BY <1>2, <2>1, <2>2, DigitsAreBits
<1>3. CASE ~(f < i)
  <2> DEFINE a == Power(i)
             b == Power(f - i)
             x == v * a
  <2>1. f - i \in Nat /\ i \in Nat /\ f - i \in 0 .. BitsOfInt /\ i + (f - i) = f /\ i + (f - i) <= BitsOfInt
    BY <1>1, <1>3
  <2>2. Power(f) = b * a
    BY <2>1, PowersMultiply
  <2>3. a \in Nat \ {0} /\ b \in Nat \ {0}
    BY <1>1, <2>1, PowersOfTwo
  <2> HIDE DEF a, b
  <2>4. x \in Int /\ x = v * a + 0 /\ 0 \in 0 .. a - 1
    BY <2>3
  <2>5. x \div a = v
    <3>1. (v * a + 0) \div a = v
      BY <2>3, <2>4, QuotientIs
    <3> QED BY <2>4, <3>1
  <2> HIDE DEF x
  <2>6. v \div b = x \div Power(f)
    BY <2>2, <2>3, <2>4, <2>5, DividedTwice
  <2>7. Digit(x, f) = Digit(v, f - i)
    BY <2>6, Zenon DEF Digit, b
  <2> QED BY <1>3, <2>7 DEF x, a
<1> QED BY <1>2, <1>3

\* >> moves them down, and fills with the sign.
LEMMA DigitsShiftedRight ==
  ASSUME FlagType, NEW v \in FlagValues, NEW i \in 0 .. BitsOfInt - 1, NEW f \in 0 .. underlying.bits - 1
  PROVE  Digit(v \div Power(i), f) =
           IF f + i < underlying.bits THEN Digit(v, f + i) ELSE IF v < 0 THEN 1 ELSE 0
<1> DEFINE n == underlying.bits
           a == Power(i)
           b == Power(f)
           all == Power(n)
<1>1. n \in 2 .. BitsOfInt /\ BitsOfInt \in Nat
  BY FlagWidths, PowersOfTwo
<1>2. v \in Int /\ -all <= v /\ v < all
  BY FlagValueBounds
<1> HIDE DEF n
<1>3. f \in 0 .. n - 1
  BY DEF n
<1>4. i \in Nat /\ f \in Nat /\ i \in 0 .. BitsOfInt /\ f \in 0 .. BitsOfInt /\ n \in 0 .. BitsOfInt
  BY <1>1, <1>3
<1>5. a \in Nat \ {0} /\ b \in Nat \ {0} /\ all \in Nat \ {0}
  BY <1>4, PowersOfTwo
<1>6. Digit(v \div a, f) = (v \div (b * a)) % 2
  <2>1. Digit(v \div a, f) = ((v \div a) \div b) % 2
    BY Zenon DEF Digit
  <2> HIDE DEF a, b
  <2>2. (v \div a) \div b = v \div (b * a)
    BY <1>2, <1>5, DividedTwice
  <2> QED BY <2>1, <2>2
<1>7. CASE f + i < n
  <2>1. i + f = f + i /\ i + f <= BitsOfInt
    BY <1>1, <1>4, <1>7
  <2>2. Power(f + i) = b * a
    BY <1>4, <2>1, PowersMultiply
  <2>3. Digit(v, f + i) = (v \div (b * a)) % 2
    BY <2>2, Zenon DEF Digit
  <2> QED BY <1>6, <1>7, <2>3 DEF n
<1>8. CASE ~(f + i < n)
  <2> DEFINE g == n - f
             rest == i - g
             c == Power(g)
             d == Power(rest)
  <2>1. g \in Nat /\ rest \in Nat /\ f + g = n /\ g + rest = i /\ f + g <= BitsOfInt /\ g + rest <= BitsOfInt
        /\ g \in 0 .. BitsOfInt /\ rest \in 0 .. BitsOfInt
    BY <1>1, <1>3, <1>4, <1>8
  <2> HIDE DEF g, rest
  <2>2. all = c * b /\ a = d * c
    BY <1>4, <2>1, PowersMultiply
  <2>3. c \in Nat \ {0} /\ d \in Nat \ {0}
    BY <2>1, PowersOfTwo
  <2> HIDE DEF c, d, a, b, all
  <2> DEFINE M == b * a
  <2>4. M \in Nat \ {0} /\ all <= M
    <3>1. PICK more \in Nat : d = 1 + more
      <4>1. d - 1 \in Nat /\ d = 1 + (d - 1)
        BY <2>3
      <4> QED BY <4>1
    <3>2. b * ((1 + more) * c) = c * b + more * (c * b) /\ more * (c * b) \in Nat /\ c * b \in Nat
      BY <1>5, <2>3
    <3>3. M = c * b + more * (c * b)
      BY <2>2, <3>1, <3>2
    <3> QED BY <1>5, <2>2, <3>2, <3>3
  <2> HIDE DEF M
  <2>5. -M <= v /\ v < M
    BY <1>2, <1>5, <2>4
  <2>6. v \div M = IF v < 0 THEN -1 ELSE 0
    BY <1>2, <2>4, <2>5, QuotientIsSign
  <2>7. (v \div M) % 2 = IF v < 0 THEN 1 ELSE 0
    BY <2>6
  <2> QED BY <1>6, <1>8, <2>7 DEF M, n, a
<1> QED BY <1>7, <1>8 DEF a, n

\* The shifts of sets of flags.
LEMMA ShiftOperators ==
  ASSUME FlagType, NEW v \in FlagValues, NEW i \in 0 .. BitsOfInt - 1
  PROVE  /\ Enumerations!ShiftLeft(v, i) \in FlagValues
         /\ Enumerations!ShiftRight(v, i) \in FlagValues
         /\ Enumerations!Flags(Enumerations!ShiftLeft(v, i)) =
              {f + i : f \in Enumerations!Flags(v)} \cap Enumerations!Positions
         /\ Enumerations!Flags(Enumerations!ShiftRight(v, i)) =
              {f \in Enumerations!Positions : f + i \in Enumerations!Flags(v) \/ (v < 0 /\ f + i >= underlying.bits)}
<1> DEFINE n == underlying.bits
           P == Enumerations!Promoted
           up == v * Power(i)
           down == v \div Power(i)
           wide_ == Enumerations!Converted(P, up)
<1>1. n \in 2 .. BitsOfInt /\ BitsOfInt \in Nat /\ P \in FlagTypes /\ P.bits = BitsOfInt
  BY FlagWidths, PowersOfTwo
<1>2. i \in Nat /\ i \in 0 .. BitsOfInt /\ Power(i) \in Nat \ {0} /\ v \in Int
  <2>1. i \in Nat /\ i \in 0 .. BitsOfInt
    BY <1>1
  <2> QED BY <2>1, PowersOfTwo, FlagValueBounds
<1>3. up \in Int /\ down \in Int
  <2> DEFINE M == Power(i)
  <2>1. M \in Nat \ {0}
    BY <1>2
  <2> HIDE DEF M
  <2>2. v * M \in Int /\ v \div M \in Int
    BY <1>2, <2>1
  <2> QED BY <2>2 DEF M
<1>4. Enumerations!Positions = 0 .. n - 1 /\ Enumerations!Flags(v) = {f \in 0 .. n - 1 : Digit(v, f) = 1}
  BY DigitsAre
<1>5. Enumerations!ShiftLeft(v, i) = Enumerations!Enum(wide_) /\ Enumerations!ShiftRight(v, i) = Enumerations!Enum(down)
  BY Zenon DEF Enumerations!ShiftLeft, Enumerations!ShiftRight, Power
<1> HIDE DEF up, down, P
<1>6. wide_ \in Int /\ \A f \in 0 .. BitsOfInt - 1 : Digit(wide_, f) = Digit(up, f)
  BY <1>1, <1>3, ConvertedKeepsDigits
<1> HIDE DEF wide_, n
<1>7. /\ Enumerations!Enum(wide_) \in FlagValues /\ Enumerations!Enum(down) \in FlagValues
      /\ Enumerations!Flags(Enumerations!Enum(wide_)) = Enumerations!Flags(wide_)
      /\ Enumerations!Flags(Enumerations!Enum(down)) = Enumerations!Flags(down)
  BY <1>3, <1>6, EnumIs
<1>8. /\ Enumerations!Flags(wide_) = {f \in 0 .. n - 1 : Digit(wide_, f) = 1}
      /\ Enumerations!Flags(down) = {f \in 0 .. n - 1 : Digit(down, f) = 1}
  BY DigitsAre DEF n
<1>9. ASSUME NEW f \in 0 .. n - 1
      PROVE  Digit(wide_, f) = IF f < i THEN 0 ELSE Digit(v, f - i)
  <2>1. f \in 0 .. BitsOfInt - 1 /\ f \in 0 .. BitsOfInt
    BY <1>1
  <2>2. Digit(up, f) = IF f < i THEN 0 ELSE Digit(v, f - i)
    BY <1>2, <2>1, DigitsShiftedLeft DEF up
  <2> QED BY <1>6, <2>1, <2>2
<1>10. ASSUME NEW f \in 0 .. n - 1
       PROVE  Digit(down, f) = IF f + i < n THEN Digit(v, f + i) ELSE IF v < 0 THEN 1 ELSE 0
  BY DigitsShiftedRight DEF n, down
<1>11. Enumerations!Flags(wide_) = {f + i : f \in Enumerations!Flags(v)} \cap Enumerations!Positions
  <2>1. ASSUME NEW f \in Enumerations!Flags(wide_)
        PROVE  f \in Enumerations!Positions /\ \E g \in Enumerations!Flags(v) : f = g + i
    <3>1. f \in 0 .. n - 1 /\ Digit(wide_, f) = 1
      BY <1>8, <2>1
    <3>2. ~(f < i) /\ Digit(v, f - i) = 1
      BY <1>9, <3>1
    <3>3. f - i \in 0 .. n - 1 /\ f = (f - i) + i
      BY <1>1, <1>2, <3>1, <3>2
    <3> QED BY <1>4, <3>1, <3>2, <3>3
  <2>2. ASSUME NEW g \in Enumerations!Flags(v), g + i \in Enumerations!Positions
        PROVE  g + i \in Enumerations!Flags(wide_)
    <3>1. g \in 0 .. n - 1 /\ Digit(v, g) = 1 /\ g + i \in 0 .. n - 1
      BY <1>4, <2>2
    <3>2. ~(g + i < i) /\ (g + i) - i = g
      BY <1>1, <1>2, <3>1
    <3>3. Digit(wide_, g + i) = 1
      BY <1>9, <3>1, <3>2
    <3> QED BY <1>8, <3>1, <3>3
  <2> QED BY <2>1, <2>2
<1>12. Enumerations!Flags(down) =
         {f \in Enumerations!Positions : f + i \in Enumerations!Flags(v) \/ (v < 0 /\ f + i >= n)}
  <2>1. ASSUME NEW f \in 0 .. n - 1
        PROVE  Digit(down, f) = 1 <=> f + i \in Enumerations!Flags(v) \/ (v < 0 /\ f + i >= n)
    <3>1. f \in Nat /\ n \in Nat /\ f + i \in Nat
      BY <1>1, <1>2
    <3>2. CASE f + i < n
      <4>1. f + i \in 0 .. n - 1 /\ ~(f + i >= n)
        BY <3>1, <3>2
      <4>2. Digit(down, f) = Digit(v, f + i)
        BY <1>10, <3>2
      <4> QED BY <1>4, <4>1, <4>2
    <3>3. CASE ~(f + i < n)
      <4>1. f + i \notin 0 .. n - 1 /\ f + i >= n
        BY <3>1, <3>3
      <4>2. Digit(down, f) = IF v < 0 THEN 1 ELSE 0
        BY <1>10, <3>3
      <4> QED BY <1>4, <4>1, <4>2
    <3> QED BY <3>2, <3>3
  <2> QED BY <1>4, <1>8, <2>1
<1> QED BY <1>5, <1>7, <1>11, <1>12 DEF n

\* The flags are a value of the type whatever is done to them.
FlagInv == component = "flags" => FlagType /\ flags \in FlagValues

\* Every operator gives a value of the enumeration.
LEMMA FlagInvHolds == Spec => []FlagInv
<1>1. Init => FlagInv
  BY DEF Init, FlagInv, FlagType, FlagValues, Enumerations!Init
<1>2. FlagInv /\ [Next]_vars => FlagInv'
  <2> SUFFICES ASSUME FlagInv, [Next]_vars, component' = "flags" PROVE FlagType' /\ (flags \in FlagValues)'
    BY DEF FlagInv
  <2>1. component = "flags" /\ (Enumerations!Next \/ UNCHANGED <<underlying, flags>>)
    BY DEF Next, vars, enumeration
  <2>2. FlagType /\ flags \in FlagValues
    BY <2>1 DEF FlagInv
  <2>3. underlying' = underlying
    BY <2>1 DEF Enumerations!Next
  <2>4. flags' \in FlagValues
    <3>1. CASE UNCHANGED <<underlying, flags>>
      BY <2>2, <3>1
    <3>2. ASSUME NEW rhs \in FlagValues,
                 Enumerations!OrAssign(rhs) \/ Enumerations!AndAssign(rhs) \/ Enumerations!XorAssign(rhs)
          PROVE  flags' \in FlagValues
      BY <2>2, <3>2, BitwiseOperators DEF Enumerations!OrAssign, Enumerations!AndAssign, Enumerations!XorAssign
    <3>3. CASE flags' = Enumerations!Not(flags)
      BY <2>2, <3>3, BitwiseOperators
    <3>4. ASSUME NEW i \in 0 .. BitsOfInt - 1, Enumerations!ShiftLeftAssign(i) \/ Enumerations!ShiftRightAssign(i)
          PROVE  flags' \in FlagValues
      BY <2>2, <3>4, ShiftOperators DEF Enumerations!ShiftLeftAssign, Enumerations!ShiftRightAssign
    <3> QED BY <2>1, <3>1, <3>2, <3>3, <3>4 DEF Enumerations!Next, FlagValues
  <2>5. FlagValues' = FlagValues
    BY <2>3 DEF FlagValues, Enumerations!ValuesOf, Enumerations!lowest, Enumerations!max
  <2> QED BY <2>2, <2>3, <2>4, <2>5 DEF FlagType
<1> QED BY <1>1, <1>2, PTL DEF Spec

\* The operators of an enumeration are those of sets of flags.
LEMMA OperatorsHold ==
  ASSUME FlagType, flags \in FlagValues
  PROVE  Enumerations!OperatorsOfSets
<1>1. \A rhs \in FlagValues :
        /\ Enumerations!Flags(Enumerations!Or(flags, rhs)) = Enumerations!Flags(flags) \cup Enumerations!Flags(rhs)
        /\ Enumerations!Flags(Enumerations!And(flags, rhs)) = Enumerations!Flags(flags) \cap Enumerations!Flags(rhs)
        /\ Enumerations!Flags(Enumerations!Xor(flags, rhs)) =
             {i \in Enumerations!Positions : (i \in Enumerations!Flags(flags)) # (i \in Enumerations!Flags(rhs))}
        /\ Enumerations!FlagIsSet(flags, rhs) <=> Enumerations!Flags(flags) \cap Enumerations!Flags(rhs) # {}
  BY BitwiseOperators, FlagIsSetIs
<1>2. Enumerations!Flags(Enumerations!Not(flags)) = Enumerations!Positions \ Enumerations!Flags(flags)
  BY BitwiseOperators
<1>3. \A i \in 0 .. BitsOfInt - 1 :
        /\ Enumerations!Flags(Enumerations!ShiftLeft(flags, i)) =
             {f + i : f \in Enumerations!Flags(flags)} \cap Enumerations!Positions
        /\ Enumerations!Flags(Enumerations!ShiftRight(flags, i)) =
             {f \in Enumerations!Positions :
                f + i \in Enumerations!Flags(flags) \/ (flags < 0 /\ f + i >= underlying.bits)}
  BY ShiftOperators
<1>4. Enumerations!Promoted.bits = BitsOfInt
  BY FlagWidths
<1> QED BY <1>1, <1>2, <1>3, <1>4, Zenon DEF Enumerations!OperatorsOfSets, FlagValues

-----------------------------------------------------------------------------
(* The elements of a set of integers by their rank.                        *)

Below(S, x) == {y \in S : y < x}
Rank(S, x) == Cardinality(Below(S, x))

\* The j-th element of S, counted from one, lowest first.
Nth(S, j) == CHOOSE x \in S : Rank(S, x) = j - 1

Finite(S) == IsFiniteSet(S) /\ S \subseteq Int

\* Of two elements, the higher has the higher rank; and ranks count what is in the set.
LEMMA RanksDiffer ==
  ASSUME NEW S, Finite(S), NEW x \in S
  PROVE  /\ Rank(S, x) \in 0 .. Cardinality(S) - 1
         /\ \A y \in S : x < y => Rank(S, x) < Rank(S, y)
<1>1. IsFiniteSet(S) /\ S \subseteq Int /\ Cardinality(S) \in Nat
  BY FS_CardinalityType DEF Finite
<1>2. ASSUME NEW T, IsFiniteSet(T), Below(S, x) \subseteq T, NEW z \in T, z \notin Below(S, x)
      PROVE  Rank(S, x) \in Nat /\ Rank(S, x) < Cardinality(T)
  <2>1. IsFiniteSet(Below(S, x)) /\ Cardinality(Below(S, x)) <= Cardinality(T) /\ Cardinality(Below(S, x)) # Cardinality(T)
    BY <1>2, FS_Subset
  <2>2. Cardinality(Below(S, x)) \in Nat /\ Cardinality(T) \in Nat
    BY <1>2, <2>1, FS_CardinalityType
  <2> QED BY <2>1, <2>2 DEF Rank
<1>3. Below(S, x) \subseteq S /\ x \notin Below(S, x)
  BY <1>1 DEF Below
<1>4. Rank(S, x) \in Nat /\ Rank(S, x) < Cardinality(S)
  BY <1>1, <1>2, <1>3
<1>5. ASSUME NEW y \in S, x < y PROVE Rank(S, x) < Rank(S, y)
  <2>1. Below(S, x) \subseteq Below(S, y) /\ x \in Below(S, y)
    <3>1. \A z \in S : z < x => z < y
      BY <1>1, <1>5
    <3> QED BY <1>5, <3>1 DEF Below
  <2>2. IsFiniteSet(Below(S, y))
    BY <1>1, FS_Subset DEF Below
  <2> QED BY <1>2, <1>3, <2>1, <2>2 DEF Rank
<1> QED BY <1>1, <1>4, <1>5

\* Every rank is taken, once.
LEMMA NthIs ==
  ASSUME NEW S, Finite(S), NEW j \in 1 .. Cardinality(S)
  PROVE  /\ Nth(S, j) \in S /\ Rank(S, Nth(S, j)) = j - 1
         /\ \A x \in S : Rank(S, x) = j - 1 => x = Nth(S, j)
<1> DEFINE n == Cardinality(S)
           R == 0 .. n - 1
           f == [x \in S |-> Rank(S, x)]
<1>1. IsFiniteSet(S) /\ S \subseteq Int /\ n \in Nat
  BY FS_CardinalityType DEF Finite
<1>2. \A x, y \in S : x # y => Rank(S, x) # Rank(S, y)
  <2> SUFFICES ASSUME NEW x \in S, NEW y \in S, x # y PROVE Rank(S, x) # Rank(S, y)
    OBVIOUS
  <2>1. Rank(S, x) \in Int /\ Rank(S, y) \in Int
    BY <1>1, RanksDiffer
  <2>2. x < y \/ y < x
    BY <1>1
  <2> QED BY <2>1, <2>2, RanksDiffer
<1>3. \A x \in S : Rank(S, x) \in R
  BY RanksDiffer
<1>4. IsFiniteSet(R) /\ Cardinality(R) = n
  <2>1. n - 1 \in Int /\ 0 \in Int
    BY <1>1
  <2>2. IsFiniteSet(R) /\ Cardinality(R) = IF 0 > n - 1 THEN 0 ELSE n - 1 - 0 + 1
    <3> HIDE DEF n
    <3> QED BY <2>1, FS_Interval
  <2> QED BY <1>1, <2>2
<1> HIDE DEF n, R
<1>5. f \in Injection(S, R)
  BY <1>2, <1>3 DEF Injection, IsInjective
<1>6. f \in Surjection(S, R)
  <2> HIDE DEF f
  <2> QED BY <1>4, <1>5, FS_Injection DEF n
<1>7. \A r \in R : \E x \in S : Rank(S, x) = r
  BY <1>6 DEF Surjection
<1>8. j - 1 \in R
  BY <1>1 DEF R, n
<1>9. \E x \in S : Rank(S, x) = j - 1
  BY <1>7, <1>8
<1>10. Nth(S, j) \in S /\ Rank(S, Nth(S, j)) = j - 1
  BY <1>9, Zenon DEF Nth
<1> QED BY <1>2, <1>10

\* One element more, lower than all, is the first, and the others are the next.
LEMMA NthOfMore ==
  ASSUME NEW S, Finite(S), NEW k \in Int, \A x \in S : k < x
  PROVE  /\ Finite(S \cup {k}) /\ Cardinality(S \cup {k}) = Cardinality(S) + 1 /\ Cardinality(S) \in Nat
         /\ Nth(S \cup {k}, 1) = k
         /\ \A j \in 1 .. Cardinality(S) : Nth(S \cup {k}, j + 1) = Nth(S, j)
<1> DEFINE T == S \cup {k}
<1>1. IsFiniteSet(S) /\ S \subseteq Int /\ Cardinality(S) \in Nat /\ k \notin S
  BY FS_CardinalityType DEF Finite
<1>2. Finite(T) /\ Cardinality(T) = Cardinality(S) + 1
  BY <1>1, FS_AddElement DEF Finite
<1>3. Rank(T, k) = 0
  <2>1. Below(T, k) = {}
    <3>1. \A y \in T : ~(y < k)
      BY <1>1
    <3> QED BY <3>1 DEF Below
  <2> QED BY <2>1, FS_EmptySet DEF Rank
<1>4. ASSUME NEW x \in S PROVE Rank(T, x) = Rank(S, x) + 1
  <2>1. Below(T, x) = Below(S, x) \cup {k} /\ k \notin Below(S, x) /\ Below(S, x) \subseteq S
    BY <1>1 DEF Below
  <2>2. IsFiniteSet(Below(S, x))
    BY <1>1, <2>1, FS_Subset
  <2> QED BY <2>1, <2>2, FS_AddElement DEF Rank
<1>5. Nth(T, 1) = k
  <2>1. 1 \in 1 .. Cardinality(T)
    BY <1>1, <1>2
  <2>2. k \in T /\ Rank(T, k) = 1 - 1
    BY <1>3
  <2> HIDE DEF T
  <2> QED BY <1>2, <2>1, <2>2, NthIs
<1>6. ASSUME NEW j \in 1 .. Cardinality(S) PROVE Nth(T, j + 1) = Nth(S, j)
  <2>1. Nth(S, j) \in S /\ Rank(S, Nth(S, j)) = j - 1
    BY NthIs
  <2>2. Rank(T, Nth(S, j)) = (j + 1) - 1 /\ Nth(S, j) \in T
    <3>1. Rank(T, Nth(S, j)) = (j - 1) + 1
      BY <1>4, <2>1
    <3> QED BY <2>1, <3>1
  <2>3. j + 1 \in 1 .. Cardinality(T)
    BY <1>1, <1>2
  <2> HIDE DEF T
  <2> QED BY <1>2, <2>2, <2>3, NthIs
<1> QED BY <1>1, <1>2, <1>5, <1>6

\* The elements of list at the indices in S, in order.
Listed(list, S) == [j \in 1 .. Cardinality(S) |-> list[Nth(S, j)]]

Listing(list, S, V) ==
  /\ Listed(list, S) \in Seq(V) /\ Len(Listed(list, S)) = Cardinality(S)
  /\ \A j \in 1 .. Cardinality(S) : Nth(S, j) \in S /\ Listed(list, S)[j] = list[Nth(S, j)]

\* What lists the elements at finitely many indices is a list of that many of them.
LEMMA ListedIs ==
  ASSUME NEW V, NEW list, NEW S, Finite(S), \A i \in S : list[i] \in V
  PROVE  Cardinality(S) \in Nat /\ Listing(list, S, V)
<1> DEFINE n == Cardinality(S)
           s == Listed(list, S)
<1>1. n \in Nat
  BY FS_CardinalityType DEF Finite
<1>2. \A j \in 1 .. n : Nth(S, j) \in S
  BY NthIs
<1>3. s = [j \in 1 .. n |-> list[Nth(S, j)]]
  BY DEF Listed
<1> HIDE DEF n, s
<1>4. s \in [1 .. n -> V] /\ \A j \in 1 .. n : s[j] = list[Nth(S, j)]
  BY <1>2, <1>3
<1>5. s \in Seq(V) /\ Len(s) = n
  <2>1. s \in Seq(V)
    BY <1>1, <1>4, SeqDef
  <2>2. DOMAIN s = 1 .. n /\ DOMAIN s = 1 .. Len(s) /\ Len(s) \in Nat
    BY <1>4, <2>1, LenProperties
  <2> QED BY <1>1, <2>1, <2>2
<1> QED BY <1>1, <1>2, <1>4, <1>5 DEF Listing, n, s

Lower(k, S) == \A x \in S : k < x
ListedFirst(list, S, k) == Listed(list, S \cup {k}) = <<list[k]>> \o Listed(list, S)
ElementsIn(list, S, V) == \A i \in S : list[i] \in V

\* An index more, lower than all, is one element more at the front.
LEMMA ListedMore ==
  ASSUME NEW V, NEW list, NEW S, Finite(S), NEW k \in Int, Lower(k, S), ElementsIn(list, S \cup {k}, V)
  PROVE  ListedFirst(list, S, k)
<1> DEFINE n == Cardinality(S)
           T == S \cup {k}
           s == Listed(list, S)
           t == Listed(list, T)
           u == <<list[k]>>
<1>1. /\ Finite(T) /\ Cardinality(T) = n + 1 /\ n \in Nat
      /\ Nth(T, 1) = k /\ \A j \in 1 .. n : Nth(T, j + 1) = Nth(S, j)
  BY NthOfMore DEF Lower
<1>2. /\ s \in Seq(V) /\ Len(s) = n /\ \A j \in 1 .. n : s[j] = list[Nth(S, j)]
  <2>1. Listing(list, S, V)
    BY ListedIs DEF ElementsIn
  <2> QED BY <2>1 DEF Listing
<1>3. /\ t \in Seq(V) /\ Len(t) = n + 1 /\ \A j \in 1 .. n + 1 : t[j] = list[Nth(T, j)]
  <2>1. Listing(list, T, V)
    <3>1. \A i \in T : list[i] \in V
      BY DEF ElementsIn
    <3> HIDE DEF T
    <3> QED BY <1>1, <3>1, ListedIs
  <2> QED BY <1>1, <2>1 DEF Listing
<1>4. u \in Seq(V) /\ Len(u) = 1 /\ u[1] = list[k]
  BY DEF ElementsIn
<1> HIDE DEF n, T, s, t, u
<1>5. /\ u \o s \in Seq(V) /\ Len(u \o s) = 1 + n
      /\ \A i \in 1 .. 1 + n : (u \o s)[i] = IF i <= 1 THEN u[i] ELSE s[i - 1]
  <2>1. /\ u \o s \in Seq(V) /\ Len(u \o s) = Len(u) + Len(s)
        /\ \A i \in 1 .. Len(u) + Len(s) : (u \o s)[i] = IF i <= Len(u) THEN u[i] ELSE s[i - Len(u)]
    BY <1>2, <1>4, ConcatProperties
  <2> QED BY <1>2, <1>4, <2>1
<1>6. ASSUME NEW i \in 1 .. n + 1 PROVE t[i] = (u \o s)[i]
  <2>1. CASE i = 1
    BY <1>1, <1>3, <1>4, <1>5, <2>1
  <2>2. CASE i # 1
    <3>1. i - 1 \in 1 .. n /\ ~(i <= 1) /\ (i - 1) + 1 = i /\ i \in 1 .. 1 + n
      BY <1>1, <2>2
    <3>2. Nth(T, i) = Nth(S, i - 1)
      BY <1>1, <3>1
    <3> QED BY <1>2, <1>3, <1>5, <3>1, <3>2
  <2> QED BY <2>1, <2>2
<1>7. t = u \o s
  BY <1>1, <1>3, <1>5, <1>6, SeqEqual
<1> QED BY <1>7 DEF ListedFirst, t, u, s, T

-----------------------------------------------------------------------------
(* The filters of lists.                                                   *)

Tails(list) == {SubSeq(list, k, Len(list)) : k \in 1 .. Len(list) + 1}
FilteredHead(P, values) == IF P[Head(values)] THEN <<Head(values)>> ELSE <<>>

FilterCase(P, h, values) ==
  CASE values = <<>>   -> <<>>
    [] Len(values) = 1 -> FilteredHead(P, values)
    [] OTHER           -> FilteredHead(P, values) \o h[Tail(values)]

\* h filters the tails of list.
Filters(P, list, h) == h = [values \in Tails(list) |-> FilterCase(P, h, values)]

\* The indices from k on that are chosen.
Chosen(P, list, k) == {i \in k .. Len(list) : P[list[i]]}

\* Both filters are what filters all the tails, applied to the list.
LEMMA FiltersAre ==
  ASSUME NEW P, NEW list
  PROVE  /\ Enumerations!ValuesList_Filter(P, list) = (CHOOSE h : Filters(P, list, h))[list]
         /\ Enumerations!TypesList_Filter(P, list) = (CHOOSE h : Filters(P, list, h))[list]
<1>1. Enumerations!ValuesList_Filter(P, list) = (CHOOSE h : Filters(P, list, h))[list]
  BY Zenon DEF Enumerations!ValuesList_Filter, Enumerations!ValuesList_Concat, Filters, FilterCase, FilteredHead, Tails
<1>2. Enumerations!TypesList_Filter(P, list) = (CHOOSE h : Filters(P, list, h))[list]
  BY Zenon DEF Enumerations!TypesList_Filter, Enumerations!TypesList_Concat, Filters, FilterCase, FilteredHead, Tails
<1> QED BY <1>1, <1>2

\* A tail is its first element and the next tail.
LEMMA TailsAre ==
  ASSUME NEW V, NEW list \in Seq(V)
  PROVE  /\ Len(list) \in Nat
         /\ \A k \in 1 .. Len(list) : /\ SubSeq(list, k, Len(list)) # <<>>
                                      /\ Len(SubSeq(list, k, Len(list))) = Len(list) - k + 1
                                      /\ Head(SubSeq(list, k, Len(list))) = list[k]
                                      /\ Tail(SubSeq(list, k, Len(list))) = SubSeq(list, k + 1, Len(list))
         /\ SubSeq(list, Len(list) + 1, Len(list)) = <<>> /\ Len(<<>>) = 0
         /\ SubSeq(list, 1, Len(list)) = list
         /\ \A i \in 1 .. Len(list) : list[i] \in V
<1> DEFINE n == Len(list)
<1>1. n \in Nat /\ list \in [1 .. n -> V]
  BY LenProperties
<1>2. \A i \in 1 .. n : list[i] \in V
  BY <1>1
<1> HIDE DEF n
<1>3. ASSUME NEW k \in 1 .. n
      PROVE  /\ SubSeq(list, k, n) # <<>> /\ Len(SubSeq(list, k, n)) = n - k + 1
             /\ Head(SubSeq(list, k, n)) = list[k] /\ Tail(SubSeq(list, k, n)) = SubSeq(list, k + 1, n)
  <2>1. k \in Int /\ n \in Int /\ k <= n /\ n \in k .. n /\ n - k + 1 > 0
    BY <1>1
  <2>2. \A i \in k .. n : list[i] \in V
    BY <1>1, <1>2
  <2>3. Len(SubSeq(list, k, n)) = n - k + 1
    BY <2>1, <2>2, SubSeqProperties
  <2>4. SubSeq(list, k, n) # <<>>
    <3> DEFINE t == SubSeq(list, k, n)
    <3>1. Len(<<>>) = 0
      BY EmptySeq
    <3>2. Len(t) > 0
      BY <2>1, <2>3
    <3> HIDE DEF t
    <3>3. t # <<>>
      BY <3>1, <3>2
    <3> QED BY <3>3 DEF t
  <2>5. Head(SubSeq(list, k, n)) = list[k] /\ Tail(SubSeq(list, k, n)) = SubSeq(list, k + 1, n)
    BY <2>1, HeadTailOfSubSeq DEF n
  <2> QED BY <2>3, <2>4, <2>5
<1>4. SubSeq(list, n + 1, n) = <<>>
  <2>1. n + 1 \in Int /\ n \in Int /\ n < n + 1
    BY <1>1
  <2> QED BY <2>1, SubSeqEmpty
<1>5. SubSeq(list, 1, n) = list
  BY SubSeqFull DEF n
<1>6. Len(<<>>) = 0
  BY EmptySeq
<1> QED BY <1>1, <1>2, <1>3, <1>4, <1>5, <1>6 DEF n

\* What is chosen from one index on is that index, if it is, and what is chosen from the next on.
LEMMA ChosenNext ==
  ASSUME NEW V, NEW list \in Seq(V), NEW P, NEW k \in 1 .. Len(list)
  PROVE  /\ Listed(list, Chosen(P, list, k)) =
              FilteredHead(P, SubSeq(list, k, Len(list))) \o Listed(list, Chosen(P, list, k + 1))
         /\ FilteredHead(P, SubSeq(list, k, Len(list))) \in Seq(V)
         /\ Listed(list, Chosen(P, list, k + 1)) \in Seq(V)
<1> DEFINE n == Len(list)
           S == Chosen(P, list, k + 1)
           T == Chosen(P, list, k)
           front == FilteredHead(P, SubSeq(list, k, n))
<1>1. n \in Nat /\ k \in Int /\ Head(SubSeq(list, k, n)) = list[k] /\ \A i \in 1 .. n : list[i] \in V
  BY TailsAre
<1>2. S \subseteq k + 1 .. n /\ T = IF P[list[k]] THEN S \cup {k} ELSE S
  <2>1. k .. n = {k} \cup (k + 1 .. n) /\ k \notin k + 1 .. n
    BY <1>1
  <2> HIDE DEF n
  <2>2. S = {i \in k + 1 .. n : P[list[i]]} /\ T = {i \in k .. n : P[list[i]]}
    BY DEF Chosen, n
  <2> HIDE DEF S, T
  <2> QED BY <2>1, <2>2
<1>3. Finite(S) /\ (\A x \in S : k < x) /\ \A i \in S : list[i] \in V
  <2>1. k + 1 \in Int /\ n \in Int
    BY <1>1
  <2>2. IsFiniteSet(k + 1 .. n)
    BY <2>1, FS_Interval
  <2>3. IsFiniteSet(S)
    BY <1>2, <2>2, FS_Subset
  <2>4. \A x \in k + 1 .. n : k < x /\ x \in Int /\ x \in 1 .. n
    BY <1>1
  <2> QED BY <1>1, <1>2, <2>3, <2>4 DEF Finite
<1> HIDE DEF S, T, n
<1>4. Listed(list, S) \in Seq(V)
  BY <1>3, ListedIs DEF Listing
<1>5. CASE P[list[k]]
  <2>1. front = <<list[k]>> /\ list[k] \in V
    BY <1>1, <1>5 DEF FilteredHead, n
  <2>2. \A i \in S \cup {k} : list[i] \in V
    BY <1>3, <2>1
  <2>3. Listed(list, S \cup {k}) = <<list[k]>> \o Listed(list, S)
    <3> HIDE DEF front
    <3>1. k \in Int /\ Finite(S) /\ Lower(k, S) /\ ElementsIn(list, S \cup {k}, V)
      BY <1>1, <1>3, <2>2 DEF Lower, ElementsIn
    <3>2. ListedFirst(list, S, k)
      BY <3>1, ListedMore
    <3> QED BY <3>2 DEF ListedFirst
  <2>4. <<list[k]>> \in Seq(V)
    BY <2>1
  <2> QED BY <1>2, <1>4, <1>5, <2>1, <2>3, <2>4 DEF S, T, n
<1>6. CASE ~P[list[k]]
  <2>1. front = <<>>
    BY <1>1, <1>6 DEF FilteredHead
  <2>2. <<>> \o Listed(list, S) = Listed(list, S) /\ <<>> \in Seq(V)
    BY <1>4, ConcatEmptySeq, EmptySeq
  <2> QED BY <1>2, <1>4, <1>6, <2>1, <2>2 DEF S, T, n
<1> QED BY <1>5, <1>6

\* Nothing is chosen past the end.
LEMMA NoneChosen ==
  ASSUME NEW V, NEW list \in Seq(V), NEW P
  PROVE  Listed(list, Chosen(P, list, Len(list) + 1)) = <<>>
<1>1. Chosen(P, list, Len(list) + 1) = {}
  <2>1. Len(list) \in Nat
    BY TailsAre
  <2>2. Len(list) + 1 .. Len(list) = {}
    BY <2>1
  <2> QED BY <2>2 DEF Chosen
<1>2. Finite({}) /\ Cardinality({}) = 0
  BY FS_EmptySet DEF Finite
<1>3. Listing(list, {}, V)
  BY <1>2, ListedIs
<1>4. Listed(list, {}) \in Seq(V) /\ Len(Listed(list, {})) = 0
  BY <1>2, <1>3 DEF Listing
<1> QED BY <1>1, <1>4, EmptySeq

\* What filters the next tail filters a tail.
LEMMA FilterOfTail ==
  ASSUME NEW V, NEW list \in Seq(V), NEW P, NEW h, NEW k \in 1 .. Len(list),
         h[SubSeq(list, k + 1, Len(list))] = Listed(list, Chosen(P, list, k + 1))
  PROVE  FilterCase(P, h, SubSeq(list, k, Len(list))) = Listed(list, Chosen(P, list, k))
<1> DEFINE n == Len(list)
           values == SubSeq(list, k, n)
           front == FilteredHead(P, values)
           rest == Listed(list, Chosen(P, list, k + 1))
<1>1. values # <<>> /\ Len(values) = n - k + 1 /\ Tail(values) = SubSeq(list, k + 1, n) /\ n \in Nat
  BY TailsAre
<1>2. Listed(list, Chosen(P, list, k)) = front \o rest /\ front \in Seq(V) /\ rest \in Seq(V)
  BY ChosenNext
<1>3. CASE k = n
  <2>1. Len(values) = 1
    BY <1>1, <1>3
  <2>2. rest = <<>>
    BY <1>3, NoneChosen
  <2>3. front \o rest = front
    <3> HIDE DEF front, rest
    <3> QED BY <1>2, <2>2, ConcatEmptySeq
  <2>4. FilterCase(P, h, values) = front
    <3> HIDE DEF values
    <3> QED BY <1>1, <2>1 DEF FilterCase
  <2> QED BY <1>2, <2>3, <2>4
<1>4. CASE k # n
  <2>1. Len(values) # 1
    BY <1>1, <1>4
  <2>2. FilterCase(P, h, values) = front \o h[Tail(values)]
    <3> HIDE DEF values
    <3> QED BY <1>1, <2>1 DEF FilterCase
  <2>3. h[Tail(values)] = rest
    BY <1>1
  <2> QED BY <1>2, <2>2, <2>3
<1> QED BY <1>3, <1>4

\* Something filters the tails.
LEMMA FiltersExist ==
  ASSUME NEW V, NEW list \in Seq(V), NEW P
  PROVE  \E h : Filters(P, list, h)
<1> DEFINE n == Len(list)
           h == [values \in Tails(list) |-> Listed(list, Chosen(P, list, n + 1 - Len(values)))]
<1>1. n \in Nat
  BY TailsAre
<1>2. ASSUME NEW k \in 1 .. n + 1
      PROVE  /\ SubSeq(list, k, n) \in Tails(list)
             /\ h[SubSeq(list, k, n)] = Listed(list, Chosen(P, list, k))
  <2>1. SubSeq(list, k, n) \in Tails(list)
    BY DEF Tails
  <2>2. n + 1 - Len(SubSeq(list, k, n)) = k
    <3>1. CASE k = n + 1
      <4>1. SubSeq(list, n + 1, n) = <<>> /\ Len(<<>>) = 0
        BY TailsAre
      <4>2. Len(SubSeq(list, k, n)) = 0
        BY <3>1, <4>1
      <4> HIDE DEF n
      <4> QED BY <1>1, <3>1, <4>2
    <3>2. CASE k # n + 1
      <4>1. k \in 1 .. n
        BY <1>1, <3>2
      <4>2. Len(SubSeq(list, k, n)) = n - k + 1
        BY <4>1, TailsAre
      <4> HIDE DEF n
      <4> QED BY <1>1, <4>1, <4>2
    <3> QED BY <3>1, <3>2
  <2>3. h[SubSeq(list, k, n)] = Listed(list, Chosen(P, list, n + 1 - Len(SubSeq(list, k, n))))
    BY <2>1, Zenon
  <2> HIDE DEF h, n
  <2> QED BY <2>1, <2>2, <2>3
<1> HIDE DEF h
<1>3. ASSUME NEW values \in Tails(list) PROVE FilterCase(P, h, values) = h[values]
  <2>1. PICK k \in 1 .. n + 1 : values = SubSeq(list, k, n)
    BY DEF Tails
  <2>2. h[values] = Listed(list, Chosen(P, list, k))
    BY <1>2, <2>1
  <2>3. CASE k = n + 1
    <3>1. values = <<>>
      BY <2>1, <2>3, TailsAre
    <3>2. FilterCase(P, h, values) = <<>>
      BY <3>1 DEF FilterCase
    <3> QED BY <2>2, <2>3, <3>2, NoneChosen
  <2>4. CASE k # n + 1
    <3>1. k \in 1 .. n /\ k + 1 \in 1 .. n + 1
      BY <1>1, <2>4
    <3>2. h[SubSeq(list, k + 1, n)] = Listed(list, Chosen(P, list, k + 1))
      BY <1>2, <3>1
    <3> QED BY <2>1, <2>2, <3>1, <3>2, FilterOfTail
  <2> QED BY <2>3, <2>4
<1>4. h = [values \in Tails(list) |-> h[values]]
  BY DEF h
<1>5. [values \in Tails(list) |-> h[values]] = [values \in Tails(list) |-> FilterCase(P, h, values)]
  BY <1>3, Zenon
<1> QED BY <1>4, <1>5, Zenon DEF Filters

\* Filtering a list lists the elements the predicate holds for, in order.
LEMMA Filtered ==
  ASSUME NEW V, NEW list \in Seq(V), NEW P
  PROVE  /\ Enumerations!ValuesList_Filter(P, list) = Listed(list, Chosen(P, list, 1))
         /\ Enumerations!TypesList_Filter(P, list) = Listed(list, Chosen(P, list, 1))
<1> DEFINE n == Len(list)
           h == CHOOSE g : Filters(P, list, g)
           H == {j \in 0 .. n : h[SubSeq(list, n + 1 - j, n)] = Listed(list, Chosen(P, list, n + 1 - j))}
<1>1. Filters(P, list, h)
  BY FiltersExist
<1> HIDE DEF h
<1>2. n \in Nat /\ SubSeq(list, n + 1, n) = <<>> /\ SubSeq(list, 1, n) = list
  BY TailsAre
<1>3. \A k \in 1 .. n + 1 : h[SubSeq(list, k, n)] = FilterCase(P, h, SubSeq(list, k, n))
  <2>1. \A k \in 1 .. n + 1 : SubSeq(list, k, n) \in Tails(list)
    BY DEF Tails
  <2>2. \A values \in Tails(list) : h[values] = FilterCase(P, h, values)
    BY <1>1, Zenon DEF Filters
  <2> QED BY <2>1, <2>2
<1>4. 0 \in H
  <2>1. h[SubSeq(list, n + 1, n)] = <<>>
    <3>1. n + 1 \in 1 .. n + 1
      BY <1>2
    <3>2. FilterCase(P, h, <<>>) = <<>>
      BY DEF FilterCase
    <3> QED BY <1>2, <1>3, <3>1, <3>2
  <2>2. h[SubSeq(list, n + 1, n)] = Listed(list, Chosen(P, list, n + 1))
    BY <2>1, NoneChosen
  <2>3. n + 1 - 0 = n + 1 /\ 0 \in 0 .. n
    BY <1>2
  <2> HIDE DEF n
  <2> QED BY <2>2, <2>3
<1>5. ASSUME NEW j \in 1 .. n, j - 1 \in H PROVE j \in H
  <2> DEFINE k == n + 1 - j
  <2>1. k \in 1 .. n /\ k \in 1 .. n + 1 /\ n + 1 - (j - 1) = k + 1 /\ j \in 0 .. n
    BY <1>2
  <2>2. h[SubSeq(list, n + 1 - (j - 1), n)] = Listed(list, Chosen(P, list, n + 1 - (j - 1)))
    BY <1>5
  <2>3. h[SubSeq(list, k + 1, n)] = Listed(list, Chosen(P, list, k + 1))
    <3> HIDE DEF k, n
    <3> QED BY <2>1, <2>2
  <2> HIDE DEF k
  <2>4. h[SubSeq(list, k, n)] = Listed(list, Chosen(P, list, k))
    BY <1>3, <2>1, <2>3, FilterOfTail
  <2> HIDE DEF n
  <2> QED BY <2>1, <2>4 DEF k
<1>6. n \in H
  <2> HIDE DEF n, H
  <2> QED BY <1>2, <1>4, <1>5, UpTheNumbers
<1>7. h[list] = Listed(list, Chosen(P, list, 1))
  <2>1. n + 1 - n = 1
    BY <1>2
  <2> HIDE DEF n
  <2>2. h[SubSeq(list, n + 1 - n, n)] = Listed(list, Chosen(P, list, n + 1 - n))
    BY <1>6
  <2> QED BY <1>2, <2>1, <2>2
<1> QED BY <1>7, FiltersAre DEF h

-----------------------------------------------------------------------------
(* Sets of positions, and the first index of an element.                   *)

\* Positions count from zero and the elements of a list from one.
OneUp(S) == {i + 1 : i \in S}

\* Counting from one changes no number.
LEMMA OneUpAsMany ==
  ASSUME NEW S, Finite(S)
  PROVE  Finite(OneUp(S)) /\ Cardinality(OneUp(S)) = Cardinality(S)
<1> DEFINE f == [i \in S |-> i + 1]
           U == OneUp(S)
<1>1. IsFiniteSet(S) /\ S \subseteq Int
  BY DEF Finite
<1>2. \A i, j \in S : i + 1 = j + 1 => i = j
  BY <1>1
<1>3. U \subseteq Int /\ \A i \in S : i + 1 \in U
  BY <1>1 DEF OneUp
<1>4. \A u \in U : \E i \in S : i + 1 = u
  BY DEF OneUp
<1> HIDE DEF U
<1>5. f \in Injection(S, U)
  BY <1>2, <1>3 DEF Injection, IsInjective
<1>6. f \in Surjection(S, U)
  BY <1>3, <1>4 DEF Surjection
<1> HIDE DEF f
<1>7. IsFiniteSet(U) /\ Cardinality(U) = Cardinality(S)
  BY <1>1, <1>5, <1>6, FS_Surjection
<1> QED BY <1>3, <1>7 DEF Finite, U

\* Nor any order.
LEMMA OneUpInOrder ==
  ASSUME NEW S, Finite(S), NEW j \in 1 .. Cardinality(S)
  PROVE  /\ Nth(OneUp(S), j) = Nth(S, j) + 1 /\ Nth(OneUp(S), j) \in OneUp(S)
         /\ Nth(S, j) \in S /\ Rank(S, Nth(S, j)) = j - 1
<1> DEFINE x == Nth(S, j)
           U == OneUp(S)
<1>1. x \in S /\ Rank(S, x) = j - 1
  BY NthIs
<1>2. IsFiniteSet(S) /\ S \subseteq Int
  BY DEF Finite
<1>3. Finite(U) /\ Cardinality(U) = Cardinality(S)
  BY OneUpAsMany
<1> HIDE DEF x
<1>4. x + 1 \in U
  BY <1>1 DEF OneUp
<1>5. Rank(U, x + 1) = j - 1
  <2>1. \A y \in S : y + 1 < x + 1 <=> y < x
    BY <1>1, <1>2
  <2>2. Below(U, x + 1) = OneUp(Below(S, x))
    BY <2>1 DEF Below, OneUp
  <2>3. Finite(Below(S, x))
    <3>1. Below(S, x) \subseteq S
      BY DEF Below
    <3> QED BY <1>2, <3>1, FS_Subset DEF Finite
  <2>4. Cardinality(OneUp(Below(S, x))) = Cardinality(Below(S, x))
    BY <2>3, OneUpAsMany
  <2> QED BY <1>1, <2>2, <2>4, Zenon DEF Rank
<1> HIDE DEF U
<1>6. x + 1 = Nth(U, j)
  BY <1>3, <1>4, <1>5, NthIs
<1> QED BY <1>1, <1>4, <1>6 DEF x, U

\* The element that is lower than the others is the first.
LEMMA FirstIs ==
  ASSUME NEW S, Finite(S), NEW k \in S, \A i \in S : ~(i < k)
  PROVE  1 \in 1 .. Cardinality(S) /\ Nth(S, 1) = k
<1>1. Below(S, k) = {}
  BY DEF Below
<1>2. Rank(S, k) = 0
  BY <1>1, FS_EmptySet DEF Rank
<1>3. 1 \in 1 .. Cardinality(S)
  <2>1. IsFiniteSet(S) /\ Cardinality(S) \in Nat
    BY FS_CardinalityType DEF Finite
  <2>2. Cardinality(S) # 0
    BY <2>1, FS_EmptySet
  <2> QED BY <2>1, <2>2
<1>4. k = Nth(S, 1)
  <2>1. Rank(S, k) = 1 - 1
    BY <1>2
  <2> QED BY <1>3, <2>1, NthIs
<1> QED BY <1>3, <1>4

Occurrences(T, list, k) == {i \in k .. Len(list) : list[i] = T}
TailsWith(T, list) ==
  {types \in {SubSeq(list, k, Len(list)) : k \in DOMAIN list} : \E i \in DOMAIN types : types[i] = T}
IndexCase(T, h, types) == IF Head(types) = T THEN 0 ELSE 1 + h[Tail(types)]

\* h finds T in the tails that have it.
Indexes(T, list, h) == h = [types \in TailsWith(T, list) |-> IndexCase(T, h, types)]

\* IndexOf is what finds T in the tails, applied to the list.
LEMMA IndexOfApplies ==
  ASSUME NEW T, NEW list
  PROVE  Enumerations!TypesList_IndexOf(T, list) = (CHOOSE h : Indexes(T, list, h))[list]
BY Zenon DEF Enumerations!TypesList_IndexOf, Indexes, IndexCase, TailsWith

\* A tail has what occurs from its index on.
LEMMA TailHas ==
  ASSUME NEW V, NEW list \in Seq(V), NEW T, NEW k \in 1 .. Len(list)
  PROVE  SubSeq(list, k, Len(list)) \in TailsWith(T, list) <=> Occurrences(T, list, k) # {}
<1> DEFINE n == Len(list)
           types == SubSeq(list, k, n)
<1>1. n \in Nat /\ k \in Int /\ n \in Int /\ DOMAIN list = 1 .. n /\ \A i \in k .. n : list[i] \in V
  BY TailsAre, LenProperties
<1>2. /\ types \in Seq(V) /\ Len(types) = n - k + 1
      /\ \A i \in 1 .. n - k + 1 : types[i] = list[k + i - 1]
  <2> HIDE DEF n
  <2> QED BY <1>1, SubSeqProperties DEF n
<1>3. DOMAIN types = 1 .. n - k + 1
  <2> HIDE DEF types, n
  <2> QED BY <1>2, LenProperties
<1>4. types \in {SubSeq(list, m, Len(list)) : m \in DOMAIN list}
  BY <1>1
<1> HIDE DEF types, n
<1>5. (\E i \in 1 .. n - k + 1 : list[k + i - 1] = T) <=> \E i \in k .. n : list[i] = T
  <2>1. ASSUME NEW i \in 1 .. n - k + 1, list[k + i - 1] = T PROVE \E m \in k .. n : list[m] = T
    <3>1. k + i - 1 \in k .. n
      BY <1>1
    <3> QED BY <2>1, <3>1
  <2>2. ASSUME NEW i \in k .. n, list[i] = T PROVE \E m \in 1 .. n - k + 1 : list[k + m - 1] = T
    <3>1. i - k + 1 \in 1 .. n - k + 1 /\ k + (i - k + 1) - 1 = i
      BY <1>1
    <3> QED BY <2>2, <3>1
  <2> QED BY <2>1, <2>2
<1>6. types \in TailsWith(T, list) <=> \E i \in 1 .. n - k + 1 : types[i] = T
  BY <1>3, <1>4, Zenon DEF TailsWith
<1>7. Occurrences(T, list, k) # {} <=> \E i \in k .. n : list[i] = T
  BY DEF Occurrences, n
<1> QED BY <1>2, <1>5, <1>6, <1>7 DEF types, n

\* The first of the occurrences from one index on is that index, or the first from the next on.
LEMMA FirstOccurrence ==
  ASSUME NEW V, NEW list \in Seq(V), NEW T, NEW k \in 1 .. Len(list), Occurrences(T, list, k) # {}
  PROVE  /\ Nth(Occurrences(T, list, k), 1) \in Int
         /\ list[k] = T => Nth(Occurrences(T, list, k), 1) = k
         /\ list[k] # T => k # Len(list) /\ Occurrences(T, list, k + 1) = Occurrences(T, list, k)
<1> DEFINE n == Len(list)
           S == Occurrences(T, list, k)
<1>1. n \in Nat /\ k \in Int
  BY TailsAre
<1>2. S = {i \in k .. n : list[i] = T}
  BY DEF Occurrences
<1> HIDE DEF S, n
<1>3. Finite(S) /\ \A i \in S : ~(i < k)
  <2>1. S \subseteq k .. n /\ k .. n \subseteq Int /\ \A i \in k .. n : ~(i < k)
    BY <1>1, <1>2
  <2>2. IsFiniteSet(k .. n)
    BY <1>1, FS_Interval
  <2>3. IsFiniteSet(S)
    BY <2>1, <2>2, FS_Subset
  <2> QED BY <2>1, <2>3 DEF Finite
<1>4. Nth(S, 1) \in S
  <2>1. IsFiniteSet(S) /\ Cardinality(S) \in Nat /\ Cardinality(S) # 0
    BY <1>3, FS_CardinalityType, FS_EmptySet DEF Finite, S
  <2>2. 1 \in 1 .. Cardinality(S)
    BY <2>1
  <2> QED BY <1>3, <2>2, NthIs
<1>5. Nth(S, 1) \in Int
  BY <1>3, <1>4 DEF Finite
<1>6. ASSUME list[k] = T PROVE Nth(S, 1) = k
  <2>1. k \in S
    BY <1>1, <1>2, <1>6 DEF n
  <2> QED BY <1>3, <2>1, FirstIs
<1>7. ASSUME list[k] # T PROVE k # n /\ Occurrences(T, list, k + 1) = S
  <2>1. k .. n = {k} \cup (k + 1 .. n) /\ k \notin k + 1 .. n
    BY <1>1 DEF n
  <2>2. Occurrences(T, list, k + 1) = {i \in k + 1 .. n : list[i] = T}
    BY DEF Occurrences, n
  <2>3. Occurrences(T, list, k + 1) = S
    BY <1>2, <1>7, <2>1, <2>2
  <2>4. k + 1 .. n # {}
    BY <2>2, <2>3, <1>4
  <2>5. k # n
    BY <1>1, <2>4
  <2> QED BY <2>3, <2>5
<1> QED BY <1>5, <1>6, <1>7 DEF S, n

\* Something finds T in the tails.
LEMMA IndexesExist ==
  ASSUME NEW V, NEW list \in Seq(V), NEW T
  PROVE  \E h : Indexes(T, list, h)
<1> DEFINE n == Len(list)
           First(k) == Nth(Occurrences(T, list, k), 1)
           h == [types \in TailsWith(T, list) |-> First(n + 1 - Len(types)) - (n + 1 - Len(types))]
<1>1. n \in Nat /\ DOMAIN list = 1 .. n
  BY TailsAre, LenProperties
<1>2. ASSUME NEW k \in 1 .. n, Occurrences(T, list, k) # {} PROVE h[SubSeq(list, k, n)] = First(k) - k
  <2>1. SubSeq(list, k, n) \in TailsWith(T, list)
    BY <1>2, TailHas
  <2>2. Len(SubSeq(list, k, n)) = n - k + 1
    BY TailsAre
  <2>3. n + 1 - Len(SubSeq(list, k, n)) = k
    <3> HIDE DEF n
    <3> QED BY <1>1, <2>2
  <2> HIDE DEF n
  <2>4. h[SubSeq(list, k, n)] =
          First(n + 1 - Len(SubSeq(list, k, n))) - (n + 1 - Len(SubSeq(list, k, n)))
    BY <2>1, Zenon
  <2> HIDE DEF h
  <2> QED BY <2>3, <2>4
<1> HIDE DEF h
<1>3. ASSUME NEW types \in TailsWith(T, list) PROVE IndexCase(T, h, types) = h[types]
  <2>1. PICK k \in 1 .. n : types = SubSeq(list, k, n)
    BY <1>1 DEF TailsWith
  <2>2. Occurrences(T, list, k) # {}
    BY <2>1, TailHas
  <2>3. h[types] = First(k) - k
    BY <1>2, <2>1, <2>2
  <2>4. Head(types) = list[k] /\ Tail(types) = SubSeq(list, k + 1, n)
    BY <2>1, TailsAre
  <2>5. First(k) \in Int /\ k \in Int
    BY <2>2, FirstOccurrence
  <2>6. CASE list[k] = T
    <3>1. First(k) = k
      BY <2>2, <2>6, FirstOccurrence
    <3>2. IndexCase(T, h, types) = 0
      BY <2>4, <2>6 DEF IndexCase
    <3> HIDE DEF First
    <3> QED BY <2>3, <2>5, <3>1, <3>2
  <2>7. CASE list[k] # T
    <3>1. k # n /\ Occurrences(T, list, k + 1) = Occurrences(T, list, k)
      BY <2>2, <2>7, FirstOccurrence
    <3>2. k + 1 \in 1 .. n
      <4>1. n \in Nat
        BY <1>1
      <4> HIDE DEF n
      <4>2. k \in 1 .. n /\ k # n
        BY <2>1, <3>1 DEF n
      <4> QED BY <4>1, <4>2
    <3>3. h[Tail(types)] = First(k) - (k + 1)
      BY <1>2, <2>2, <2>4, <3>1, <3>2
    <3>4. IndexCase(T, h, types) = 1 + h[Tail(types)]
      BY <2>4, <2>7 DEF IndexCase
    <3> HIDE DEF First
    <3> QED BY <2>3, <2>5, <3>3, <3>4
  <2> QED BY <2>6, <2>7
<1>4. h = [types \in TailsWith(T, list) |-> h[types]]
  BY DEF h
<1>5. [types \in TailsWith(T, list) |-> h[types]] = [types \in TailsWith(T, list) |-> IndexCase(T, h, types)]
  BY <1>3, Zenon
<1> QED BY <1>4, <1>5, Zenon DEF Indexes

\* The index of an element is the number of those before its first occurrence.
LEMMA IndexOfIs ==
  ASSUME NEW V, NEW list \in Seq(V), NEW m \in 1 .. Len(list), \A i \in 1 .. m - 1 : list[i] # list[m]
  PROVE  Enumerations!TypesList_IndexOf(list[m], list) = m - 1
<1> DEFINE n == Len(list)
           T == list[m]
           h == CHOOSE g : Indexes(T, list, g)
           First(k) == Nth(Occurrences(T, list, k), 1)
           Found(k) == Occurrences(T, list, k) # {} => h[SubSeq(list, k, n)] = First(k) - k
           H == {j \in 0 .. n - 1 : Found(n - j)}
<1>1. n \in Nat /\ SubSeq(list, 1, n) = list /\ DOMAIN list = 1 .. n
  BY TailsAre, LenProperties
<1>2. Enumerations!TypesList_IndexOf(T, list) = h[list]
  BY IndexOfApplies
<1>3. Indexes(T, list, h)
  BY IndexesExist
<1> HIDE DEF h, T
<1>4. ASSUME NEW k \in 1 .. n, Occurrences(T, list, k) # {}, k # n => Found(k + 1) PROVE h[SubSeq(list, k, n)] = First(k) - k
  <2> DEFINE types == SubSeq(list, k, n)
  <2>1. types \in TailsWith(T, list)
    BY <1>4, TailHas
  <2>2. h[types] = IndexCase(T, h, types)
    BY <1>3, <2>1, Zenon DEF Indexes
  <2>3. Head(types) = list[k] /\ Tail(types) = SubSeq(list, k + 1, n)
    BY TailsAre
  <2>4. First(k) \in Int /\ k \in Int
    BY <1>4, FirstOccurrence
  <2>5. CASE list[k] = T
    <3>1. First(k) = k
      BY <1>4, <2>5, FirstOccurrence
    <3>2. IndexCase(T, h, types) = 0
      BY <2>3, <2>5 DEF IndexCase
    <3> HIDE DEF First, types, n
    <3>3. h[types] = First(k) - k
      BY <2>2, <2>4, <3>1, <3>2
    <3> QED BY <3>3 DEF types
  <2>6. CASE list[k] # T
    <3>1. k # n /\ Occurrences(T, list, k + 1) = Occurrences(T, list, k)
      BY <1>4, <2>6, FirstOccurrence
    <3>2. h[SubSeq(list, k + 1, n)] = First(k) - (k + 1)
      BY <1>4, <3>1
    <3>3. IndexCase(T, h, types) = 1 + h[SubSeq(list, k + 1, n)]
      BY <2>3, <2>6 DEF IndexCase
    <3> HIDE DEF First, types, n
    <3>4. h[types] = First(k) - k
      BY <2>2, <2>4, <3>2, <3>3
    <3> QED BY <3>4 DEF types
  <2> QED BY <2>5, <2>6
<1>5. n - 1 \in Nat /\ n \in 1 .. n
  BY <1>1
<1>6. 0 \in H
  <2>1. Found(n)
    BY <1>4, <1>5
  <2>2. n - 0 = n /\ 0 \in 0 .. n - 1
    BY <1>1, <1>5
  <2> HIDE DEF Found, n
  <2>3. Found(n - 0)
    BY <2>1, <2>2
  <2> QED BY <2>2, <2>3
<1>7. ASSUME NEW j \in Int, 1 <= j, j <= n - 1, j - 1 \in H PROVE j \in H
  <2>1. n - j \in 1 .. n /\ n - j # n /\ n - (j - 1) = n - j + 1 /\ j \in 0 .. n - 1
    <3>1. n \in Nat
      BY <1>1
    <3> HIDE DEF n
    <3> QED BY <1>7, <3>1
  <2>2. Found(n - j + 1)
    <3>1. Found(n - (j - 1))
      BY <1>7
    <3> HIDE DEF Found, n
    <3> QED BY <2>1, <3>1
  <2>3. Found(n - j)
    BY <1>4, <2>1, <2>2
  <2> HIDE DEF Found, n
  <2> QED BY <2>1, <2>3
<1>8. n - 1 \in H
  <2> HIDE DEF H, n
  <2>1. \A j \in 1 .. n - 1 : j - 1 \in H => j \in H
    BY <1>7
  <2> QED BY <1>5, <1>6, <2>1, UpTheNumbers
<1>9. Found(1)
  <2>1. n - (n - 1) = 1
    BY <1>1
  <2>2. Found(n - (n - 1))
    BY <1>8
  <2> HIDE DEF Found, n
  <2> QED BY <2>1, <2>2
<1>10. Occurrences(T, list, 1) # {} /\ First(1) = m
  <2> DEFINE S == Occurrences(T, list, 1)
  <2>1. S = {i \in 1 .. n : list[i] = T}
    BY DEF Occurrences
  <2>2. m \in S
    BY <2>1 DEF T
  <2>3. \A i \in S : ~(i < m)
    <3>1. \A i \in 1 .. n : i < m => i \in 1 .. m - 1
      BY <1>1
    <3> QED BY <2>1, <3>1 DEF T
  <2>4. Finite(S)
    <3>1. IsFiniteSet(1 .. n) /\ 1 .. n \subseteq Int
      BY <1>1, FS_Interval
    <3>2. S \subseteq 1 .. n
      BY <2>1
    <3>3. IsFiniteSet(S)
      BY <3>1, <3>2, FS_Subset
    <3> QED BY <3>1, <3>2, <3>3 DEF Finite
  <2> HIDE DEF S
  <2>5. Nth(S, 1) = m
    BY <2>2, <2>3, <2>4, FirstIs
  <2> QED BY <2>2, <2>5 DEF S
<1>11. h[list] = m - 1
  BY <1>1, <1>9, <1>10
<1> QED BY <1>2, <1>11 DEF T

-----------------------------------------------------------------------------
(* Flags or-ed together, and the list of all the flags.                    *)

FoldCase(h, list, k) == IF k = Len(list) THEN list[k] ELSE Enumerations!Or(list[k], h[k + 1])

\* h folds what the list has from each index on.
Folds(list, h) == h = [k \in DOMAIN list |-> FoldCase(h, list, k)]

\* The flags of the elements from k on, and the value with those flags.
FlagsFrom(list, k) == UNION {Enumerations!Flags(list[i]) : i \in k .. Len(list)}
Union(list, k) == CHOOSE v \in FlagValues : Enumerations!Flags(v) = FlagsFrom(list, k)

\* There is one.
LEMMA UnionIs ==
  ASSUME FlagType, NEW list \in Seq(FlagValues), NEW k \in 1 .. Len(list)
  PROVE  Union(list, k) \in FlagValues /\ Enumerations!Flags(Union(list, k)) = FlagsFrom(list, k)
<1> DEFINE S == FlagsFrom(list, k)
           v == Enumerations!Enum(Enumerations!Number(S))
<1>1. S \subseteq Enumerations!Positions
  <2>1. \A x : Enumerations!Flags(x) \subseteq Enumerations!Positions
    BY DEF Enumerations!Flags
  <2> QED BY <2>1 DEF FlagsFrom
<1>2. Enumerations!Positions \subseteq 0 .. BitsOfInt - 1
  <2>1. Enumerations!Positions = 0 .. underlying.bits - 1
    BY DigitsAre
  <2>2. underlying.bits \in 2 .. BitsOfInt /\ BitsOfInt \in Nat
    BY FlagWidths, PowersOfTwo
  <2> QED BY <2>1, <2>2
<1> HIDE DEF S
<1>3. v \in FlagValues /\ Enumerations!Flags(v) = S \cap Enumerations!Positions
  <2>1. S \in SUBSET (0 .. BitsOfInt - 1)
    BY <1>1, <1>2
  <2> QED BY <2>1, FlagsOfNumber
<1>4. Enumerations!Flags(v) = S
  BY <1>1, <1>3
<1> HIDE DEF v
<1>5. \E w \in FlagValues : Enumerations!Flags(w) = S
  BY <1>3, <1>4
<1> QED BY <1>5, Zenon DEF Union, S

\* The union from k on is the or of the k-th element and the union from the next on.
LEMMA UnionNext ==
  ASSUME FlagType, NEW list \in Seq(FlagValues), NEW k \in 1 .. Len(list)
  PROVE  Union(list, k) = IF k = Len(list) THEN list[k] ELSE Enumerations!Or(list[k], Union(list, k + 1))
<1> DEFINE n == Len(list)
<1>1. n \in Nat /\ list[k] \in FlagValues
  BY TailsAre
<1> HIDE DEF n
<1>2. k \in Int /\ k \in 1 .. n
  BY DEF n
<1>3. Union(list, k) \in FlagValues /\ Enumerations!Flags(Union(list, k)) = FlagsFrom(list, k)
  BY UnionIs
<1>4. CASE k = n
  <2>1. k .. n = {k}
    BY <1>1, <1>2, <1>4
  <2>2. FlagsFrom(list, k) = Enumerations!Flags(list[k])
    BY <2>1 DEF FlagsFrom, n
  <2>3. Union(list, k) = list[k]
    BY <1>1, <1>3, <2>2, FlagsTellApart
  <2> QED BY <1>4, <2>3 DEF n
<1>5. CASE k # n
  <2> DEFINE u == Union(list, k + 1)
             w == Enumerations!Or(list[k], u)
  <2>1. k + 1 \in 1 .. n /\ k .. n = {k} \cup (k + 1 .. n)
    BY <1>1, <1>2, <1>5
  <2>2. u \in FlagValues /\ Enumerations!Flags(u) = FlagsFrom(list, k + 1)
    BY <2>1, UnionIs DEF n
  <2> HIDE DEF u
  <2>3. w \in FlagValues /\ Enumerations!Flags(w) = Enumerations!Flags(list[k]) \cup Enumerations!Flags(u)
    BY <1>1, <2>2, BitwiseOperators
  <2>4. FlagsFrom(list, k) = Enumerations!Flags(list[k]) \cup FlagsFrom(list, k + 1)
    BY <2>1 DEF FlagsFrom, n
  <2> HIDE DEF w
  <2>5. Union(list, k) = w
    BY <1>3, <2>2, <2>3, <2>4, FlagsTellApart
  <2> QED BY <1>5, <2>5 DEF n, u, w
<1> QED BY <1>4, <1>5

\* Or-ing a list gives the value with the flags of all its elements.
LEMMA FlagsToBitsetIs ==
  ASSUME FlagType, NEW list \in Seq(FlagValues), Len(list) # 0
  PROVE  Enumerations!FlagsToBitset(list) = Union(list, 1)
<1> DEFINE n == Len(list)
           h == CHOOSE g : Folds(list, g)
           u == [k \in DOMAIN list |-> Union(list, k)]
           H == {j \in 0 .. n - 1 : h[n - j] = Union(list, n - j)}
<1>1. n \in Nat /\ n # 0
  BY TailsAre
<1>2. DOMAIN list = 1 .. n
  BY LenProperties
<1>3. Enumerations!FlagsToBitset(list) = h[1]
  BY Zenon DEF Enumerations!FlagsToBitset, Folds, FoldCase
<1>4. Folds(list, u)
  <2>1. ASSUME NEW k \in 1 .. n PROVE FoldCase(u, list, k) = Union(list, k)
    <3>1. CASE k = n
      <4>1. Union(list, k) = list[k]
        BY <3>1, UnionNext
      <4> HIDE DEF u
      <4> QED BY <3>1, <4>1 DEF FoldCase
    <3>2. CASE k # n
      <4>1. k + 1 \in 1 .. n
        <5> HIDE DEF n
        <5> QED BY <1>1, <3>2
      <4>2. u[k + 1] = Union(list, k + 1)
        BY <1>2, <4>1
      <4>3. Union(list, k) = Enumerations!Or(list[k], Union(list, k + 1))
        BY <3>2, UnionNext
      <4> HIDE DEF u
      <4> QED BY <3>2, <4>2, <4>3 DEF FoldCase
    <3> QED BY <3>1, <3>2
  <2>2. \A k \in DOMAIN list : FoldCase(u, list, k) = Union(list, k)
    BY <1>2, <2>1
  <2>3. u = [k \in DOMAIN list |-> Union(list, k)]
    OBVIOUS
  <2> HIDE DEF u
  <2>4. [k \in DOMAIN list |-> FoldCase(u, list, k)] = [k \in DOMAIN list |-> Union(list, k)]
    BY <2>2, Zenon
  <2> QED BY <2>3, <2>4, Zenon DEF Folds
<1>5. Folds(list, h)
  <2> HIDE DEF u
  <2> QED BY <1>4, Zenon
<1> HIDE DEF h, u
<1>6. \A k \in 1 .. n : h[k] = IF k = n THEN list[k] ELSE Enumerations!Or(list[k], h[k + 1])
  <2>1. \A k \in DOMAIN list : h[k] = FoldCase(h, list, k)
    BY <1>5, Zenon DEF Folds
  <2> QED BY <1>2, <2>1, Zenon DEF FoldCase
<1> HIDE DEF n
<1>7. 0 \in H
  <2>1. n - 0 = n /\ 0 \in 0 .. n - 1 /\ n \in 1 .. n
    BY <1>1
  <2>2. Union(list, n) = list[n]
    BY <2>1, UnionNext DEF n
  <2>3. h[n] = list[n]
    BY <1>6, <2>1
  <2> QED BY <2>1, <2>2, <2>3
<1>8. ASSUME NEW j \in 1 .. n - 1, j - 1 \in H PROVE j \in H
  <2>1. n - j \in 1 .. n /\ n - j # n /\ n - (j - 1) = (n - j) + 1 /\ j \in 0 .. n - 1
    BY <1>1
  <2>2. h[(n - j) + 1] = Union(list, (n - j) + 1)
    BY <1>8, <2>1
  <2>3. h[n - j] = Enumerations!Or(list[n - j], h[(n - j) + 1])
    BY <1>6, <2>1
  <2>4. Union(list, n - j) = Enumerations!Or(list[n - j], Union(list, (n - j) + 1))
    BY <2>1, UnionNext DEF n
  <2> QED BY <2>1, <2>2, <2>3, <2>4
<1>9. n - 1 \in H
  <2>1. n - 1 \in Nat
    BY <1>1
  <2> HIDE DEF H
  <2> QED BY <1>7, <1>8, <2>1, UpTheNumbers
<1>10. h[1] = Union(list, 1)
  <2>1. n - (n - 1) = 1
    BY <1>1
  <2> QED BY <1>9, <2>1
<1> QED BY <1>3, <1>10

AllFlags ==
  Enumerations!ValuesList_MapToValue(Enumerations!MakeFlagByIndexMapFunctor,
    Enumerations!ValuesList_FromIntegerSequence([i \in 1 .. underlying.bits |-> i - 1]))

\* One as a number has its lowest digit only, and a power of two the one it is the power of.
LEMMA DigitOfPower ==
  ASSUME NEW i \in 0 .. BitsOfInt, NEW f \in 0 .. BitsOfInt
  PROVE  Digit(Power(i), f) = 1 <=> f = i
<1>1. BitsOfInt \in Nat /\ Power(i) \in Nat \ {0} /\ 1 * Power(i) = Power(i)
  BY PowersOfTwo
<1>2. Digit(1 * Power(i), f) = IF f < i THEN 0 ELSE Digit(1, f - i)
  BY DigitsShiftedLeft
<1>3. ASSUME ~(f < i) PROVE Digit(1, f - i) = IF f = i THEN 1 ELSE 0
  <2> DEFINE g == f - i
  <2>1. g \in 0 .. BitsOfInt /\ (g = 0 <=> f = i)
    BY <1>1, <1>3
  <2> HIDE DEF g
  <2>2. Power(0) = 1 /\ Power(g) \in Nat \ {0} /\ (g # 0 => Power(g) = 2 * Power(g - 1) /\ Power(g - 1) \in Nat \ {0})
    <3>1. g # 0 => g \in 1 .. BitsOfInt /\ g - 1 \in 0 .. BitsOfInt
      BY <1>1, <2>1
    <3> QED BY <2>1, <3>1, PowersOfTwo
  <2>3. 1 \in 0 .. 2 * Power(g) - 1 /\ (1 >= Power(g) <=> g = 0)
    BY <2>1, <2>2
  <2>4. Digit(1, g) = IF 1 >= Power(g) THEN 1 ELSE 0
    BY <2>1, <2>3, HighestDigit
  <2> QED BY <2>1, <2>3, <2>4 DEF g
<1> QED BY <1>1, <1>2, <1>3

\* Each flag is a value of its own with one flag, that of its index.
LEMMA AllFlagsAre ==
  ASSUME FlagType
  PROVE  /\ AllFlags \in Seq(FlagValues) /\ Len(AllFlags) = underlying.bits /\ DOMAIN AllFlags = 1 .. underlying.bits
         /\ \A i \in 1 .. underlying.bits : AllFlags[i] \in FlagValues /\ Enumerations!Flags(AllFlags[i]) = {i - 1}
<1> DEFINE n == underlying.bits
           indexes == [i \in 1 .. n |-> i - 1]
<1>1. n \in 2 .. BitsOfInt /\ BitsOfInt \in Nat /\ n \in Nat
  BY FlagWidths, PowersOfTwo
<1>2. AllFlags = [i \in DOMAIN indexes |-> Enumerations!MakeFlagByIndexMapFunctor[indexes[i]]]
  BY Zenon DEF AllFlags, Enumerations!ValuesList_MapToValue, Enumerations!ValuesList_FromIntegerSequence,
     Enumerations!Mapped
<1>3. DOMAIN AllFlags = 1 .. n /\ \A i \in 1 .. n : AllFlags[i] = Enumerations!MakeFlagByIndexMapFunctor[i - 1]
  BY <1>2
<1>4. \A i \in 0 .. n - 1 : Enumerations!MakeFlagByIndexMapFunctor[i] = Enumerations!MakeFlagByIndex(i)
  BY Zenon DEF Enumerations!MakeFlagByIndexMapFunctor
<1> HIDE DEF n
<1>5. \A i \in 1 .. n : i - 1 \in 0 .. n - 1 /\ i - 1 \in 0 .. BitsOfInt
  BY <1>1
<1>6. ASSUME NEW i \in 0 .. n - 1
      PROVE  Enumerations!MakeFlagByIndex(i) \in FlagValues /\ Enumerations!Flags(Enumerations!MakeFlagByIndex(i)) = {i}
  <2> DEFINE x == Enumerations!Converted(Enumerations!Promoted, Power(i))
  <2>1. i \in 0 .. BitsOfInt
    BY <1>1
  <2>2. Enumerations!MakeFlagByIndex(i) = Enumerations!Enum(x)
    BY Zenon DEF Enumerations!MakeFlagByIndex, Power
  <2>3. Power(i) \in Int
    BY <2>1, PowersOfTwo
  <2>4. x \in Int /\ \A f \in 0 .. BitsOfInt - 1 : Digit(x, f) = Digit(Power(i), f)
    <3>1. Enumerations!Promoted \in FlagTypes /\ Enumerations!Promoted.bits = BitsOfInt
      BY FlagWidths
    <3> QED BY <2>3, <3>1, ConvertedKeepsDigits
  <2> HIDE DEF x
  <2>5. Enumerations!Enum(x) \in FlagValues /\ Enumerations!Flags(Enumerations!Enum(x)) = Enumerations!Flags(x)
    BY <2>4, EnumIs
  <2>6. Enumerations!Flags(x) = {f \in 0 .. n - 1 : Digit(x, f) = 1}
    BY DigitsAre DEF n
  <2>7. \A f \in 0 .. n - 1 : Digit(x, f) = 1 <=> f = i
    <3>1. \A f \in 0 .. n - 1 : f \in 0 .. BitsOfInt - 1 /\ f \in 0 .. BitsOfInt
      BY <1>1
    <3> QED BY <2>1, <2>4, <3>1, DigitOfPower
  <2> QED BY <2>2, <2>5, <2>6, <2>7
<1>7. \A i \in 1 .. n : AllFlags[i] \in FlagValues /\ Enumerations!Flags(AllFlags[i]) = {i - 1}
  BY <1>3, <1>4, <1>5, <1>6
<1>8. AllFlags \in [1 .. n -> FlagValues]
  <2>1. AllFlags = [i \in 1 .. n |-> AllFlags[i]]
    BY <1>2, <1>3
  <2> QED BY <1>7, <2>1
<1>9. AllFlags \in Seq(FlagValues)
  BY <1>1, <1>8, SeqDef
<1>10. Len(AllFlags) = n
  <2>1. DOMAIN AllFlags = 1 .. Len(AllFlags) /\ Len(AllFlags) \in Nat
    BY <1>9, LenProperties
  <2> QED BY <1>1, <1>3, <2>1
<1> QED BY <1>3, <1>7, <1>9, <1>10 DEF n

-----------------------------------------------------------------------------
(* A set of flags as a list, and back.                                     *)

SetFlags == Enumerations!ValuesList_Filter(Enumerations!FlagIsSetFilter(flags), AllFlags)
Indices == OneUp(Enumerations!Flags(flags))

\* What counts elements in the model of the flags is what counts them here.
LEMMA CountsTheSame == ASSUME NEW S PROVE Enumerations!Cardinality(S) = Cardinality(S)
BY Zenon DEF Enumerations!Cardinality, Cardinality

\* Flags are finitely many positions; counted from one, they are indices of the list of all.
LEMMA IndicesAre ==
  ASSUME FlagType
  PROVE  /\ Finite(Enumerations!Flags(flags)) /\ Finite(Indices)
         /\ Cardinality(Indices) = Cardinality(Enumerations!Flags(flags))
         /\ Cardinality(Indices) \in Nat
         /\ Indices \subseteq 1 .. underlying.bits
         /\ \A i \in 1 .. underlying.bits : i \in Indices <=> i - 1 \in Enumerations!Flags(flags)
<1> DEFINE S == Enumerations!Flags(flags)
           n == underlying.bits
<1>1. n \in Nat
  <2>1. n \in 2 .. BitsOfInt /\ BitsOfInt \in Nat
    BY FlagWidths, PowersOfTwo
  <2> QED BY <2>1
<1>2. S \subseteq 0 .. n - 1
  BY DigitsAre
<1> HIDE DEF S, n
<1>3. Finite(S)
  <2>1. n - 1 \in Int /\ 0 \in Int /\ 0 .. n - 1 \subseteq Int
    BY <1>1
  <2>2. IsFiniteSet(0 .. n - 1)
    BY <2>1, FS_Interval
  <2>3. IsFiniteSet(S)
    BY <1>2, <2>2, FS_Subset
  <2> QED BY <1>2, <2>1, <2>3 DEF Finite
<1>4. Finite(OneUp(S)) /\ Cardinality(OneUp(S)) = Cardinality(S)
  BY <1>3, OneUpAsMany
<1>5. Cardinality(S) \in Nat
  BY <1>3, FS_CardinalityType DEF Finite
<1>6. OneUp(S) \subseteq 1 .. n
  <2>1. \A i \in 0 .. n - 1 : i + 1 \in 1 .. n
    BY <1>1
  <2> QED BY <1>2, <2>1 DEF OneUp
<1>7. ASSUME NEW i \in 1 .. n PROVE i \in OneUp(S) <=> i - 1 \in S
  <2>1. (i - 1) + 1 = i /\ \A j \in S : j + 1 = i => j = i - 1
    BY <1>1, <1>2
  <2> QED BY <2>1 DEF OneUp
<1> QED BY <1>3, <1>4, <1>5, <1>6, <1>7 DEF Indices, S, n

\* A flag of the list is set when its position is in the set.
LEMMA FlagOfAllIsSet ==
  ASSUME FlagType, flags \in FlagValues, NEW i \in 1 .. underlying.bits
  PROVE  Enumerations!FlagIsSet(flags, AllFlags[i]) <=> i \in Indices
<1>1. AllFlags[i] \in FlagValues /\ Enumerations!Flags(AllFlags[i]) = {i - 1}
  BY AllFlagsAre
<1>2. Enumerations!FlagIsSet(flags, AllFlags[i]) <=> Enumerations!Flags(flags) \cap {i - 1} # {}
  BY <1>1, FlagIsSetIs
<1>3. i \in Indices <=> i - 1 \in Enumerations!Flags(flags)
  BY IndicesAre
<1> QED BY <1>2, <1>3

\* The flags that are set, as a list: those at the indices of the set, in order.
LEMMA SetFlagsAre ==
  ASSUME FlagType, flags \in FlagValues
  PROVE  /\ SetFlags = Listed(AllFlags, Indices)
         /\ SetFlags \in Seq(FlagValues) /\ Len(SetFlags) = Cardinality(Indices)
         /\ DOMAIN SetFlags = 1 .. Cardinality(Indices)
         /\ \A j \in 1 .. Cardinality(Indices) :
              /\ Nth(Indices, j) \in Indices /\ Nth(Indices, j) \in 1 .. underlying.bits
              /\ SetFlags[j] = AllFlags[Nth(Indices, j)] /\ SetFlags[j] \in FlagValues
<1> DEFINE P == Enumerations!FlagIsSetFilter(flags)
           n == underlying.bits
<1>1. /\ AllFlags \in Seq(FlagValues) /\ Len(AllFlags) = n
      /\ \A i \in 1 .. n : AllFlags[i] \in FlagValues
  BY AllFlagsAre
<1>2. Finite(Indices) /\ Indices \subseteq 1 .. n
  BY IndicesAre
<1>3. \A i \in 1 .. n : P[AllFlags[i]] <=> i \in Indices
  <2>1. P = [flag \in FlagValues |-> Enumerations!FlagIsSet(flags, flag)]
    BY Zenon DEF Enumerations!FlagIsSetFilter, FlagValues
  <2>2. \A i \in 1 .. n : P[AllFlags[i]] = Enumerations!FlagIsSet(flags, AllFlags[i])
    <3> HIDE DEF P
    <3> QED BY <1>1, <2>1, Zenon
  <2> QED BY <2>2, FlagOfAllIsSet
<1>4. SetFlags = Listed(AllFlags, Chosen(P, AllFlags, 1))
  BY <1>1, Filtered DEF SetFlags
<1>5. Chosen(P, AllFlags, 1) = Indices
  <2> HIDE DEF P, n
  <2> QED BY <1>1, <1>2, <1>3 DEF Chosen
<1>6. SetFlags = Listed(AllFlags, Indices)
  BY <1>4, <1>5
<1>7. Cardinality(Indices) \in Nat /\ Listing(AllFlags, Indices, FlagValues)
  <2>1. \A i \in Indices : AllFlags[i] \in FlagValues
    BY <1>1, <1>2
  <2> QED BY <1>2, <2>1, ListedIs
<1>8. /\ SetFlags \in Seq(FlagValues) /\ Len(SetFlags) = Cardinality(Indices)
      /\ \A j \in 1 .. Cardinality(Indices) :
           Nth(Indices, j) \in Indices /\ SetFlags[j] = AllFlags[Nth(Indices, j)]
  BY <1>6, <1>7, Zenon DEF Listing
<1>9. DOMAIN SetFlags = 1 .. Cardinality(Indices)
  BY <1>8, LenProperties
<1> QED BY <1>1, <1>2, <1>6, <1>8, <1>9

\* The j-th flag that is set is that of the j-th position of the set.
LEMMA SetFlagOfRank ==
  ASSUME FlagType, flags \in FlagValues, NEW j \in 1 .. Cardinality(Indices)
  PROVE  /\ Enumerations!Flags(SetFlags[j]) = {Nth(Enumerations!Flags(flags), j)}
         /\ Nth(Enumerations!Flags(flags), j) \in Enumerations!Flags(flags)
         /\ Rank(Enumerations!Flags(flags), Nth(Enumerations!Flags(flags), j)) = j - 1
         /\ Nth(Indices, j) - 1 = Nth(Enumerations!Flags(flags), j)
<1> DEFINE S == Enumerations!Flags(flags)
<1>1. Finite(S) /\ Cardinality(Indices) = Cardinality(S)
  BY IndicesAre
<1>2. Nth(Indices, j) = Nth(S, j) + 1 /\ Nth(S, j) \in S /\ Rank(S, Nth(S, j)) = j - 1
  <2> HIDE DEF S
  <2> QED BY <1>1, OneUpInOrder DEF Indices, S
<1>3. Nth(Indices, j) \in 1 .. underlying.bits /\ SetFlags[j] = AllFlags[Nth(Indices, j)]
  BY SetFlagsAre
<1>4. Enumerations!Flags(SetFlags[j]) = {Nth(Indices, j) - 1}
  BY <1>3, AllFlagsAre
<1>5. Nth(S, j) \in Int
  BY <1>1, <1>2 DEF Finite
<1>6. Nth(Indices, j) - 1 = Nth(S, j)
  <2> HIDE DEF S
  <2> QED BY <1>2, <1>5
<1> QED BY <1>2, <1>4, <1>6

\* Every position of the set has its flag in the list.
LEMMA EveryIndexIsListed ==
  ASSUME FlagType, flags \in FlagValues, NEW i \in Indices
  PROVE  \E j \in 1 .. Cardinality(Indices) : Nth(Indices, j) = i
<1>1. Finite(Indices) /\ Cardinality(Indices) \in Nat
  BY IndicesAre
<1>2. Rank(Indices, i) \in 0 .. Cardinality(Indices) - 1
  BY <1>1, RanksDiffer
<1> DEFINE j == Rank(Indices, i) + 1
<1>3. j \in 1 .. Cardinality(Indices) /\ Rank(Indices, i) = j - 1
  BY <1>1, <1>2
<1> HIDE DEF j
<1>4. Nth(Indices, j) = i
  BY <1>1, <1>3, NthIs
<1> QED BY <1>3, <1>4

\* The flags of the list are those of the list of all at the positions of the set.
LEMMA SetFlagsOfAll ==
  ASSUME FlagType, flags \in FlagValues
  PROVE  {AllFlags[i] : i \in DOMAIN AllFlags} \cap {SetFlags[i] : i \in DOMAIN SetFlags}
           = {AllFlags[i + 1] : i \in Enumerations!Flags(flags)}
<1> DEFINE S == Enumerations!Flags(flags)
           n == underlying.bits
           m == Cardinality(Indices)
<1>1. DOMAIN AllFlags = 1 .. n
  BY AllFlagsAre
<1>2. /\ DOMAIN SetFlags = 1 .. m
      /\ \A j \in 1 .. m : /\ Nth(Indices, j) \in Indices /\ Nth(Indices, j) \in 1 .. n
                           /\ SetFlags[j] = AllFlags[Nth(Indices, j)]
  BY SetFlagsAre
<1>3. Indices = OneUp(S) /\ Indices \subseteq 1 .. n
  BY IndicesAre DEF Indices
<1> HIDE DEF n, m
<1>4. ASSUME NEW j \in 1 .. m PROVE \E i \in S : SetFlags[j] = AllFlags[i + 1]
  <2>1. Nth(Indices, j) \in OneUp(S) /\ SetFlags[j] = AllFlags[Nth(Indices, j)]
    BY <1>2, <1>3
  <2> HIDE DEF S
  <2> QED BY <2>1 DEF OneUp
<1>5. ASSUME NEW i \in S
      PROVE  i + 1 \in 1 .. n /\ \E j \in 1 .. m : SetFlags[j] = AllFlags[i + 1]
  <2>1. i + 1 \in Indices
    BY <1>3 DEF OneUp
  <2>2. PICK j \in 1 .. m : Nth(Indices, j) = i + 1
    BY <2>1, EveryIndexIsListed DEF m
  <2> QED BY <1>2, <1>3, <2>1, <2>2
<1> HIDE DEF S
<1>6. {AllFlags[i] : i \in 1 .. n} \cap {SetFlags[j] : j \in 1 .. m} = {AllFlags[i + 1] : i \in S}
  BY <1>4, <1>5
<1> QED BY <1>1, <1>2, <1>6 DEF S

\* As many flags are counted as are set.
LEMMA CountOfFlags ==
  ASSUME FlagType, flags \in FlagValues
  PROVE  Enumerations!GetSetFlagsCount(flags) = Cardinality(Indices)
<1> DEFINE U == [signed |-> FALSE, bits |-> underlying.bits]
           u == Enumerations!Converted(U, flags)
           S == Enumerations!Flags(flags)
<1>1. underlying \in FlagTypes /\ underlying.bits \in 2 .. BitsOfInt /\ BitsOfInt \in Nat
  BY FlagWidths, PowersOfTwo
<1>2. U \in FlagTypes /\ U.bits = underlying.bits
  <2>1. underlying.bits \in 1 .. BitsOfInt
    BY <1>1
  <2> QED BY <2>1 DEF FlagTypes
<1>3. flags \in Int
  BY FlagValueBounds
<1>4. \A i \in 0 .. underlying.bits - 1 : Digit(u, i) = Digit(flags, i)
  BY <1>2, <1>3, ConvertedKeepsDigits
<1>5. Enumerations!GetSetFlagsCount(flags) = Enumerations!Cardinality({i \in 0 .. U.bits - 1 : Digit(u, i) = 1})
  BY Zenon DEF Enumerations!GetSetFlagsCount, Digit, Power
<1>6. S = {i \in 0 .. underlying.bits - 1 : Digit(flags, i) = 1}
  BY DigitsAre
<1> HIDE DEF U, u, S
<1>7. {i \in 0 .. U.bits - 1 : Digit(u, i) = 1} = S
  BY <1>2, <1>4, <1>6
<1>8. Cardinality(Indices) = Cardinality(S)
  BY IndicesAre DEF S
<1> QED BY <1>5, <1>7, <1>8, CountsTheSame

\* Or-ing the list of the flags that are set gives them back.
LEMMA FlagsFromTheirList ==
  ASSUME FlagType, flags \in FlagValues, SetFlags # <<>>
  PROVE  Enumerations!FlagsToBitset(SetFlags) = flags
<1> DEFINE S == Enumerations!Flags(flags)
           m == Cardinality(Indices)
<1>1. /\ SetFlags \in Seq(FlagValues) /\ Len(SetFlags) = m
      /\ \A j \in 1 .. m : /\ Nth(Indices, j) \in Indices /\ Nth(Indices, j) \in 1 .. underlying.bits
                           /\ SetFlags[j] = AllFlags[Nth(Indices, j)]
  BY SetFlagsAre
<1>2. m \in Nat /\ Indices = OneUp(S) /\ Finite(S)
  BY IndicesAre DEF Indices
<1>3. \A j \in 1 .. m : Enumerations!Flags(SetFlags[j]) = {Nth(S, j)} /\ Nth(S, j) \in S /\ Nth(Indices, j) - 1 = Nth(S, j)
  BY SetFlagOfRank
<1> HIDE DEF m
<1>4. m # 0
  <2>1. Len(SetFlags) # 0
    BY <1>1, EmptySeq
  <2> QED BY <1>1, <2>1
<1>5. Enumerations!FlagsToBitset(SetFlags) = Union(SetFlags, 1)
  BY <1>1, <1>4, FlagsToBitsetIs
<1>6. 1 \in 1 .. Len(SetFlags)
  BY <1>1, <1>2, <1>4
<1>7. Union(SetFlags, 1) \in FlagValues /\ Enumerations!Flags(Union(SetFlags, 1)) = FlagsFrom(SetFlags, 1)
  BY <1>1, <1>6, UnionIs
<1>8. FlagsFrom(SetFlags, 1) = S
  <2>1. FlagsFrom(SetFlags, 1) = UNION {Enumerations!Flags(SetFlags[j]) : j \in 1 .. m}
    BY <1>1 DEF FlagsFrom
  <2>2. ASSUME NEW i \in S PROVE \E j \in 1 .. m : Nth(S, j) = i
    <3>1. i + 1 \in Indices
      BY <1>2 DEF OneUp
    <3>2. PICK j \in 1 .. m : Nth(Indices, j) = i + 1
      BY <3>1, EveryIndexIsListed DEF m
    <3>3. i \in Int /\ Nth(Indices, j) - 1 = Nth(S, j)
      BY <1>2, <1>3 DEF Finite
    <3>4. Nth(S, j) = i
      <4> HIDE DEF S
      <4> QED BY <3>2, <3>3
    <3> QED BY <3>4
  <2>3. \A i : i \in FlagsFrom(SetFlags, 1) <=> \E j \in 1 .. m : i \in Enumerations!Flags(SetFlags[j])
    BY <2>1
  <2>4. \A i : i \in FlagsFrom(SetFlags, 1) <=> \E j \in 1 .. m : i = Nth(S, j)
    <3>1. \A i, j : j \in 1 .. m => (i \in Enumerations!Flags(SetFlags[j]) <=> i = Nth(S, j))
      BY <1>3
    <3> HIDE DEF S
    <3> QED BY <2>3, <3>1
  <2> HIDE DEF S
  <2>5. \A i : i \in FlagsFrom(SetFlags, 1) <=> i \in S
    BY <1>3, <2>2, <2>4
  <2> QED BY <2>5
<1>9. Union(SetFlags, 1) = flags
  BY <1>7, <1>8, FlagsTellApart
<1> QED BY <1>5, <1>9

-----------------------------------------------------------------------------
(* Lists of types made of the flags.                                       *)

\* F<flag>, whether the flag of a type is set, and the types of the flags that are.
FlagTypeOf == [flag \in FlagValues |-> <<"F", flag>>]
OfSetFlag ==
  [type \in {FlagTypeOf[AllFlags[i]] : i \in DOMAIN AllFlags} |-> Enumerations!FlagIsSet(flags, type[2])]
AllTypes == Enumerations!ValuesList_MapToType(FlagTypeOf, AllFlags)
SetTypes == Enumerations!TypesList_Filter(OfSetFlag, AllTypes)

\* Types differ when their flags do, and each has its flag.
LEMMA TypesTellApart ==
  ASSUME NEW v \in FlagValues
  PROVE  FlagTypeOf[v] = <<"F", v>> /\ FlagTypeOf[v][2] = v
<1>1. FlagTypeOf[v] = <<"F", v>>
  BY DEF FlagTypeOf
<1>2. <<"F", v>>[2] = v
  OBVIOUS
<1> QED BY <1>1, <1>2

\* Two intervals from one are the same when they end at the same number only.
LEMMA SameEnd ==
  ASSUME NEW m \in Nat, NEW n \in Nat, 1 .. m = 1 .. n
  PROVE  m = n
<1>1. CASE m < n
  <2>1. n \in 1 .. n /\ n \notin 1 .. m
    BY <1>1
  <2> QED BY <2>1
<1>2. CASE n < m
  <2>1. m \in 1 .. m /\ m \notin 1 .. n
    BY <1>2
  <2> QED BY <2>1
<1> QED BY <1>1, <1>2

\* A type for each flag.
LEMMA AllTypesAre ==
  ASSUME FlagType
  PROVE  /\ DOMAIN AllFlags = 1 .. underlying.bits
         /\ AllTypes \in Seq({FlagTypeOf[v] : v \in FlagValues}) /\ Len(AllTypes) = underlying.bits
         /\ \A i \in 1 .. underlying.bits : AllTypes[i] = FlagTypeOf[AllFlags[i]] /\ AllFlags[i] \in FlagValues
<1> DEFINE n == underlying.bits
           V == {FlagTypeOf[v] : v \in FlagValues}
<1>1. n \in Nat
  <2>1. n \in 2 .. BitsOfInt /\ BitsOfInt \in Nat
    BY FlagWidths, PowersOfTwo
  <2> QED BY <2>1
<1>2. DOMAIN AllFlags = 1 .. n /\ \A i \in 1 .. n : AllFlags[i] \in FlagValues
  BY AllFlagsAre
<1>3. AllTypes = [i \in DOMAIN AllFlags |-> FlagTypeOf[AllFlags[i]]]
  BY Zenon DEF AllTypes, Enumerations!ValuesList_MapToType, Enumerations!Mapped
<1> HIDE DEF n
<1>4. AllTypes \in [1 .. n -> V] /\ \A i \in 1 .. n : AllTypes[i] = FlagTypeOf[AllFlags[i]]
  <2>1. \A i \in 1 .. n : FlagTypeOf[AllFlags[i]] \in V
    BY <1>2
  <2> HIDE DEF V
  <2> QED BY <1>2, <1>3, <2>1
<1> HIDE DEF V
<1>5. AllTypes \in Seq(V)
  BY <1>1, <1>4, SeqDef
<1>6. Len(AllTypes) = n
  <2>1. DOMAIN AllTypes = 1 .. Len(AllTypes) /\ Len(AllTypes) \in Nat
    BY <1>5, LenProperties
  <2>2. DOMAIN AllTypes = 1 .. n
    BY <1>4
  <2>3. 1 .. Len(AllTypes) = 1 .. n
    BY <2>1, <2>2
  <2> QED BY <1>1, <2>1, <2>3, SameEnd
<1> QED BY <1>2, <1>4, <1>5, <1>6 DEF n, V

\* Filtering the types gives those of the flags that are set.
LEMMA SetTypesAre ==
  ASSUME FlagType, flags \in FlagValues
  PROVE  /\ SetTypes = Enumerations!ValuesList_MapToType(FlagTypeOf, SetFlags)
         /\ SetTypes \in Seq({FlagTypeOf[v] : v \in FlagValues}) /\ Len(SetTypes) = Cardinality(Indices)
         /\ DOMAIN SetTypes = 1 .. Cardinality(Indices)
         /\ \A j \in 1 .. Cardinality(Indices) : SetTypes[j] = FlagTypeOf[SetFlags[j]] /\ SetTypes[j][2] = SetFlags[j]
<1> DEFINE n == underlying.bits
           m == Cardinality(Indices)
           V == {FlagTypeOf[v] : v \in FlagValues}
<1>1. /\ AllTypes \in Seq(V) /\ Len(AllTypes) = n /\ DOMAIN AllFlags = 1 .. n
      /\ \A i \in 1 .. n : AllTypes[i] = FlagTypeOf[AllFlags[i]] /\ AllFlags[i] \in FlagValues
  BY AllTypesAre
<1>2. Finite(Indices) /\ Indices \subseteq 1 .. n /\ m \in Nat
  BY IndicesAre
<1>3. /\ DOMAIN SetFlags = 1 .. m
      /\ \A j \in 1 .. m : /\ Nth(Indices, j) \in Indices /\ Nth(Indices, j) \in 1 .. n
                           /\ SetFlags[j] = AllFlags[Nth(Indices, j)] /\ SetFlags[j] \in FlagValues
  BY SetFlagsAre
<1>4. ASSUME NEW i \in 1 .. n PROVE OfSetFlag[AllTypes[i]] <=> i \in Indices
  <2> DEFINE type == FlagTypeOf[AllFlags[i]]
  <2>1. type[2] = AllFlags[i]
    BY <1>1, TypesTellApart
  <2>2. type \in {FlagTypeOf[AllFlags[k]] : k \in DOMAIN AllFlags}
    BY <1>1
  <2>3. AllTypes[i] = type
    BY <1>1
  <2> HIDE DEF type
  <2>4. OfSetFlag[type] = Enumerations!FlagIsSet(flags, type[2])
    BY <2>2, Zenon DEF OfSetFlag
  <2> QED BY <2>1, <2>3, <2>4, FlagOfAllIsSet
<1>5. SetTypes = Listed(AllTypes, Chosen(OfSetFlag, AllTypes, 1))
  <2> HIDE DEF V
  <2> QED BY <1>1, Filtered DEF SetTypes
<1> HIDE DEF n
<1>6. Chosen(OfSetFlag, AllTypes, 1) = Indices
  BY <1>1, <1>2, <1>4 DEF Chosen
<1>7. SetTypes = [j \in 1 .. m |-> AllTypes[Nth(Indices, j)]]
  BY <1>5, <1>6, Zenon DEF Listed
<1>8. \A j \in 1 .. m : AllTypes[Nth(Indices, j)] = FlagTypeOf[SetFlags[j]]
  BY <1>1, <1>3
<1>9. SetTypes = [j \in DOMAIN SetFlags |-> FlagTypeOf[SetFlags[j]]]
  <2>1. SetTypes = [j \in 1 .. m |-> FlagTypeOf[SetFlags[j]]]
    <3> HIDE DEF m
    <3> QED BY <1>7, <1>8, Zenon
  <2> QED BY <1>3, <2>1
<1>10. SetTypes = Enumerations!ValuesList_MapToType(FlagTypeOf, SetFlags)
  BY <1>9, Zenon DEF Enumerations!ValuesList_MapToType, Enumerations!Mapped
<1> HIDE DEF m
<1>11. SetTypes \in [1 .. m -> V] /\ \A j \in 1 .. m : SetTypes[j] = FlagTypeOf[SetFlags[j]]
  <2>1. \A j \in 1 .. m : FlagTypeOf[SetFlags[j]] \in V
    BY <1>3
  <2> HIDE DEF V
  <2> QED BY <1>3, <1>9, <2>1
<1>12. \A j \in 1 .. m : SetTypes[j][2] = SetFlags[j]
  BY <1>3, <1>11, TypesTellApart
<1> HIDE DEF V
<1>13. SetTypes \in Seq(V)
  BY <1>2, <1>11, SeqDef
<1>14. DOMAIN SetTypes = 1 .. m /\ Len(SetTypes) = m
  <2>1. DOMAIN SetTypes = 1 .. Len(SetTypes) /\ Len(SetTypes) \in Nat
    BY <1>13, LenProperties
  <2>2. DOMAIN SetTypes = 1 .. m
    BY <1>11
  <2>3. 1 .. Len(SetTypes) = 1 .. m
    BY <2>1, <2>2
  <2>4. Len(SetTypes) = m
    BY <1>2, <2>1, <2>3, SameEnd
  <2> QED BY <2>2, <2>4
<1> QED BY <1>10, <1>11, <1>12, <1>13, <1>14 DEF m, V

\* The flags of the types, mapped back, are the list of the flags.
LEMMA TypesMappedBack ==
  ASSUME FlagType, flags \in FlagValues
  PROVE  Enumerations!TypesList_MapToValue([type \in {SetTypes[i] : i \in DOMAIN SetTypes} |-> type[2]], SetTypes) = SetFlags
<1> DEFINE F == [type \in {SetTypes[i] : i \in DOMAIN SetTypes} |-> type[2]]
           m == Cardinality(Indices)
<1>1. DOMAIN SetTypes = 1 .. m /\ \A j \in 1 .. m : SetTypes[j][2] = SetFlags[j]
  BY SetTypesAre
<1>2. SetFlags \in Seq(FlagValues) /\ DOMAIN SetFlags = 1 .. m
  BY SetFlagsAre
<1>3. Enumerations!TypesList_MapToValue(F, SetTypes) = [i \in DOMAIN SetTypes |-> F[SetTypes[i]]]
  BY Zenon DEF Enumerations!TypesList_MapToValue, Enumerations!Mapped
<1>4. \A i \in DOMAIN SetTypes : F[SetTypes[i]] = SetTypes[i][2]
  OBVIOUS
<1> HIDE DEF F, m
<1>5. [i \in 1 .. m |-> F[SetTypes[i]]] = [i \in 1 .. m |-> SetFlags[i]]
  BY <1>1, <1>4
<1>6. SetFlags = [i \in 1 .. m |-> SetFlags[i]]
  BY <1>2, LenProperties
<1>7. Enumerations!TypesList_MapToValue(F, SetTypes) = SetFlags
  BY <1>1, <1>3, <1>5, <1>6
<1> QED BY <1>7 DEF F

\* A type is found at its first position, also when the list is repeated.
LEMMA TypesAreFound ==
  ASSUME FlagType, flags \in FlagValues, NEW i \in 1 .. Cardinality(Indices)
  PROVE  Enumerations!TypesList_IndexOf(SetTypes[i], Enumerations!TypesList_Concat(SetTypes, SetTypes)) = i - 1
<1> DEFINE m == Cardinality(Indices)
           V == {FlagTypeOf[v] : v \in FlagValues}
           list == SetTypes \o SetTypes
<1>1. /\ SetTypes \in Seq(V) /\ Len(SetTypes) = m
      /\ \A j \in 1 .. m : SetTypes[j][2] = SetFlags[j]
  BY SetTypesAre
<1>2. m \in Nat
  BY IndicesAre
<1>3. \A j \in 1 .. m : /\ Enumerations!Flags(SetFlags[j]) = {Nth(Enumerations!Flags(flags), j)}
                        /\ Rank(Enumerations!Flags(flags), Nth(Enumerations!Flags(flags), j)) = j - 1
  BY SetFlagOfRank
<1>4. ASSUME NEW j \in 1 .. m, NEW k \in 1 .. m, SetTypes[j] = SetTypes[k] PROVE j = k
  <2>1. SetFlags[j] = SetFlags[k]
    BY <1>1, <1>4
  <2>2. Nth(Enumerations!Flags(flags), j) = Nth(Enumerations!Flags(flags), k)
    BY <1>3, <2>1
  <2>3. j - 1 = k - 1
    BY <1>3, <2>2
  <2> HIDE DEF m
  <2> QED BY <1>4, <2>3
<1> HIDE DEF V
<1>5. /\ list \in Seq(V) /\ Len(list) = m + m
      /\ \A j \in 1 .. m + m : list[j] = IF j <= m THEN SetTypes[j] ELSE SetTypes[j - m]
  <2>1. /\ list \in Seq(V) /\ Len(list) = Len(SetTypes) + Len(SetTypes)
        /\ \A j \in 1 .. Len(SetTypes) + Len(SetTypes) :
             list[j] = IF j <= Len(SetTypes) THEN SetTypes[j] ELSE SetTypes[j - Len(SetTypes)]
    BY <1>1, ConcatProperties
  <2> HIDE DEF m, list
  <2> QED BY <1>1, <2>1
<1> HIDE DEF m, list
<1>6. i \in 1 .. m /\ i \in 1 .. Len(list) /\ list[i] = SetTypes[i]
  BY <1>2, <1>5 DEF m
<1>7. ASSUME NEW j \in 1 .. i - 1 PROVE list[j] # list[i]
  <2>1. j \in 1 .. m /\ j \in 1 .. m + m /\ j <= m /\ j # i
    BY <1>2, <1>6
  <2>2. list[j] = SetTypes[j]
    BY <1>5, <2>1
  <2> QED BY <1>4, <1>6, <2>1, <2>2
<1>8. Enumerations!TypesList_IndexOf(list[i], list) = i - 1
  BY <1>5, <1>6, <1>7, IndexOfIs
<1>9. Enumerations!TypesList_Concat(SetTypes, SetTypes) = list
  BY Zenon DEF Enumerations!TypesList_Concat, list
<1> QED BY <1>6, <1>8, <1>9

\* The lists of flags and types decompose the set.
LEMMA ListsDecompose ==
  ASSUME FlagType, flags \in FlagValues
  PROVE  Enumerations!Decomposes
<1> DEFINE S == Enumerations!Flags(flags)
           m == Cardinality(Indices)
<1>1. \A i \in DOMAIN AllFlags : Enumerations!Flags(AllFlags[i]) = {i - 1}
  BY AllFlagsAre
<1>2. {AllFlags[i] : i \in DOMAIN AllFlags} \cap {SetFlags[i] : i \in DOMAIN SetFlags}
        = {AllFlags[i + 1] : i \in S}
  BY SetFlagsOfAll
<1>3. Len(SetFlags) = Enumerations!GetSetFlagsCount(flags) /\ Len(SetFlags) = Enumerations!Cardinality(S)
  <2>1. Len(SetFlags) = m
    BY SetFlagsAre
  <2>2. Cardinality(S) = m
    BY IndicesAre
  <2>3. Enumerations!Cardinality(S) = Cardinality(S)
    BY CountsTheSame
  <2> QED BY <2>1, <2>2, <2>3, CountOfFlags
<1>4. SetFlags # <<>> => Enumerations!FlagsToBitset(SetFlags) = flags
  BY FlagsFromTheirList
<1>5. SetTypes = Enumerations!ValuesList_MapToType(FlagTypeOf, SetFlags) /\ DOMAIN SetTypes = 1 .. m
  BY SetTypesAre
<1>6. Enumerations!TypesList_MapToValue([type \in {SetTypes[i] : i \in DOMAIN SetTypes} |-> type[2]], SetTypes) = SetFlags
  BY TypesMappedBack
<1>7. ASSUME NEW i \in DOMAIN SetTypes
      PROVE  /\ Enumerations!TypesList_IndexOf(SetTypes[i], Enumerations!TypesList_Concat(SetTypes, SetTypes)) = i - 1
             /\ Enumerations!Flags(SetFlags[i]) =
                  {CHOOSE f \in S : Enumerations!Cardinality({g \in S : g < f}) = i - 1}
  <2>1. i \in 1 .. m
    BY <1>5
  <2>2. Enumerations!Flags(SetFlags[i]) = {Nth(S, i)}
    BY <2>1, SetFlagOfRank
  <2>3. Nth(S, i) = CHOOSE f \in S : Enumerations!Cardinality({g \in S : g < f}) = i - 1
    <3> HIDE DEF S
    <3>1. \A T : Enumerations!Cardinality(T) = Cardinality(T)
      BY CountsTheSame
    <3>2. \A f : Enumerations!Cardinality({g \in S : g < f}) = Rank(S, f)
      BY <3>1, Zenon DEF Rank, Below
    <3>3. (CHOOSE f \in S : Enumerations!Cardinality({g \in S : g < f}) = i - 1) = CHOOSE f \in S : Rank(S, f) = i - 1
      BY <3>2
    <3> QED BY <3>3, Zenon DEF Nth
  <2> QED BY <2>1, <2>2, <2>3, TypesAreFound
<1> QED BY <1>1, <1>2, <1>3, <1>4, <1>5, <1>6, <1>7, Zenon
        DEF Enumerations!Decomposes, AllFlags, SetFlags, FlagTypeOf, OfSetFlag, AllTypes, SetTypes, FlagValues

\* Enumerations as sets of flags: the operators of enum_bitset.hpp are those of sets
\* whatever the widths, promotion and signs, and the functions and lists of
\* bitset_utilities.hpp take a set apart and put it together again.
THEOREM EnumerationsAreSets == Spec => []FlagsAreSets
<1>1. FlagInv => FlagsAreSets
  <2> SUFFICES ASSUME FlagInv, component = "flags" PROVE Enumerations!FlagsAreSets
    BY DEF FlagsAreSets
  <2>1. FlagType /\ flags \in FlagValues
    BY DEF FlagInv
  <2> QED BY <2>1, OperatorsHold, ListsDecompose DEF Enumerations!FlagsAreSets
<1> QED BY <1>1, FlagInvHolds, PTL

=============================================================================
