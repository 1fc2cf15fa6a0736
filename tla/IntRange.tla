------------------------------- MODULE IntRange -------------------------------
(***************************************************************************)
(* edt::IntRange (math/int_range.hpp): half-open ranges of an integer type *)
(* split again and again.  Types narrower than int compute in int and are  *)
(* converted back; where int itself overflows, the behaviour is undefined. *)
(***************************************************************************)
EXTENDS IntTypes, Sequences, Functions

CONSTANTS
  BitsOfT, BitsOfInt,     \* the width of T, at most that of int, and of int
  MaxRanges               \* bound on the number of pieces

RangeAssumption ==
  /\ BitsOfT \in Nat \ {0, 1} /\ BitsOfInt \in Nat /\ BitsOfT <= BitsOfInt
  /\ MaxRanges \in Nat
  \* What of powers of two the proofs need and the provers do not know.
  /\ \A bits \in {BitsOfT, BitsOfInt} : 2 ^ (bits - 1) \in Nat \ {0} /\ 2 ^ bits = 2 * 2 ^ (bits - 1)
  /\ BitsOfT < BitsOfInt => 2 ^ BitsOfT <= 2 ^ (BitsOfInt - 1)

Seqs == INSTANCE SequencesExt

VARIABLES
  whole,       \* the range at first
  pieces       \* the ranges it was split into, left to right

vars == <<whole, pieces>>

T == [signed |-> TRUE, bits |-> BitsOfT]
IntType == [signed |-> TRUE, bits |-> BitsOfInt]

RangeOf(begin, end) == [begin |-> begin, end |-> end]

\* The values an addition or a subtraction of two values of T may have, as a T.
Arithmetic(sum) == IF sum \in ValuesOf(IntType) THEN {Converted(T, sum)} ELSE ValuesOf(T)

\* Math::InRange.
InRange(x, begin, end) == x >= begin /\ x < end

\* Mutant: the end belongs to the range.
Contains_Closed(range, value) == value >= range.begin /\ value <= range.end

Contains(range, value) == InRange(value, range.begin, range.end)

Extent(range) == Arithmetic(range.end - range.begin)

SplitPoints(range, left_side_size) == Arithmetic(range.begin + Converted(T, left_side_size))

Iterable(range) == [n \in 1 .. range.end - range.begin |-> range.begin + n - 1]

\* IntRange2D; points and extents are pairs.
Contains2D(range, p) == Contains(range.x, p[1]) /\ Contains(range.y, p[2])

Extents2D(range) == Extent(range.x) \X Extent(range.y)

FromBeginAndExtent(begin, extent) ==
  {[x |-> RangeOf(begin[1], end[1]), y |-> RangeOf(begin[2], end[2])] :
     end \in Arithmetic(begin[1] + extent[1]) \X Arithmetic(begin[2] + extent[2])}

Init ==
  /\ \E begin, end \in ValuesOf(T) : begin <= end /\ whole = RangeOf(begin, end)
  /\ pieces = <<whole>>

\* The left side fits in the range: the caller's obligation, as are splits whose
\* size int does not have.
Split(n, left_side_size) ==
  /\ Len(pieces) < MaxRanges
  /\ left_side_size <= pieces[n].end - pieces[n].begin
  /\ left_side_size \in ValuesOf(IntType)
  /\ \E split_point \in SplitPoints(pieces[n], left_side_size) :
       pieces' = SubSeq(pieces, 1, n - 1)
                   \o <<RangeOf(pieces[n].begin, split_point), RangeOf(split_point, pieces[n].end)>>
                   \o SubSeq(pieces, n + 1, Len(pieces))
  /\ UNCHANGED whole

Next == \E n \in DOMAIN pieces, left_side_size \in 0 .. 2 ^ BitsOfT : Split(n, left_side_size)

Spec == Init /\ [][Next]_vars

-----------------------------------------------------------------------------
\* Every value of the range is in exactly one of its pieces, and no other value in
\* any, however and however often it is split; iterating over the pieces from left
\* to right is iterating over the whole.
Partition ==
  /\ \A v \in ValuesOf(T) :
       IF Contains(whole, v)
       THEN \E n \in DOMAIN pieces : Contains(pieces[n], v) /\ \A k \in DOMAIN pieces \ {n} : ~Contains(pieces[k], v)
       ELSE \A n \in DOMAIN pieces : ~Contains(pieces[n], v)
  /\ Seqs!FlattenSeq([n \in DOMAIN pieces |-> Iterable(pieces[n])]) = Iterable(whole)

\* A rectangle made of a corner and its extent has that extent, and contains the
\* points from that corner on, as many as its area.
Rectangles ==
  pieces = <<whole>> /\ whole.end - whole.begin \in ValuesOf(T) =>
    \A y \in ValuesOf(T), height \in 0 .. max(T) :
      y + height \in ValuesOf(T) =>
        \A r \in FromBeginAndExtent(<<whole.begin, y>>, <<whole.end - whole.begin, height>>) :
          /\ r.x = whole
          /\ Extents2D(r) = {<<whole.end - whole.begin, height>>}
          /\ {p \in ValuesOf(T) \X ValuesOf(T) : Contains2D(r, p)}
               = {<<whole.begin + i, y + k>> : i \in 0 .. whole.end - whole.begin - 1, k \in 0 .. height - 1}

\* The extents that T has are exact, and those of the pieces add up to the whole's.
ExtentsAddUp ==
  whole.end - whole.begin \in ValuesOf(T) =>
    LET extents == [n \in DOMAIN pieces |-> CHOOSE extent \in Extent(pieces[n]) : TRUE]
    IN /\ \A n \in DOMAIN pieces : Extent(pieces[n]) = {extents[n]}
       /\ Extent(whole) = {FoldFunction(LAMBDA extent, sum : extent + sum, 0, extents)}
=============================================================================
