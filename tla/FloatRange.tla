------------------------------ MODULE FloatRange ------------------------------
(***************************************************************************)
(* edt::FloatRange and edt::FloatRange2D (math/float_range.hpp), closed    *)
(* intervals and rectangles that are moved and enlarged, and AlmostEqual   *)
(* (algorithm/compare.hpp).  A floating-point number is a whole one of     *)
(* -max .. max, an infinity or NaN: sums and products overflow as they do  *)
(* in IEEE 754, and rounding is left out.                                  *)
(***************************************************************************)
EXTENDS Integers

CONSTANTS
  MaxFloat,      \* numeric_limits<T>::max()
  Amounts        \* by which ranges are moved and enlarged

FloatRangeAssumption == MaxFloat \in Nat \ {0} /\ Amounts \subseteq -MaxFloat .. MaxFloat

VARIABLE rectangle     \* a FloatRange2D

Finite == -MaxFloat .. MaxFloat
Infinity == MaxFloat + 1
NaN == MaxFloat + 2

Magnitude(a) == IF a < 0 THEN -a ELSE a
IsFinite(a) == a \in Finite
Overflowing(a) == IF a > MaxFloat THEN Infinity ELSE IF a < -MaxFloat THEN -Infinity ELSE a

Plus(a, b) ==
  IF NaN \in {a, b} \/ {a, b} = {Infinity, -Infinity} THEN NaN
  ELSE IF Magnitude(a) = Infinity THEN a
  ELSE IF Magnitude(b) = Infinity THEN b
  ELSE Overflowing(a + b)

Negated(a) == IF a = NaN THEN NaN ELSE -a
Minus(a, b) == Plus(a, Negated(b))

Times(a, b) ==
  IF NaN \in {a, b} \/ (0 \in {a, b} /\ Infinity \in {Magnitude(a), Magnitude(b)}) THEN NaN
  ELSE Overflowing(a * b)

Less(a, b) == NaN \notin {a, b} /\ a < b
AtMost(a, b) == NaN \notin {a, b} /\ a <= b

AlmostEqual(a, b, tolerance) ==
  LET delta == Minus(a, b)
  IN AtMost(IF Less(delta, 0) THEN Negated(delta) ELSE delta, tolerance)

-----------------------------------------------------------------------------
(* FloatRange                                                              *)

DefaultRange == [begin |-> -MaxFloat, end |-> MaxFloat]

Extent(r) == Minus(r.end, r.begin)

\* Mutant: the end does not belong to the range, as in IntRange.
Contains_HalfOpen(r, v) == AtMost(r.begin, v) /\ Less(v, r.end)

Contains(r, v) == AtMost(r.begin, v) /\ AtMost(v, r.end)

EnlargedLeft(r, v) == [r EXCEPT !.begin = Minus(@, v)]
EnlargedRight(r, v) == [r EXCEPT !.end = Plus(@, v)]
Enlarged(r, v) == EnlargedRight(EnlargedLeft(r, v), v)
Shifted(r, v) == [begin |-> Plus(r.begin, v), end |-> Plus(r.end, v)]

\* std::clamp, which is undefined when its bounds are the wrong way round.
Clamp(r, v) == IF Less(v, r.begin) THEN r.begin ELSE IF Less(r.end, v) THEN r.end ELSE v

-----------------------------------------------------------------------------
(* FloatRange2D; points are pairs.                                         *)

Contains2D(r, p) == Contains(r.x, p[1]) /\ Contains(r.y, p[2])
Extent2D(r) == <<Extent(r.x), Extent(r.y)>>
Min2D(r) == <<r.x.begin, r.y.begin>>
Max2D(r) == <<r.x.end, r.y.end>>
Uniform(r, p) == [axis \in {1, 2} |-> Plus(Min2D(r)[axis], Times(p[axis], Extent2D(r)[axis]))]
FromMinMax(min, max) ==
  [x |-> [begin |-> min[1], end |-> max[1]], y |-> [begin |-> min[2], end |-> max[2]]]
Shifted2D(r, p) == [x |-> Shifted(r.x, p[1]), y |-> Shifted(r.y, p[2])]
Enlarged2D(r, p) == [x |-> Enlarged(r.x, p[1]), y |-> Enlarged(r.y, p[2])]
Clamp2D(r, p) == <<Clamp(r.x, p[1]), Clamp(r.y, p[2])>>

-----------------------------------------------------------------------------
Points == Finite \X Finite
Ordered(r) == AtMost(r.begin, r.end)

Init ==
  \/ rectangle = [x |-> DefaultRange, y |-> DefaultRange]
  \/ \E min, max \in Points : min[1] <= max[1] /\ min[2] <= max[2] /\ rectangle = FromMinMax(min, max)

Shift == \E p \in Amounts \X Amounts : rectangle' = Shifted2D(rectangle, p)

\* Enlarge(T) enlarges both axes alike; a negative amount shrinks.
Enlarge == \E p \in Amounts \X Amounts : rectangle' = Enlarged2D(rectangle, p)

Next == Shift \/ Enlarge

Spec == Init /\ [][Next]_rectangle

-----------------------------------------------------------------------------
Distance(a, b) == IF a < b THEN b - a ELSE a - b

\* Unless it was shrunk past empty, a rectangle clamps a point to the nearest one
\* it contains, which is the point itself just when it contains it.
NearestContained ==
  Ordered(rectangle.x) /\ Ordered(rectangle.y) =>
    \A p \in Points :
      LET q == Clamp2D(rectangle, p) IN
      /\ Contains2D(rectangle, q)
      /\ \A axis \in {1, 2}, v \in Finite :
           Contains(IF axis = 1 THEN rectangle.x ELSE rectangle.y, v) =>
             Distance(p[axis], q[axis]) <= Distance(p[axis], v)
      /\ Contains2D(rectangle, p) <=> \A axis \in {1, 2} : AlmostEqual(p[axis], q[axis], 0)

\* The unit square is mapped onto the rectangle, corner to corner - unless its
\* extent overflows, as that of the default range does: then 0 becomes NaN.
CornersOfUnitSquare ==
  \A corner \in {0, 1} \X {0, 1}, axis \in {1, 2} :
    LET extent == Extent2D(rectangle)[axis] u == Uniform(rectangle, corner)[axis] IN
    /\ IsFinite(extent) => u = (IF corner[axis] = 0 THEN Min2D(rectangle) ELSE Max2D(rectangle))[axis]
    /\ ~IsFinite(extent) /\ corner[axis] = 0 => u = NaN
=============================================================================
