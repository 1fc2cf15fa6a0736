---------------------------- MODULE ValuesProofs ----------------------------
(***************************************************************************)
(* What is proved of the integer conversions, of FloatRange2D, of the      *)
(* sorting functions, of IntRange, of FrameRateCounter and of Matrix, as   *)
(* parts of Values, for any widths, largest number, keys, lengths, rates,  *)
(* ticks and shapes: while one of them moves the others rest.  Of GUID,    *)
(* for every one and for any samples.                                      *)
(***************************************************************************)
EXTENDS Values, FiniteSetTheorems, SequenceTheorems, WellFoundedInduction, TLAPS

-----------------------------------------------------------------------------
(* CheckedCast and ClampToAnotherTypeBounds.                               *)

\* Zero is between the bounds of every type, and they are as far apart as its width says.
LEMMA BoundsOfAType ==
  ASSUME NEW t \in Conversions!Types
  PROVE  /\ Conversions!lowest(t) \in Int /\ Conversions!max(t) \in Int
         /\ Conversions!lowest(t) <= 0 /\ 0 <= Conversions!max(t)
         /\ 2 ^ t.bits = Conversions!max(t) - Conversions!lowest(t) + 1
<1>1. t.bits \in Widths /\ t.signed \in BOOLEAN
  BY DEF Conversions!Types
<1> DEFINE half == 2 ^ (t.bits - 1)
           all == 2 ^ t.bits
<1>2. half \in Nat \ {0} /\ all = 2 * half
  BY <1>1, ValuesAssumption, Zenon DEF Conversions!WidthsAssumption
<1>3. /\ Conversions!lowest(t) = IF t.signed THEN -half ELSE 0
      /\ Conversions!max(t) = IF t.signed THEN half - 1 ELSE all - 1
  BY Zenon DEF Conversions!lowest, Conversions!max
<1> HIDE DEF half, all
<1>4. CASE t.signed
  <2>1. Conversions!lowest(t) = -half /\ Conversions!max(t) = half - 1
    BY <1>3, <1>4
  <2> QED BY <1>2, <2>1 DEF all
<1>5. CASE ~t.signed
  <2>1. Conversions!lowest(t) = 0 /\ Conversions!max(t) = all - 1
    BY <1>3, <1>5
  <2> QED BY <1>2, <2>1 DEF all
<1> QED BY <1>4, <1>5

\* A conversion keeps what the type has, and never leaves the type.
LEMMA ConvertedIsKept ==
  ASSUME NEW t \in Conversions!Types, NEW v \in Conversions!ValuesOf(t)
  PROVE  Conversions!Converted(t, v) = v
<1> DEFINE lo == Conversions!lowest(t)
           hi == Conversions!max(t)
           size == 2 ^ t.bits
<1>1. lo \in Int /\ hi \in Int /\ lo <= 0 /\ 0 <= hi /\ size = hi - lo + 1
  BY BoundsOfAType
<1>2. v \in lo .. hi
  BY DEF Conversions!ValuesOf
<1>3. Conversions!Converted(t, v) = ((v - lo) % size) + lo
  BY DEF Conversions!Converted
<1> HIDE DEF lo, hi, size
<1>4. size \in Nat \ {0} /\ v - lo \in 0 .. size - 1
  BY <1>1, <1>2
<1>5. (v - lo) % size = v - lo
  BY <1>4
<1> QED BY <1>1, <1>2, <1>3, <1>5

\* Clamping returns what both types have, and the nearest of it.
LEMMA ClampedIsNearest ==
  ASSUME NEW f \in Conversions!Types, NEW t \in Conversions!Types, NEW v \in Conversions!ValuesOf(f)
  PROVE  /\ Conversions!Clamped(f, t, v) \in Conversions!ValuesOf(f) \cap Conversions!ValuesOf(t)
         /\ \A w \in Conversions!ValuesOf(t) :
              LET Distance(a, b) == IF a < b THEN b - a ELSE a - b
              IN Distance(Conversions!Clamped(f, t, v), v) <= Distance(w, v)
<1> DEFINE fl == Conversions!lowest(f)
           fh == Conversions!max(f)
           tl == Conversions!lowest(t)
           th == Conversions!max(t)
           raised == IF fl < tl /\ v < tl THEN tl ELSE v
           clamped == IF fh > th /\ raised > th THEN th ELSE raised
<1>1. /\ fl \in Int /\ fh \in Int /\ fl <= 0 /\ 0 <= fh
      /\ tl \in Int /\ th \in Int /\ tl <= 0 /\ 0 <= th
  BY BoundsOfAType
<1>2. v \in fl .. fh
  BY DEF Conversions!ValuesOf
<1>3. fl < tl => Conversions!Converted(f, tl) = tl
  <2>1. fl < tl => tl \in Conversions!ValuesOf(f)
    BY <1>1 DEF Conversions!ValuesOf
  <2> QED BY <2>1, ConvertedIsKept
<1>4. fh > th => Conversions!Converted(f, th) = th
  <2>1. fh > th => th \in Conversions!ValuesOf(f)
    BY <1>1 DEF Conversions!ValuesOf
  <2> QED BY <2>1, ConvertedIsKept
<1>5. Conversions!Clamped(f, t, v) = clamped
  BY <1>3, <1>4 DEF Conversions!Clamped
<1>6. clamped \in fl .. fh /\ clamped \in tl .. th
  BY <1>1, <1>2
<1>7. \A w \in tl .. th :
        (IF clamped < v THEN v - clamped ELSE clamped - v) <= (IF w < v THEN v - w ELSE w - v)
  BY <1>1, <1>2
<1> HIDE DEF fl, fh, tl, th, raised, clamped
<1> QED BY <1>5, <1>6, <1>7 DEF Conversions!ValuesOf, fl, fh, tl, th

Typed == from \in Conversions!Types /\ to \in Conversions!Types /\ value \in Conversions!ValuesOf(from)

\* What a call that was made returned.
ConversionsInv ==
  \/ call = "none" /\ (component = "conversions" => Typed)
  \/ /\ call = "CheckedCast" /\ Typed
     /\ outcome = Conversions!CheckedCasted(to, value).outcome
     /\ result = Conversions!CheckedCasted(to, value).result
  \/ call = "Clamp" /\ Typed /\ result = Conversions!Clamped(from, to, value)

\* A step of the conversions changes nothing but them.
LEMMA ConversionsStep == [Next]_vars => [component' = component /\ component = "conversions" /\ Conversions!Next]_<<component, conversions>>
BY DEF Next, SortStep, NumbersStep, GeometryStep, vars, numbers, conversions

\* What was called and what came of it stay as described.
LEMMA ConversionsInvHolds == Spec => []ConversionsInv
<1>1. Init => ConversionsInv
  BY Zenon DEF Init, Conversions!Init, ConversionsInv, Typed
<1>2. ConversionsInv /\ [Next]_vars => ConversionsInv'
  <2> SUFFICES ASSUME ConversionsInv, [Next]_vars PROVE ConversionsInv'
    OBVIOUS
  <2>1. CASE component = "conversions" /\ Conversions!CheckedCast
    BY <2>1 DEF Conversions!CheckedCast, ConversionsInv, Typed
  <2>2. CASE component = "conversions" /\ Conversions!ClampToAnotherTypeBounds
    BY <2>2 DEF Conversions!ClampToAnotherTypeBounds, ConversionsInv, Typed
  <2>3. CASE UNCHANGED <<component, conversions>>
    BY <2>3 DEF ConversionsInv, Typed, conversions
  <2> QED BY <2>1, <2>2, <2>3, ConversionsStep DEF Conversions!Next
<1> QED BY <1>1, <1>2, PTL DEF Spec

\* CheckedCast returns the value it was given, or throws just when the other type does
\* not have it, and ClampToAnotherTypeBounds the nearest value that both types have.
THEOREM ValuesAreKept == Spec => []ConversionsKeepValues
<1>1. ConversionsInv => ConversionsKeepValues
  <2> SUFFICES ASSUME ConversionsInv PROVE ConversionsKeepValues
    OBVIOUS
  <2>1. Conversions!KeepsTheValue
    <3> SUFFICES ASSUME call = "CheckedCast"
                 PROVE  IF \E v \in Conversions!ValuesOf(to) : v = value
                        THEN outcome = "returns" /\ result = value ELSE outcome = "throws"
      BY DEF Conversions!KeepsTheValue
    <3>1. /\ Typed
          /\ outcome = Conversions!CheckedCasted(to, value).outcome
          /\ result = Conversions!CheckedCasted(to, value).result
      BY DEF ConversionsInv
    <3>2. CASE value \in Conversions!ValuesOf(to)
      <4>1. Conversions!Converted(to, value) = value
        BY <3>1, <3>2, ConvertedIsKept DEF Typed
      <4>2. Conversions!CheckedCasted(to, value) = [outcome |-> "returns", result |-> value]
        BY <3>2, <4>1 DEF Conversions!CheckedCasted, Conversions!ThrowIfFailed, Conversions!in_range
      <4> QED BY <3>1, <3>2, <4>2
    <3>3. CASE value \notin Conversions!ValuesOf(to)
      <4>1. Conversions!CheckedCasted(to, value) = [outcome |-> "throws", result |-> 0]
        BY <3>3 DEF Conversions!CheckedCasted, Conversions!ThrowIfFailed, Conversions!in_range
      <4> QED BY <3>1, <3>3, <4>1
    <3> QED BY <3>2, <3>3
  <2>2. Conversions!NearestInBounds
    <3>1. call = "Clamp" => Typed /\ result = Conversions!Clamped(from, to, value)
      BY DEF ConversionsInv
    <3> QED BY <3>1, ClampedIsNearest DEF Conversions!NearestInBounds, Typed
  <2> QED BY <2>1, <2>2 DEF ConversionsKeepValues
<1> QED BY <1>1, ConversionsInvHolds, PTL

-----------------------------------------------------------------------------
(* FloatRange2D, which is FloatRanges in Values.                           *)

Floats == -(MaxFloat + 1) .. MaxFloat + 2
Infinite == {MaxFloat + 1, -(MaxFloat + 1)}

\* The largest number and the numbers up to it.
LEMMA FloatRangeConstants ==
  /\ MaxFloat \in Nat \ {0} /\ Amounts \subseteq -MaxFloat .. MaxFloat
  /\ FloatRanges!Infinity = MaxFloat + 1 /\ FloatRanges!NaN = MaxFloat + 2
  /\ FloatRanges!Finite = -MaxFloat .. MaxFloat
  BY ValuesAssumption DEF FloatRanges!FloatRangeAssumption, FloatRanges!Infinity, FloatRanges!NaN, FloatRanges!Finite

\* A number is finite, infinite or none.
LEMMA KindsOfFloats ==
  ASSUME NEW a \in Floats
  PROVE  /\ a \in Int
         /\ a \in FloatRanges!Finite \/ a \in Infinite \/ a = FloatRanges!NaN
         /\ FloatRanges!Magnitude(a) = FloatRanges!Infinity <=> a \in Infinite
  BY FloatRangeConstants DEF Floats, Infinite, FloatRanges!Magnitude

\* Sums of numbers that are finite, or one of which is not.
LEMMA Sums ==
  ASSUME NEW a \in Floats, NEW b \in Floats
  PROVE  /\ a = FloatRanges!NaN \/ b = FloatRanges!NaN => FloatRanges!Plus(a, b) = FloatRanges!NaN
         /\ a \in FloatRanges!Finite /\ b \in FloatRanges!Finite =>
              FloatRanges!Plus(a, b) = IF a + b > MaxFloat THEN MaxFloat + 1
                                       ELSE IF a + b < -MaxFloat THEN -(MaxFloat + 1) ELSE a + b
         /\ a \in Infinite /\ b \in FloatRanges!Finite => FloatRanges!Plus(a, b) = a
         /\ b \in Infinite /\ a \in FloatRanges!Finite => FloatRanges!Plus(a, b) = b
         /\ a \in Infinite /\ b \in Infinite =>
              FloatRanges!Plus(a, b) = IF a = b THEN a ELSE FloatRanges!NaN
         /\ FloatRanges!Plus(a, b) \in Floats
<1> DEFINE sum == FloatRanges!Plus(a, b)
           nan == a = FloatRanges!NaN \/ b = FloatRanges!NaN
           opposite == {a, b} = {FloatRanges!Infinity, -FloatRanges!Infinity}
<1>1. sum = IF nan \/ opposite THEN FloatRanges!NaN
            ELSE IF FloatRanges!Magnitude(a) = FloatRanges!Infinity THEN a
            ELSE IF FloatRanges!Magnitude(b) = FloatRanges!Infinity THEN b
            ELSE FloatRanges!Overflowing(a + b)
  <2>1. nan <=> FloatRanges!NaN \in {a, b}
    OBVIOUS
  <2> HIDE DEF nan
  <2> QED BY <2>1, Zenon DEF FloatRanges!Plus
<1>2. opposite <=> a \in Infinite /\ b \in Infinite /\ a # b
  <2>1. MaxFloat + 1 # -(MaxFloat + 1)
    BY FloatRangeConstants
  <2>2. opposite <=> {a, b} = {MaxFloat + 1, -(MaxFloat + 1)}
    BY FloatRangeConstants
  <2> QED BY <2>1, <2>2 DEF Infinite
<1>3. /\ FloatRanges!Magnitude(a) = FloatRanges!Infinity <=> a \in Infinite
      /\ FloatRanges!Magnitude(b) = FloatRanges!Infinity <=> b \in Infinite
  BY KindsOfFloats
<1>4. FloatRanges!Overflowing(a + b) = IF a + b > MaxFloat THEN MaxFloat + 1
                                       ELSE IF a + b < -MaxFloat THEN -(MaxFloat + 1) ELSE a + b
  BY FloatRangeConstants DEF FloatRanges!Overflowing
<1>5. /\ FloatRanges!Finite \cap Infinite = {} /\ FloatRanges!NaN \notin FloatRanges!Finite \cup Infinite
      /\ FloatRanges!NaN \in Floats /\ Infinite \subseteq Floats
  BY FloatRangeConstants DEF Infinite, Floats
<1>6. FloatRanges!Overflowing(a + b) \in Floats
  <2>1. a \in Int /\ b \in Int
    BY KindsOfFloats
  <2> QED BY <1>4, <2>1, FloatRangeConstants DEF Floats
<1> HIDE DEF sum, opposite
<1> QED BY <1>1, <1>2, <1>3, <1>4, <1>5, <1>6, KindsOfFloats DEF sum

\* What a difference of two floats is, by the kinds of its operands.
LEMMA Differences ==
  ASSUME NEW a \in Floats, NEW b \in Floats
  PROVE  /\ FloatRanges!Negated(b) \in Floats
         /\ FloatRanges!Negated(b) = IF b = FloatRanges!NaN THEN b ELSE -b
         /\ b \in FloatRanges!Finite => FloatRanges!Negated(b) \in FloatRanges!Finite
         /\ b \in Infinite => FloatRanges!Negated(b) \in Infinite
         /\ FloatRanges!Minus(a, b) = FloatRanges!Plus(a, FloatRanges!Negated(b))
         /\ FloatRanges!Minus(a, b) \in Floats
<1>1. /\ FloatRanges!Negated(b) \in Floats
      /\ FloatRanges!Negated(b) = IF b = FloatRanges!NaN THEN b ELSE -b
      /\ b \in FloatRanges!Finite => FloatRanges!Negated(b) \in FloatRanges!Finite
      /\ b \in Infinite => FloatRanges!Negated(b) \in Infinite
  BY FloatRangeConstants DEF FloatRanges!Negated, Floats, Infinite
<1> QED BY <1>1, Sums DEF FloatRanges!Minus

\* The extent is finite just when the bounds are and are not too far apart.
LEMMA Extents ==
  ASSUME NEW a \in Floats, NEW b \in Floats, FloatRanges!Minus(b, a) \in FloatRanges!Finite
  PROVE  /\ a \in FloatRanges!Finite /\ b \in FloatRanges!Finite
         /\ FloatRanges!Minus(b, a) = b - a
<1> DEFINE n == FloatRanges!Negated(a)
<1>1. /\ n \in Floats /\ n = (IF a = FloatRanges!NaN THEN a ELSE -a) /\ FloatRanges!Minus(b, a) = FloatRanges!Plus(b, n)
      /\ (a \in FloatRanges!Finite => n \in FloatRanges!Finite) /\ (a \in Infinite => n \in Infinite)
  BY Differences
<1> HIDE DEF n
<1>2. /\ FloatRanges!Finite \cap Infinite = {} /\ FloatRanges!NaN \notin FloatRanges!Finite
      /\ MaxFloat + 1 \notin FloatRanges!Finite /\ -(MaxFloat + 1) \notin FloatRanges!Finite
  BY FloatRangeConstants DEF Infinite
<1>3. a \in FloatRanges!Finite /\ b \in FloatRanges!Finite
  <2>1. a # FloatRanges!NaN /\ b # FloatRanges!NaN
    BY <1>1, <1>2, Sums
  <2>2. b \notin Infinite
    <3>1. n \in FloatRanges!Finite \/ n \in Infinite
      BY <1>1, <2>1, KindsOfFloats
    <3>2. /\ b \in Infinite /\ n \in FloatRanges!Finite => FloatRanges!Plus(b, n) = b
          /\ b \in Infinite /\ n \in Infinite => FloatRanges!Plus(b, n) \in {b, FloatRanges!NaN}
      BY <1>1, Sums
    <3> QED BY <1>1, <1>2, <3>1, <3>2
  <2>3. b \in FloatRanges!Finite
    BY <2>1, <2>2, KindsOfFloats
  <2>4. a \notin Infinite
    BY <1>1, <1>2, <2>3, Sums
  <2> QED BY <2>1, <2>3, <2>4, KindsOfFloats
<1>4. FloatRanges!Minus(b, a) = b - a
  <2>1. /\ FloatRanges!Plus(b, n) = IF b + n > MaxFloat THEN MaxFloat + 1
                                    ELSE IF b + n < -MaxFloat THEN -(MaxFloat + 1) ELSE b + n
    BY <1>1, <1>3, Sums
  <2>2. FloatRanges!Plus(b, n) = b + n
    BY <1>1, <1>2, <2>1
  <2>3. n = -a /\ a \in Int /\ b \in Int
    BY <1>1, <1>2, <1>3, KindsOfFloats
  <2> QED BY <1>1, <2>2, <2>3
<1> QED BY <1>3, <1>4

RangeTyped(r) == r \in [begin : Floats, end : Floats]

\* Both axes are ranges of numbers, whatever they were moved and enlarged by.
RectangleInv == RangeTyped(rectangle.x) /\ RangeTyped(rectangle.y)

\* A step of the rectangle changes nothing but it.
LEMMA FloatRangesStep ==
  [Next]_vars => [component' = component /\ component = "FloatRange" /\ FloatRanges!Next]_rectangle
BY DEF Next, SortStep, NumbersStep, GeometryStep, vars, geometry

\* The rectangle stays one of floats.
LEMMA RectangleInvHolds == Spec => []RectangleInv
<1>1. FloatRanges!Finite \subseteq Floats /\ Amounts \subseteq Floats /\ -MaxFloat \in Floats /\ MaxFloat \in Floats
  BY FloatRangeConstants DEF Floats
<1>2. Init => RectangleInv
  <2>1. RangeTyped(FloatRanges!DefaultRange)
    BY <1>1 DEF RangeTyped, FloatRanges!DefaultRange
  <2>2. ASSUME NEW min \in FloatRanges!Points, NEW max \in FloatRanges!Points, rectangle = FloatRanges!FromMinMax(min, max)
        PROVE  RectangleInv
    <3>1. /\ min[1] \in FloatRanges!Finite /\ min[2] \in FloatRanges!Finite
          /\ max[1] \in FloatRanges!Finite /\ max[2] \in FloatRanges!Finite
      BY DEF FloatRanges!Points
    <3> QED BY <1>1, <2>2, <3>1 DEF FloatRanges!FromMinMax, RectangleInv, RangeTyped
  <2>3. ASSUME rectangle = [x |-> FloatRanges!DefaultRange, y |-> FloatRanges!DefaultRange] PROVE RectangleInv
    BY <2>1, <2>3 DEF RectangleInv
  <2> QED BY <2>2, <2>3 DEF Init, FloatRanges!Init
<1>3. ASSUME NEW r, RangeTyped(r), NEW v \in Amounts
      PROVE  RangeTyped(FloatRanges!Shifted(r, v)) /\ RangeTyped(FloatRanges!Enlarged(r, v))
  <2>1. r.begin \in Floats /\ r.end \in Floats /\ v \in Floats
    BY <1>1, <1>3 DEF RangeTyped
  <2>2. /\ FloatRanges!Plus(r.begin, v) \in Floats /\ FloatRanges!Plus(r.end, v) \in Floats
        /\ FloatRanges!Minus(r.begin, v) \in Floats
    BY <2>1, Sums, Differences
  <2>3. RangeTyped(FloatRanges!Shifted(r, v))
    BY <2>2 DEF RangeTyped, FloatRanges!Shifted
  <2> QED BY <1>3, <2>2, <2>3, Zenon DEF RangeTyped, FloatRanges!Enlarged, FloatRanges!EnlargedLeft, FloatRanges!EnlargedRight
<1>4. RectangleInv /\ [Next]_vars => RectangleInv'
  <2> SUFFICES ASSUME RectangleInv, [Next]_vars PROVE RectangleInv'
    OBVIOUS
  <2>1. ASSUME NEW p \in Amounts \X Amounts, rectangle' = FloatRanges!Shifted2D(rectangle, p) PROVE RectangleInv'
    <3>1. p[1] \in Amounts /\ p[2] \in Amounts
      OBVIOUS
    <3>2. rectangle'.x = FloatRanges!Shifted(rectangle.x, p[1]) /\ rectangle'.y = FloatRanges!Shifted(rectangle.y, p[2])
      BY <2>1 DEF FloatRanges!Shifted2D
    <3> QED BY <1>3, <3>1, <3>2 DEF RectangleInv
  <2>2. ASSUME NEW p \in Amounts \X Amounts, rectangle' = FloatRanges!Enlarged2D(rectangle, p) PROVE RectangleInv'
    <3>1. p[1] \in Amounts /\ p[2] \in Amounts
      OBVIOUS
    <3>2. rectangle'.x = FloatRanges!Enlarged(rectangle.x, p[1]) /\ rectangle'.y = FloatRanges!Enlarged(rectangle.y, p[2])
      BY <2>2 DEF FloatRanges!Enlarged2D
    <3> QED BY <1>3, <3>1, <3>2 DEF RectangleInv
  <2>3. ASSUME UNCHANGED rectangle PROVE RectangleInv'
    BY <2>3 DEF RectangleInv
  <2> QED BY <2>1, <2>2, <2>3, FloatRangesStep DEF FloatRanges!Next, FloatRanges!Shift, FloatRanges!Enlarge
<1> QED BY <1>2, <1>4, PTL DEF Spec

\* Numbers that differ do by more than nothing, also where the difference overflows.
LEMMA AlmostEqualExactly ==
  ASSUME NEW a \in FloatRanges!Finite, NEW q \in Floats, q # FloatRanges!NaN
  PROVE  FloatRanges!AlmostEqual(a, q, 0) <=> a = q
<1> DEFINE n == FloatRanges!Negated(q)
           delta == FloatRanges!Minus(a, q)
<1>1. a \in Floats /\ a \in Int /\ q \in Int
  BY FloatRangeConstants DEF Floats
<1>2. /\ n = -q /\ n \in Floats /\ delta = FloatRanges!Plus(a, n) /\ delta \in Floats
      /\ (q \in FloatRanges!Finite => n \in FloatRanges!Finite) /\ (q \in Infinite => n \in Infinite)
  BY <1>1, Differences
<1> HIDE DEF n, delta
<1>3. delta # FloatRanges!NaN /\ delta \in Int /\ (delta = 0 <=> a = q)
  <2>1. CASE q \in FloatRanges!Finite
    <3>1. delta = IF a + n > MaxFloat THEN MaxFloat + 1 ELSE IF a + n < -MaxFloat THEN -(MaxFloat + 1) ELSE a + n
      BY <1>1, <1>2, <2>1, Sums
    <3> QED BY <1>1, <1>2, <3>1, FloatRangeConstants
  <2>2. CASE q \in Infinite
    <3>1. delta = n /\ n \in Infinite
      BY <1>1, <1>2, <2>2, Sums
    <3> QED BY <1>1, <2>2, <3>1, FloatRangeConstants DEF Infinite
  <2> QED BY <2>1, <2>2, KindsOfFloats
<1>4. /\ FloatRanges!Less(delta, 0) <=> delta < 0
      /\ FloatRanges!Negated(delta) = -delta /\ -delta # FloatRanges!NaN
  <2>1. 0 # FloatRanges!NaN /\ -delta # FloatRanges!NaN
    BY <1>2, <1>3, FloatRangeConstants DEF Floats
  <2> QED BY <1>3, <2>1 DEF FloatRanges!Less, FloatRanges!Negated
<1> DEFINE size == IF delta < 0 THEN -delta ELSE delta
<1>5. size \in Nat /\ size # FloatRanges!NaN /\ (size = 0 <=> delta = 0)
  BY <1>3, <1>4
<1>6. FloatRanges!AlmostEqual(a, q, 0) <=> FloatRanges!AtMost(size, 0)
  BY <1>4, Zenon DEF FloatRanges!AlmostEqual, delta
<1> HIDE DEF size
<1>7. FloatRanges!AtMost(size, 0) <=> size = 0
  BY <1>5, FloatRangeConstants DEF FloatRanges!AtMost
<1> QED BY <1>3, <1>5, <1>6, <1>7

\* Clamping on one axis.
LEMMA ClampedOnAxis ==
  ASSUME NEW r, RangeTyped(r), FloatRanges!Ordered(r), NEW a \in FloatRanges!Finite,
         NEW q, q = FloatRanges!Clamp(r, a)
  PROVE  /\ FloatRanges!Contains(r, q)
         /\ \A v \in FloatRanges!Finite :
              FloatRanges!Contains(r, v) => FloatRanges!Distance(a, q) <= FloatRanges!Distance(a, v)
         /\ FloatRanges!Contains(r, a) <=> FloatRanges!AlmostEqual(a, q, 0)
<1> DEFINE b == r.begin
           e == r.end
<1>1. b \in Floats /\ e \in Floats /\ b \in Int /\ e \in Int /\ b # FloatRanges!NaN /\ e # FloatRanges!NaN /\ b <= e
  BY DEF RangeTyped, Floats, FloatRanges!Ordered, FloatRanges!AtMost
<1>2. a \in Int /\ a \in Floats /\ a # FloatRanges!NaN
  BY FloatRangeConstants DEF Floats
<1>3. q = IF a < b THEN b ELSE IF e < a THEN e ELSE a
  BY <1>1, <1>2 DEF FloatRanges!Clamp, FloatRanges!Less
<1>4. \A v \in Int : v # FloatRanges!NaN => (FloatRanges!Contains(r, v) <=> b <= v /\ v <= e)
  BY <1>1 DEF FloatRanges!Contains, FloatRanges!AtMost
<1>5. \A v \in FloatRanges!Finite : v \in Int /\ v # FloatRanges!NaN
  BY FloatRangeConstants
<1> HIDE DEF b, e
<1>6. q \in Int /\ q \in Floats /\ q # FloatRanges!NaN /\ b <= q /\ q <= e
  BY <1>1, <1>2, <1>3
<1>7. \A v \in Int : b <= v /\ v <= e => FloatRanges!Distance(a, q) <= FloatRanges!Distance(a, v)
  BY <1>1, <1>2, <1>3 DEF FloatRanges!Distance
<1>8. b <= a /\ a <= e <=> a = q
  BY <1>1, <1>2, <1>3
<1>9. FloatRanges!AlmostEqual(a, q, 0) <=> a = q
  BY <1>6, AlmostEqualExactly
<1> QED BY <1>2, <1>4, <1>5, <1>6, <1>7, <1>8, <1>9

\* The ends of one axis.
LEMMA EndsOfAxis ==
  ASSUME NEW b \in Floats, NEW e \in Floats, NEW c \in {0, 1}
  PROVE  LET extent == FloatRanges!Minus(e, b)
             u == FloatRanges!Plus(b, FloatRanges!Times(c, extent))
         IN /\ FloatRanges!IsFinite(extent) => u = IF c = 0 THEN b ELSE e
            /\ ~FloatRanges!IsFinite(extent) /\ c = 0 => u = FloatRanges!NaN
<1> DEFINE extent == FloatRanges!Minus(e, b)
           product == FloatRanges!Times(c, extent)
<1>1. extent \in Floats /\ c \in Int
  BY Differences
<1> HIDE DEF extent
<1>2. 0 # FloatRanges!NaN /\ 1 # FloatRanges!NaN /\ c # FloatRanges!NaN
  BY FloatRangeConstants
<1>3. ASSUME FloatRanges!IsFinite(extent)
      PROVE  FloatRanges!Plus(b, product) = IF c = 0 THEN b ELSE e
  <2>1. extent \in FloatRanges!Finite
    BY <1>3 DEF FloatRanges!IsFinite
  <2>2. /\ b \in FloatRanges!Finite /\ e \in FloatRanges!Finite /\ extent = e - b
    BY <2>1, Extents DEF extent
  <2>3. FloatRanges!Magnitude(extent) # FloatRanges!Infinity /\ FloatRanges!Magnitude(c) # FloatRanges!Infinity
        /\ extent # FloatRanges!NaN /\ extent \in Int
    BY <2>1, FloatRangeConstants DEF FloatRanges!Magnitude
  <2>4. c * extent \in FloatRanges!Finite /\ c * extent = IF c = 0 THEN 0 ELSE extent
    BY <2>1, <2>3, FloatRangeConstants
  <2>5. product = c * extent
    <3>1. product = FloatRanges!Overflowing(c * extent)
      BY <1>2, <2>3 DEF FloatRanges!Times
    <3> QED BY <2>4, <3>1, FloatRangeConstants DEF FloatRanges!Overflowing
  <2> HIDE DEF product
  <2>6. b + product = (IF c = 0 THEN b ELSE e) /\ b + product \in FloatRanges!Finite
    BY <2>2, <2>4, <2>5, FloatRangeConstants
  <2>7. b + product <= MaxFloat /\ b + product >= -MaxFloat /\ product \in Floats /\ product \in FloatRanges!Finite
    BY <2>4, <2>5, <2>6, FloatRangeConstants DEF Floats
  <2>8. FloatRanges!Plus(b, product) = IF b + product > MaxFloat THEN MaxFloat + 1
                                       ELSE IF b + product < -MaxFloat THEN -(MaxFloat + 1) ELSE b + product
    BY <2>2, <2>7, Sums
  <2>9. b + product \in Int
    BY <2>6, FloatRangeConstants
  <2> QED BY <2>6, <2>7, <2>8, <2>9, FloatRangeConstants
<1>4. ASSUME ~FloatRanges!IsFinite(extent), c = 0 PROVE FloatRanges!Plus(b, product) = FloatRanges!NaN
  <2>1. extent = FloatRanges!NaN \/ FloatRanges!Magnitude(extent) = FloatRanges!Infinity
    BY <1>1, <1>4, KindsOfFloats DEF FloatRanges!IsFinite
  <2>2. product = FloatRanges!NaN
    BY <1>4, <2>1, Zenon DEF FloatRanges!Times
  <2>3. FloatRanges!NaN \in Floats
    BY FloatRangeConstants DEF Floats
  <2> QED BY <2>2, <2>3, Sums
<1> QED BY <1>3, <1>4 DEF extent

\* However a FloatRange2D was moved, enlarged and shrunk, while it is not empty it clamps a
\* point to the nearest it contains, and it maps the corners of the unit square onto its
\* own as long as its extent is finite: Clamp, Contains and Uniform.
THEOREM NearestIsContained == Spec => []NearestContained
<1>1. RectangleInv => FloatRanges!NearestContained
  <2> SUFFICES ASSUME RectangleInv, FloatRanges!Ordered(rectangle.x), FloatRanges!Ordered(rectangle.y),
                      NEW p \in FloatRanges!Points, NEW q, q = FloatRanges!Clamp2D(rectangle, p)
               PROVE  /\ FloatRanges!Contains2D(rectangle, q)
                      /\ \A axis \in {1, 2}, v \in FloatRanges!Finite :
                           FloatRanges!Contains(IF axis = 1 THEN rectangle.x ELSE rectangle.y, v) =>
                             FloatRanges!Distance(p[axis], q[axis]) <= FloatRanges!Distance(p[axis], v)
                      /\ FloatRanges!Contains2D(rectangle, p) <=>
                           \A axis \in {1, 2} : FloatRanges!AlmostEqual(p[axis], q[axis], 0)
    BY Zenon DEF FloatRanges!NearestContained
  <2>1. p[1] \in FloatRanges!Finite /\ p[2] \in FloatRanges!Finite
    BY DEF FloatRanges!Points
  <2>2. q[1] = FloatRanges!Clamp(rectangle.x, p[1]) /\ q[2] = FloatRanges!Clamp(rectangle.y, p[2])
    BY DEF FloatRanges!Clamp2D
  <2>3. /\ FloatRanges!Contains(rectangle.x, q[1])
        /\ \A v \in FloatRanges!Finite : FloatRanges!Contains(rectangle.x, v) =>
             FloatRanges!Distance(p[1], q[1]) <= FloatRanges!Distance(p[1], v)
        /\ FloatRanges!Contains(rectangle.x, p[1]) <=> FloatRanges!AlmostEqual(p[1], q[1], 0)
    BY <2>1, <2>2, ClampedOnAxis DEF RectangleInv
  <2>4. /\ FloatRanges!Contains(rectangle.y, q[2])
        /\ \A v \in FloatRanges!Finite : FloatRanges!Contains(rectangle.y, v) =>
             FloatRanges!Distance(p[2], q[2]) <= FloatRanges!Distance(p[2], v)
        /\ FloatRanges!Contains(rectangle.y, p[2]) <=> FloatRanges!AlmostEqual(p[2], q[2], 0)
    BY <2>1, <2>2, ClampedOnAxis DEF RectangleInv
  <2> QED BY <2>3, <2>4 DEF FloatRanges!Contains2D
<1>2. RectangleInv => FloatRanges!CornersOfUnitSquare
  <2> SUFFICES ASSUME RectangleInv, NEW corner \in {0, 1} \X {0, 1}, NEW axis \in {1, 2}
               PROVE  LET extent == FloatRanges!Extent2D(rectangle)[axis]
                          u == FloatRanges!Uniform(rectangle, corner)[axis]
                      IN /\ FloatRanges!IsFinite(extent) =>
                              u = (IF corner[axis] = 0 THEN FloatRanges!Min2D(rectangle) ELSE FloatRanges!Max2D(rectangle))[axis]
                         /\ ~FloatRanges!IsFinite(extent) /\ corner[axis] = 0 => u = FloatRanges!NaN
    BY Zenon DEF FloatRanges!CornersOfUnitSquare
  <2> DEFINE r == IF axis = 1 THEN rectangle.x ELSE rectangle.y
             b == r.begin
             e == r.end
  <2>1. r.begin \in Floats /\ r.end \in Floats
    BY DEF RectangleInv, RangeTyped
  <2>2. corner[axis] \in {0, 1}
    OBVIOUS
  <2>3. /\ FloatRanges!Extent2D(rectangle)[axis] = FloatRanges!Minus(e, b)
        /\ FloatRanges!Min2D(rectangle)[axis] = b /\ FloatRanges!Max2D(rectangle)[axis] = e
    BY DEF FloatRanges!Extent2D, FloatRanges!Extent, FloatRanges!Min2D, FloatRanges!Max2D
  <2>4. FloatRanges!Uniform(rectangle, corner)[axis] = FloatRanges!Plus(b, FloatRanges!Times(corner[axis], FloatRanges!Minus(e, b)))
    BY <2>3 DEF FloatRanges!Uniform
  <2> HIDE DEF r
  <2> QED BY <2>1, <2>2, <2>3, <2>4, EndsOfAxis
<1>3. RectangleInv => NearestContained
  BY <1>1, <1>2 DEF NearestContained
<1> QED BY <1>3, RectangleInvHolds, PTL

-----------------------------------------------------------------------------
(* The sorting functions, which are Bubble and Insertion in Values.        *)

Sorting == component \in {"BubbleSort", "InsertionSort"}

Elements == [key : Nat, from : Nat]
Size == Cardinality(DOMAIN arr)

ArrayTyped == Size \in Nat /\ DOMAIN arr = 0 .. Size - 1 /\ arr \in [0 .. Size - 1 -> Elements]

InOrder(p, q) == arr[p].key <= arr[q].key

\* BubbleSort: i passes have brought the i greatest to their places, and the one in
\* progress carries the greatest so far.
BubbleInv ==
  /\ i \in Nat /\ j \in Nat
  /\ Size > 1 /\ i < Size - 1 => j <= Size - 1 - i
  /\ \A q \in 0 .. Size - 1 : q >= Size - i => \A p \in 0 .. q - 1 : InOrder(p, q)
  /\ \A p \in 0 .. Size - 1 : j < Size /\ p <= j => InOrder(p, j)

\* InsertionSort: what comes before i is sorted, and i itself once an element sinks, but
\* for the one that sinks, which is less than all it has passed.
InsertionInv ==
  /\ i \in Nat /\ j \in 0 .. i
  /\ Size > 0 => i <= Size
  /\ j < i => i < Size
  /\ \A p, q \in 0 .. Size - 1 : p < q /\ q <= i /\ q # j => InOrder(p, q) /\ (p = j => ~InOrder(q, p))

SortInv ==
  /\ Sorting => ArrayTyped
  /\ component = "BubbleSort" => BubbleInv
  /\ component = "InsertionSort" => InsertionInv

\* Both functions are given the whole array.
LEMMA CountsOfArrays == Bubble!count = Size /\ Insertion!size = Size /\ Bubble!lastIndex = Size - 1
<1>1. Bubble!Cardinality(DOMAIN arr) = Cardinality(DOMAIN arr)
  BY Zenon DEF Bubble!Cardinality, Cardinality
<1>2. Insertion!Cardinality(DOMAIN arr) = Cardinality(DOMAIN arr)
  BY Zenon DEF Insertion!Cardinality, Cardinality
<1> QED BY <1>1, <1>2 DEF Bubble!count, Insertion!size, Bubble!lastIndex, Size

\* The promises of both are one.
LEMMA OnePromise ==
  /\ Bubble!Promise!Init <=> Insertion!Promise!Init
  /\ Bubble!Promise!Next <=> Insertion!Promise!Next
<1>1. Bubble!Promise!Init <=> Insertion!Promise!Init
  BY Zenon DEF Bubble!Promise!Init, Insertion!Promise!Init, Bubble!Promise!Arrays, Insertion!Promise!Arrays
<1>2. \A p : Bubble!Promise!Swap(p) <=> Insertion!Promise!Swap(p)
  BY Zenon DEF Bubble!Promise!Swap, Insertion!Promise!Swap, Bubble!Promise!Less, Insertion!Promise!Less,
               Bubble!Promise!Swapped, Insertion!Promise!Swapped
<1>3. Bubble!Promise!Return <=> Insertion!Promise!Return
  BY Zenon DEF Bubble!Promise!Return, Insertion!Promise!Return, Bubble!Promise!Less, Insertion!Promise!Less
<1> QED BY <1>1, <1>2, <1>3 DEF Bubble!Promise!Next, Insertion!Promise!Next

\* Two elements change places.
LEMMA PlacesChanged ==
  ASSUME ArrayTyped, NEW p \in 0 .. Size - 1, NEW q \in 0 .. Size - 1, p # q,
         arr' = [arr EXCEPT ![p] = arr[q], ![q] = arr[p]]
  PROVE  /\ ArrayTyped' /\ Size' = Size
         /\ arr'[p] = arr[q] /\ arr'[q] = arr[p]
         /\ \A w \in 0 .. Size - 1 : w # p /\ w # q => arr'[w] = arr[w]
<1>1. /\ arr \in [0 .. Size - 1 -> Elements] /\ DOMAIN arr = 0 .. Size - 1 /\ Size \in Nat
  BY DEF ArrayTyped
<1> DEFINE all == 0 .. Size - 1
<1>2. arr \in [all -> Elements] /\ p \in all /\ q \in all
  BY <1>1
<1> HIDE DEF all
<1>3. /\ arr' \in [all -> Elements] /\ DOMAIN arr' = all
      /\ arr'[p] = arr[q] /\ arr'[q] = arr[p] /\ \A w \in all : w # p /\ w # q => arr'[w] = arr[w]
  BY <1>2
<1>4. Size' = Size
  BY <1>1, <1>3 DEF Size, all
<1> QED BY <1>1, <1>3, <1>4 DEF ArrayTyped, all

\* The elements have keys, which are compared as numbers.
LEMMA KeysAreNumbers ==
  ASSUME ArrayTyped
  PROVE  \A p \in 0 .. Size - 1 : arr[p].key \in Nat
BY DEF ArrayTyped, Elements

\* A step of a sort changes nothing but its variables.
LEMMA SortingStep ==
  [Next]_vars => [/\ UNCHANGED component
                  /\ \/ component = "BubbleSort" /\ Bubble!Next
                     \/ component = "InsertionSort" /\ Insertion!Next]_<<component, sorting>>
BY DEF Next, SortStep, NumbersStep, GeometryStep, vars, sorting

\* An array to be sorted.
LEMMA ArrayAtFirst ==
  ASSUME Bubble!Promise!Init
  PROVE  ArrayTyped /\ returned = FALSE /\ \A p \in 0 .. Size - 1 : arr[p].from = p
<1> DEFINE OfLength(n) == {[p \in 0 .. n - 1 |-> [key |-> k[p], from |-> p]] : k \in [0 .. n - 1 -> Keys]}
<1>1. arr \in Bubble!Promise!Arrays /\ returned = FALSE
  BY DEF Bubble!Promise!Init
<1>2. PICK n \in 0 .. MaxCount : arr \in OfLength(n)
  <2>1. Bubble!Promise!Arrays = UNION {OfLength(n) : n \in 0 .. MaxCount}
    BY Zenon DEF Bubble!Promise!Arrays
  <2> HIDE DEF OfLength
  <2> QED BY <1>1, <2>1
<1>3. PICK k \in [0 .. n - 1 -> Keys] : arr = [p \in 0 .. n - 1 |-> [key |-> k[p], from |-> p]]
  BY <1>2, Zenon
<1> HIDE DEF OfLength
<1>4. Keys \subseteq Nat /\ n \in Nat /\ k \in [0 .. n - 1 -> Keys]
  BY <1>3, ValuesAssumption DEF Bubble!SortAssumption
<1>5. Cardinality(0 .. n - 1) = n
  BY <1>4, FS_Interval
<1>6. DOMAIN arr = 0 .. n - 1 /\ Size = n
  BY <1>3, <1>5 DEF Size
<1>7. ASSUME NEW p \in 0 .. n - 1 PROVE arr[p] \in Elements /\ arr[p].from = p
  <2>1. p \in Nat
    BY <1>4
  <2>2. k[p] \in Keys
    BY <1>4, Zenon
  <2>3. arr[p] = [key |-> k[p], from |-> p]
    BY <1>3
  <2>4. k[p] \in Nat
    BY <1>4, <2>2, Zenon
  <2> QED BY <2>1, <2>3, <2>4 DEF Elements
<1>8. arr \in [0 .. n - 1 -> Elements]
  <2>1. arr = [p \in 0 .. n - 1 |-> arr[p]]
    BY <1>3
  <2> QED BY <1>7, <2>1
<1> QED BY <1>1, <1>4, <1>6, <1>7, <1>8 DEF ArrayTyped

\* Each step of BubbleSort keeps its invariant and is one of AdjacentSort.
LEMMA BubbleKeeps ==
  ASSUME ArrayTyped, BubbleInv, Bubble!Next
  PROVE  ArrayTyped' /\ BubbleInv' /\ (Bubble!Promise!Next \/ UNCHANGED <<arr, returned>>)
<1>1. Bubble!count = Size /\ Bubble!lastIndex = Size - 1
  BY CountsOfArrays
<1>2. \A p \in 0 .. Size - 1 : arr[p].key \in Nat
  BY KeysAreNumbers
<1>3. Size \in Nat /\ DOMAIN arr = 0 .. Size - 1 /\ i \in Nat /\ j \in Nat
  BY DEF ArrayTyped, BubbleInv
<1>4. CASE Bubble!Compare
  <2>1. /\ ~returned /\ Size > 1 /\ j + 1 <= Size - 1 - i /\ j' = j + 1 /\ i' = i /\ returned' = returned
        /\ j \in 0 .. Size - 1 /\ j + 1 \in 0 .. Size - 1
    BY <1>1, <1>3, <1>4 DEF Bubble!Compare, Bubble!InPass
  <2>2. \A p \in 0 .. j : InOrder(p, j)
    BY <1>3, <2>1 DEF BubbleInv
  <2>3. CASE Bubble!Promise!Less(arr[j + 1], arr[j])
    <3>1. arr' = [arr EXCEPT ![j] = arr[j + 1], ![j + 1] = arr[j]]
      BY <1>4, <2>3 DEF Bubble!Compare, Bubble!Promise!Swapped
    <3>2. /\ ArrayTyped' /\ Size' = Size /\ arr'[j] = arr[j + 1] /\ arr'[j + 1] = arr[j]
          /\ \A w \in 0 .. Size - 1 : w # j /\ w # j + 1 => arr'[w] = arr[w]
      <4>1. j # j + 1
        BY <1>3
      <4> QED BY <2>1, <3>1, <4>1, PlacesChanged, Zenon
    <3>3. arr[j + 1].key < arr[j].key
      BY <2>3 DEF Bubble!Promise!Less
    <3>4. ASSUME NEW p \in 0 .. j + 1 PROVE arr'[p].key <= arr'[j + 1].key
      <4>1. p < j => arr'[p] = arr[p] /\ arr[p].key <= arr[j].key
        BY <1>3, <2>1, <2>2, <3>2 DEF InOrder
      <4> QED BY <1>2, <1>3, <2>1, <3>2, <3>3, <4>1
    <3>5. ASSUME NEW q \in 0 .. Size - 1, q >= Size - i, NEW p \in 0 .. q - 1 PROVE InOrder(p, q)'
      <4>1. arr'[q] = arr[q]
        BY <1>3, <2>1, <3>2, <3>5
      <4>2. \A w \in 0 .. q - 1 : arr[w].key <= arr[q].key
        BY <3>5 DEF BubbleInv, InOrder
      <4>3. /\ j \in 0 .. q - 1 /\ j + 1 \in 0 .. q - 1 /\ p \in 0 .. Size - 1
        BY <1>3, <2>1, <3>5
      <4>4. arr'[p] \in {arr[p], arr[j], arr[j + 1]}
        BY <3>2, <4>3
      <4> QED BY <3>5, <4>1, <4>2, <4>3, <4>4 DEF InOrder
    <3>6. BubbleInv'
      <4>1. \A p \in 0 .. Size - 1 : p <= j + 1 => p \in 0 .. j + 1
        BY <1>3
      <4>2. j' \in Nat /\ i' \in Nat /\ j' <= Size' - 1 - i'
        BY <1>3, <2>1, <3>2
      <4>3. \A q \in 0 .. Size' - 1 : q >= Size' - i' => \A p \in 0 .. q - 1 : InOrder(p, q)'
        BY <2>1, <3>2, <3>5
      <4>4. \A p \in 0 .. Size' - 1 : p <= j' => InOrder(p, j)'
        BY <2>1, <3>2, <3>4, <4>1 DEF InOrder
      <4> QED BY <4>2, <4>3, <4>4 DEF BubbleInv
    <3>7. Bubble!Promise!Swap(j)
      BY <1>3, <2>1, <2>3, <3>1 DEF Bubble!Promise!Swap, Bubble!Promise!Swapped
    <3>8. Bubble!Promise!Next
      BY <1>3, <2>1, <3>7 DEF Bubble!Promise!Next
    <3> QED BY <3>2, <3>6, <3>8
  <2>4. CASE ~Bubble!Promise!Less(arr[j + 1], arr[j])
    <3>1. arr' = arr /\ Size' = Size
      BY <1>4, <2>4 DEF Bubble!Compare, Size
    <3>2. arr[j].key <= arr[j + 1].key
      BY <1>2, <2>1, <2>4 DEF Bubble!Promise!Less
    <3>3. ASSUME NEW p \in 0 .. Size - 1, p <= j + 1 PROVE arr[p].key <= arr[j + 1].key
      <4>1. p <= j => arr[p].key <= arr[j].key
        BY <1>3, <2>2, <3>3 DEF InOrder
      <4> QED BY <1>2, <1>3, <2>1, <3>2, <3>3, <4>1
    <3>4. j' \in Nat /\ i' \in Nat /\ j' <= Size' - 1 - i'
      BY <1>3, <2>1, <3>1
    <3>5. \A q \in 0 .. Size' - 1 : q >= Size' - i' => \A p \in 0 .. q - 1 : InOrder(p, q)'
      BY <2>1, <3>1 DEF BubbleInv, InOrder
    <3>6. \A p \in 0 .. Size' - 1 : p <= j' => InOrder(p, j)'
      BY <2>1, <3>1, <3>3 DEF InOrder
    <3>7. BubbleInv'
      BY <3>4, <3>5, <3>6 DEF BubbleInv
    <3> QED BY <2>1, <3>1, <3>7 DEF ArrayTyped
  <2> QED BY <2>3, <2>4
<1>5. CASE Bubble!NextPass
  <2>1. /\ Size > 1 /\ i < Size - 1 /\ j = Size - 1 - i /\ i' = i + 1 /\ j' = 0 /\ arr' = arr /\ returned' = returned
    BY <1>1, <1>3, <1>5 DEF Bubble!NextPass, Bubble!InPass, BubbleInv
  <2>2. Size' = Size
    BY <2>1 DEF Size
  <2>3. ASSUME NEW q \in 0 .. Size - 1, q >= Size - (i + 1), NEW p \in 0 .. q - 1 PROVE InOrder(p, q)
    <3>1. q >= Size - i \/ q = j
      BY <1>3, <2>1, <2>3
    <3>2. CASE q >= Size - i
      BY <2>3, <3>2 DEF BubbleInv
    <3>3. CASE q = j
      <4>1. p \in 0 .. Size - 1 /\ p <= j /\ j < Size
        BY <1>3, <2>1, <2>3, <3>3
      <4> QED BY <3>3, <4>1 DEF BubbleInv
    <3> QED BY <3>1, <3>2, <3>3
  <2>4. \A q \in 0 .. Size' - 1 : q >= Size' - i' => \A p \in 0 .. q - 1 : InOrder(p, q)'
    BY <2>1, <2>2, <2>3 DEF InOrder
  <2>5. \A p \in 0 .. Size' - 1 : p <= j' => InOrder(p, j)'
    <3>1. \A p \in 0 .. Size - 1 : p <= 0 => p = 0 /\ arr[p].key <= arr[p].key
      BY <1>2, <1>3
    <3> QED BY <2>1, <2>2, <3>1 DEF InOrder
  <2>6. j' \in Nat /\ i' \in Nat /\ (i' < Size' - 1 => j' <= Size' - 1 - i')
    BY <1>3, <2>1, <2>2
  <2>7. BubbleInv'
    BY <2>4, <2>5, <2>6 DEF BubbleInv
  <2> QED BY <2>1, <2>7 DEF ArrayTyped, Size
<1>6. CASE Bubble!Return
  <2>1. /\ ~returned /\ ~Bubble!InPass /\ returned' = TRUE /\ UNCHANGED <<arr, i, j>>
    BY <1>6 DEF Bubble!Return
  <2>2. ASSUME NEW p \in 0 .. Size - 1, NEW q \in 0 .. Size - 1, p < q PROVE InOrder(p, q)
    <3>1. Size <= 1 \/ i >= Size - 1
      BY <1>1, <1>3, <2>1 DEF Bubble!InPass
    <3>2. q >= Size - i /\ p \in 0 .. q - 1
      BY <1>3, <2>2, <3>1
    <3> QED BY <3>2 DEF BubbleInv
  <2>3. \A p, q \in DOMAIN arr : p < q => ~Bubble!Promise!Less(arr[q], arr[p])
    BY <1>2, <1>3, <2>2 DEF InOrder, Bubble!Promise!Less
  <2>4. Bubble!Promise!Next
    BY <2>1, <2>3 DEF Bubble!Promise!Next, Bubble!Promise!Return
  <2> QED BY <2>1, <2>4 DEF ArrayTyped, BubbleInv, Size, InOrder
<1> QED BY <1>4, <1>5, <1>6 DEF Bubble!Next

\* Each step of InsertionSort keeps its invariant and is one of AdjacentSort.
LEMMA InsertionKeeps ==
  ASSUME ArrayTyped, InsertionInv, Insertion!Next
  PROVE  ArrayTyped' /\ InsertionInv' /\ (Insertion!Promise!Next \/ UNCHANGED <<arr, returned>>)
<1>1. Insertion!size = Size
  BY CountsOfArrays
<1>2. \A p \in 0 .. Size - 1 : arr[p].key \in Nat
  BY KeysAreNumbers
<1>3. Size \in Nat /\ DOMAIN arr = 0 .. Size - 1 /\ i \in Nat /\ j \in 0 .. i /\ (j < i => i < Size)
  BY DEF ArrayTyped, InsertionInv
<1>4. CASE Insertion!Sink
  <2>1. /\ ~returned /\ i < Size /\ j > 0 /\ j' = j - 1 /\ i' = i /\ returned' = returned
        /\ j \in 0 .. Size - 1 /\ j - 1 \in 0 .. Size - 1 /\ j - 1 # j
        /\ arr[j].key < arr[j - 1].key
        /\ arr' = [arr EXCEPT ![j - 1] = arr[j], ![j] = arr[j - 1]]
    BY <1>1, <1>3, <1>4 DEF Insertion!Sink, Insertion!Inserting, Insertion!SinksFurther, Insertion!Promise!Less, Insertion!Promise!Swapped
  <2>2. /\ ArrayTyped' /\ Size' = Size /\ arr'[j - 1] = arr[j] /\ arr'[j] = arr[j - 1]
        /\ \A w \in 0 .. Size - 1 : w # j - 1 /\ w # j => arr'[w] = arr[w]
    BY <2>1, PlacesChanged, Zenon
  <2>3. \A p, q \in 0 .. Size - 1 : p < q /\ q <= i /\ q # j =>
          arr[p].key <= arr[q].key /\ (p = j => arr[p].key < arr[q].key)
    BY <1>2 DEF InsertionInv, InOrder
  <2>4. ASSUME NEW p \in 0 .. Size - 1, NEW q \in 0 .. Size - 1, p < q, q <= i, q # j - 1
        PROVE  arr'[p].key <= arr'[q].key /\ (p = j - 1 => arr'[p].key < arr'[q].key)
    <3>1. CASE q = j
      <4>1. CASE p = j - 1
        BY <1>2, <2>1, <2>2, <3>1, <4>1
      <4>2. CASE p # j - 1
        <5>1. arr'[p] = arr[p] /\ arr'[q] = arr[j - 1] /\ p < j - 1 /\ j - 1 <= i
          BY <1>3, <2>1, <2>2, <2>4, <3>1, <4>2
        <5> QED BY <2>1, <2>3, <4>2, <5>1
      <4> QED BY <4>1, <4>2
    <3>2. CASE q # j
      <4>1. arr'[q] = arr[q]
        BY <2>2, <2>4, <3>2
      <4>2. CASE p = j - 1
        <5>1. j < q /\ arr'[p] = arr[j]
          BY <1>3, <2>1, <2>2, <2>4, <3>2, <4>2
        <5> QED BY <2>1, <2>3, <2>4, <3>2, <4>1, <5>1
      <4>3. CASE p = j
        <5>1. j - 1 < q /\ arr'[p] = arr[j - 1]
          BY <1>3, <2>1, <2>2, <2>4, <4>3
        <5>2. p # j - 1
          BY <2>1, <4>3
        <5> QED BY <2>1, <2>3, <2>4, <3>2, <4>1, <5>1, <5>2
      <4>4. CASE p # j - 1 /\ p # j
        <5>1. arr'[p] = arr[p]
          BY <2>2, <4>4
        <5> QED BY <2>3, <2>4, <3>2, <4>1, <4>4, <5>1
      <4> QED BY <4>2, <4>3, <4>4
    <3> QED BY <3>1, <3>2
  <2>5. \A p \in 0 .. Size - 1 : arr'[p].key \in Nat
    BY <2>2 DEF ArrayTyped, Elements
  <2>6. \A p, q \in 0 .. Size' - 1 : p < q /\ q <= i' /\ q # j' => InOrder(p, q)' /\ (p = j' => ~InOrder(q, p)')
    <3> SUFFICES ASSUME NEW p \in 0 .. Size - 1, NEW q \in 0 .. Size - 1, p < q, q <= i, q # j - 1
                 PROVE  arr'[p].key <= arr'[q].key /\ (p = j - 1 => ~(arr'[q].key <= arr'[p].key))
      BY <2>1, <2>2, Zenon DEF InOrder
    <3>1. arr'[p].key \in Nat /\ arr'[q].key \in Nat
      BY <2>5
    <3> QED BY <2>4, <3>1
  <2>7. i' \in Nat /\ j' \in 0 .. i' /\ (Size' > 0 => i' <= Size') /\ (j' < i' => i' < Size')
    BY <1>3, <2>1, <2>2
  <2>8. InsertionInv'
    BY <2>6, <2>7 DEF InsertionInv
  <2>9. Insertion!Promise!Swap(j - 1)
    <3>1. j - 1 + 1 = j /\ {j - 1, j} \subseteq DOMAIN arr
      BY <1>3, <2>1
    <3> QED BY <2>1, <3>1, Zenon DEF Insertion!Promise!Swap, Insertion!Promise!Less, Insertion!Promise!Swapped
  <2>10. Insertion!Promise!Next
    BY <1>3, <2>1, <2>9 DEF Insertion!Promise!Next
  <2> QED BY <2>2, <2>8, <2>10
<1>5. CASE Insertion!NextElement
  <2>1. /\ Size > 1 /\ i < Size /\ i' = i + 1 /\ j' = i + 1 /\ arr' = arr /\ returned' = returned
        /\ ~Insertion!SinksFurther
    BY <1>1, <1>5 DEF Insertion!NextElement, Insertion!Inserting
  <2>2. Size' = Size
    BY <2>1 DEF Size
  <2>3. j > 0 => arr[j - 1].key <= arr[j].key
    BY <1>2, <1>3, <2>1 DEF Insertion!SinksFurther, Insertion!Promise!Less
  <2>4. ASSUME NEW p \in 0 .. Size - 1, NEW q \in 0 .. Size - 1, p < q, q <= i PROVE arr[p].key <= arr[q].key
    <3>1. CASE q # j
      BY <2>4, <3>1 DEF InsertionInv, InOrder
    <3>2. CASE q = j
      <4>1. j > 0 /\ j - 1 \in 0 .. Size - 1 /\ (p = j - 1 \/ p < j - 1)
        BY <1>3, <2>4, <3>2
      <4>2. p < j - 1 => arr[p].key <= arr[j - 1].key
        BY <1>3, <2>4, <3>2, <4>1 DEF InsertionInv, InOrder
      <4> QED BY <1>2, <2>3, <3>2, <4>1, <4>2
    <3> QED BY <3>1, <3>2
  <2>5. \A p, q \in 0 .. Size' - 1 : p < q /\ q <= i' /\ q # j' => InOrder(p, q)' /\ (p = j' => ~InOrder(q, p)')
    <3> SUFFICES ASSUME NEW p \in 0 .. Size - 1, NEW q \in 0 .. Size - 1, p < q, q <= i + 1, q # i + 1
                 PROVE  arr[p].key <= arr[q].key /\ p # i + 1
      BY <2>1, <2>2 DEF InOrder
    <3> QED BY <1>3, <2>4
  <2>6. i' \in Nat /\ j' \in 0 .. i' /\ (Size' > 0 => i' <= Size') /\ ~(j' < i')
    BY <1>3, <2>1, <2>2
  <2>7. InsertionInv'
    BY <2>5, <2>6 DEF InsertionInv
  <2> QED BY <2>1, <2>7 DEF ArrayTyped, Size
<1>6. CASE Insertion!Return
  <2>1. /\ ~returned /\ ~Insertion!Inserting /\ returned' = TRUE /\ UNCHANGED <<arr, i, j>>
    BY <1>6 DEF Insertion!Return
  <2>2. ASSUME NEW p \in 0 .. Size - 1, NEW q \in 0 .. Size - 1, p < q PROVE InOrder(p, q)
    <3>1. i = Size /\ j = i
      BY <1>1, <1>3, <2>1, <2>2 DEF Insertion!Inserting, InsertionInv
    <3>2. q <= i /\ q # j
      BY <1>3, <3>1
    <3> QED BY <2>2, <3>2 DEF InsertionInv
  <2>3. \A p, q \in DOMAIN arr : p < q => ~Insertion!Promise!Less(arr[q], arr[p])
    BY <1>2, <1>3, <2>2 DEF InOrder, Insertion!Promise!Less
  <2>4. Insertion!Promise!Next
    BY <2>1, <2>3 DEF Insertion!Promise!Next, Insertion!Promise!Return
  <2> QED BY <2>1, <2>4 DEF ArrayTyped, InsertionInv, Size, InOrder
<1> QED BY <1>4, <1>5, <1>6 DEF Insertion!Next

\* An array that is not sorted by either is empty.
LEMMA PromisedAtFirst ==
  ASSUME Init
  PROVE  Bubble!Promise!Init
<1>1. CASE component = "BubbleSort"
  BY <1>1 DEF Init, Bubble!Init
<1>2. CASE component = "InsertionSort"
  BY <1>2, OnePromise DEF Init, Insertion!Init
<1>3. CASE ~Sorting
  <2>1. arr = [p \in {} |-> 0] /\ returned = FALSE
    BY <1>3 DEF Init, Sorting
  <2> DEFINE OfLength(n) == {[p \in 0 .. n - 1 |-> [key |-> k[p], from |-> p]] : k \in [0 .. n - 1 -> Keys]}
  <2>2. arr \in OfLength(0)
    <3>1. 0 .. 0 - 1 = {}
      OBVIOUS
    <3>2. [p \in {} |-> 0] \in [0 .. 0 - 1 -> Keys]
      BY <3>1
    <3> DEFINE none == [p \in {} |-> 0]
    <3>3. arr = [p \in 0 .. 0 - 1 |-> [key |-> none[p], from |-> p]]
      BY <2>1, <3>1
    <3> HIDE DEF none
    <3> QED BY <3>2, <3>3, Zenon DEF none
  <2>3. 0 \in 0 .. MaxCount
    BY ValuesAssumption DEF Bubble!SortAssumption
  <2>4. Bubble!Promise!Arrays = UNION {OfLength(n) : n \in 0 .. MaxCount}
    BY Zenon DEF Bubble!Promise!Arrays
  <2> HIDE DEF OfLength
  <2>5. arr \in Bubble!Promise!Arrays
    BY <2>2, <2>3, <2>4
  <2> QED BY <2>1, <2>5 DEF Bubble!Promise!Init
<1> QED BY <1>1, <1>2, <1>3 DEF Sorting

\* The invariants of the sorts hold throughout.
LEMMA SortInvHolds == Spec => []SortInv
<1>1. Init => SortInv
  <2> SUFFICES ASSUME Init PROVE SortInv
    OBVIOUS
  <2>1. ArrayTyped
    BY PromisedAtFirst, ArrayAtFirst
  <2>2. Size \in Nat /\ \A p \in 0 .. Size - 1 : arr[p].key \in Nat
    BY <2>1, KeysAreNumbers DEF ArrayTyped
  <2>3. component = "BubbleSort" => BubbleInv
    <3> SUFFICES ASSUME component = "BubbleSort" PROVE BubbleInv
      OBVIOUS
    <3>1. i = 0 /\ j = 0
      BY DEF Init, Bubble!Init
    <3>2. \A p \in 0 .. Size - 1 : p <= 0 => p = 0 /\ arr[p].key <= arr[p].key
      BY <2>2
    <3>3. \A q \in 0 .. Size - 1 : ~(q >= Size - 0)
      BY <2>2
    <3> QED BY <2>2, <3>1, <3>2, <3>3 DEF BubbleInv, InOrder
  <2>4. component = "InsertionSort" => InsertionInv
    <3> SUFFICES ASSUME component = "InsertionSort" PROVE InsertionInv
      OBVIOUS
    <3>1. i = 1 /\ j = 1
      BY DEF Init, Insertion!Init
    <3>2. \A p, q \in 0 .. Size - 1 : ~(p < q /\ q <= 1 /\ q # 1)
      BY <2>2
    <3> QED BY <2>2, <3>1, <3>2 DEF InsertionInv
  <2> QED BY <2>1, <2>3, <2>4 DEF SortInv
<1>2. SortInv /\ [Next]_vars => SortInv'
  <2> SUFFICES ASSUME SortInv, [Next]_vars PROVE SortInv'
    OBVIOUS
  <2>1. CASE UNCHANGED component /\ component = "BubbleSort" /\ Bubble!Next
    BY <2>1, BubbleKeeps DEF SortInv, Sorting
  <2>2. CASE UNCHANGED component /\ component = "InsertionSort" /\ Insertion!Next
    BY <2>2, InsertionKeeps DEF SortInv, Sorting
  <2>3. CASE UNCHANGED <<component, sorting>>
    BY <2>3 DEF SortInv, Sorting, ArrayTyped, BubbleInv, InsertionInv, Size, InOrder, sorting
  <2> QED BY <2>1, <2>2, <2>3, SortingStep
<1> QED BY <1>1, <1>2, PTL DEF Spec

\* Both sorting functions swap only neighbours that are out of order - so they are stable -
\* and return only when none are left.
THEOREM SortsSwapNeighbours == Spec => Bubble!SortsByAdjacentSwaps /\ Insertion!SortsByAdjacentSwaps
<1>1. Init => Bubble!Promise!Init /\ Insertion!Promise!Init
  BY PromisedAtFirst, OnePromise
<1>2. SortInv /\ [Next]_vars => [Bubble!Promise!Next]_<<arr, returned>> /\ [Insertion!Promise!Next]_<<arr, returned>>
  <2> SUFFICES ASSUME SortInv, [Next]_vars
               PROVE  Bubble!Promise!Next \/ UNCHANGED <<arr, returned>>
    BY OnePromise
  <2>1. CASE component = "BubbleSort" /\ Bubble!Next
    BY <2>1, BubbleKeeps DEF SortInv, Sorting
  <2>2. CASE component = "InsertionSort" /\ Insertion!Next
    BY <2>2, InsertionKeeps, OnePromise DEF SortInv, Sorting
  <2>3. CASE UNCHANGED <<component, sorting>>
    BY <2>3 DEF sorting
  <2> QED BY <2>1, <2>2, <2>3, SortingStep
<1> QED BY <1>1, <1>2, SortInvHolds, PTL
        DEF Spec, Bubble!SortsByAdjacentSwaps, Insertion!SortsByAdjacentSwaps, Bubble!Promise!Spec, Insertion!Promise!Spec

\* What sorting by such swaps comes to: elements with equal keys keep their order, none is
\* lost or doubled, and what is returned is in order.
SortedStably ==
  /\ Bubble!Promise!Stable
  /\ Bubble!Promise!Permuted
  /\ returned => \A p, q \in DOMAIN arr : p < q => ~Bubble!Promise!Less(arr[q], arr[p])

\* Swapping neighbours out of order keeps the order of equal keys.
LEMMA SwapsKeepOrder ==
  ASSUME ArrayTyped, SortedStably, NEW w \in DOMAIN arr, Bubble!Promise!Swap(w)
  PROVE  SortedStably'
<1>1. /\ ~returned /\ w \in 0 .. Size - 1 /\ w + 1 \in 0 .. Size - 1 /\ returned' = returned
      /\ arr' = [arr EXCEPT ![w] = arr[w + 1], ![w + 1] = arr[w]]
      /\ arr[w + 1].key < arr[w].key /\ DOMAIN arr = 0 .. Size - 1 /\ Size \in Nat
  BY DEF Bubble!Promise!Swap, Bubble!Promise!Less, Bubble!Promise!Swapped, ArrayTyped
<1>2. w \in Nat /\ w # w + 1
  BY <1>1
<1>3. /\ ArrayTyped' /\ Size' = Size /\ arr'[w] = arr[w + 1] /\ arr'[w + 1] = arr[w]
      /\ \A p \in 0 .. Size - 1 : p # w /\ p # w + 1 => arr'[p] = arr[p]
  BY <1>1, <1>2, PlacesChanged, Zenon
<1>4. DOMAIN arr' = 0 .. Size - 1
  BY <1>3 DEF ArrayTyped
<1>5. \A p, q \in 0 .. Size - 1 : p < q /\ arr[p].key = arr[q].key => arr[p].from < arr[q].from
  BY <1>1 DEF SortedStably, Bubble!Promise!Stable
<1>6. ASSUME NEW p \in 0 .. Size - 1, NEW q \in 0 .. Size - 1, p < q, arr'[p].key = arr'[q].key
      PROVE  arr'[p].from < arr'[q].from
  <2>1. \E pp, qq \in 0 .. Size - 1 : pp < qq /\ arr'[p] = arr[pp] /\ arr'[q] = arr[qq]
    <3>1. p = w => q # w + 1
      <4>1. arr[w + 1].key \in Nat /\ arr[w].key \in Nat
        BY <1>1, KeysAreNumbers
      <4> QED BY <1>1, <1>3, <1>6, <4>1
    <3>2. CASE p = w
      BY <1>1, <1>2, <1>3, <1>6, <3>1, <3>2
    <3>3. CASE p = w + 1
      BY <1>1, <1>2, <1>3, <1>6, <3>3
    <3>4. CASE p # w /\ p # w + 1
      BY <1>1, <1>2, <1>3, <1>6, <3>4
    <3> QED BY <3>2, <3>3, <3>4
  <2> QED BY <1>5, <1>6, <2>1
<1>7. Bubble!Promise!Stable'
  BY <1>4, <1>6 DEF Bubble!Promise!Stable
<1>8. Bubble!Promise!Permuted'
  <2> DEFINE places == 0 .. Size - 1
             before == {arr[p].from : p \in places}
             after == {arr'[p].from : p \in places}
  <2>1. before = places
    BY <1>1, Zenon DEF SortedStably, Bubble!Promise!Permuted
  <2>2. \A p \in places : \E q \in places : arr'[p] = arr[q]
    BY <1>1, <1>3
  <2>3. \A p \in places : \E q \in places : arr[p] = arr'[q]
    BY <1>1, <1>3
  <2>4. after = before
    <3> HIDE DEF places
    <3>1. after \subseteq before
      BY <2>2
    <3>2. before \subseteq after
      BY <2>3
    <3> QED BY <3>1, <3>2, Zenon
  <2> QED BY <1>4, <2>1, <2>4, Zenon DEF Bubble!Promise!Permuted
<1> QED BY <1>1, <1>7, <1>8 DEF SortedStably

\* Whichever of the two sorts, the array it returns is in order, elements with equal keys
\* as they were, and the elements are those it was given.
THEOREM SortsStably == Spec => []SortedStably
<1>1. Init => SortedStably
  <2> SUFFICES ASSUME Init PROVE SortedStably
    OBVIOUS
  <2>1. ArrayTyped /\ returned = FALSE /\ \A p \in 0 .. Size - 1 : arr[p].from = p
    BY PromisedAtFirst, ArrayAtFirst
  <2>2. DOMAIN arr = 0 .. Size - 1
    BY <2>1 DEF ArrayTyped
  <2>3. Bubble!Promise!Stable
    BY <2>1, <2>2 DEF Bubble!Promise!Stable
  <2>4. Bubble!Promise!Permuted
    BY <2>1, <2>2 DEF Bubble!Promise!Permuted
  <2> QED BY <2>1, <2>3, <2>4 DEF SortedStably
<1>2. SortInv /\ SortedStably /\ [Next]_vars => SortedStably'
  <2> SUFFICES ASSUME SortInv, SortedStably, [Next]_vars PROVE SortedStably'
    OBVIOUS
  <2>1. CASE UNCHANGED <<arr, returned>>
    BY <2>1 DEF SortedStably, Bubble!Promise!Stable, Bubble!Promise!Permuted, Bubble!Promise!Less
  <2>2. ASSUME ArrayTyped, Bubble!Promise!Next PROVE SortedStably'
    <3>1. ASSUME NEW w \in DOMAIN arr, Bubble!Promise!Swap(w) PROVE SortedStably'
      BY <2>2, <3>1, SwapsKeepOrder
    <3>2. ASSUME Bubble!Promise!Return PROVE SortedStably'
      BY <3>2 DEF Bubble!Promise!Return, SortedStably, Bubble!Promise!Stable, Bubble!Promise!Permuted, Bubble!Promise!Less
    <3> QED BY <2>2, <3>1, <3>2 DEF Bubble!Promise!Next
  <2>3. CASE component = "BubbleSort" /\ Bubble!Next
    BY <2>1, <2>2, <2>3, BubbleKeeps DEF SortInv, Sorting
  <2>4. CASE component = "InsertionSort" /\ Insertion!Next
    BY <2>1, <2>2, <2>4, InsertionKeeps, OnePromise DEF SortInv, Sorting
  <2>5. CASE UNCHANGED <<component, sorting>>
    BY <2>1, <2>5 DEF sorting
  <2> QED BY <2>3, <2>4, <2>5, SortingStep
<1> QED BY <1>1, <1>2, SortInvHolds, PTL DEF Spec

-----------------------------------------------------------------------------
(* Sums.  The community modules fold over a set in the order in which      *)
(* CHOOSE takes its elements, by a recursive function on its subsets.      *)

Pick(s) == CHOOSE x \in s : TRUE

\* h adds up f over the subsets of S.
Adds(f, S, h) == h = [s \in SUBSET S |-> IF s = {} THEN 0 ELSE f[Pick(s)] + h[s \ {Pick(s)}]]

SumOf(f, S) == (CHOOSE h : Adds(f, S, h))[S]

\* A set of natural numbers has a least element.
LEMMA LeastNumber ==
  ASSUME NEW B, B # {}, B \subseteq Nat
  PROVE  \E n \in B : \A k \in B : n <= k
<1> DEFINE less == {pair \in Nat \X Nat : pair[1] < pair[2]}
<1>1. IsWellFoundedOn(less, Nat)
  BY NatLessThanWellFounded DEF OpToRel
<1>2. PICK n \in B : \A k \in B : <<k, n>> \notin less
  <2> HIDE DEF less
  <2> QED BY <1>1, WFMin, Zenon
<1>3. ASSUME NEW k \in B PROVE n <= k
  <2>1. n \in Nat /\ k \in Nat /\ <<k, n>> \notin less
    BY <1>2
  <2> QED BY <2>1
<1> QED BY <1>3

\* A set of finite sets that is not empty has a smallest one.
LEMMA Smallest ==
  ASSUME NEW B, B # {}, \A s \in B : IsFiniteSet(s)
  PROVE  \E s \in B : \A t \in B : Cardinality(s) <= Cardinality(t)
<1> DEFINE sizes == {Cardinality(s) : s \in B}
<1>1. sizes # {} /\ sizes \subseteq Nat
  BY FS_CardinalityType
<1>2. PICK n \in sizes : \A k \in sizes : n <= k
  <2> HIDE DEF sizes
  <2> QED BY <1>1, LeastNumber, Zenon
<1> QED BY <1>2

\* Taking one element out makes a finite set smaller.
LEMMA Without ==
  ASSUME NEW s, s # {}, IsFiniteSet(s), NEW x \in s
  PROVE  IsFiniteSet(s \ {x}) /\ Cardinality(s \ {x}) < Cardinality(s)
<1>1. IsFiniteSet(s \ {x}) /\ Cardinality(s \ {x}) = Cardinality(s) - 1
  BY FS_RemoveElement
<1>2. Cardinality(s) \in Nat
  BY FS_CardinalityType
<1> QED BY <1>1, <1>2

\* What is picked of a set is one of it.
LEMMA Picked == ASSUME NEW s, s # {} PROVE Pick(s) \in s
BY DEF Pick

\* Two functions that add up the same values have the same sums.
LEMMA SumsAgree ==
  ASSUME NEW f, NEW g, NEW S, NEW T, NEW h, NEW k, Adds(f, S, h), Adds(g, T, k),
         NEW s, IsFiniteSet(s), s \subseteq S, s \subseteq T, \A x \in s : f[x] = g[x]
  PROVE  h[s] = k[s]
<1> DEFINE B == {t \in SUBSET s : h[t] # k[t]}
<1>1. B # {} => FALSE
  <2> SUFFICES ASSUME B # {} PROVE FALSE
    OBVIOUS
  <2>1. \A t \in B : IsFiniteSet(t)
    BY FS_Subset
  <2>2. PICK t \in B : \A u \in B : Cardinality(t) <= Cardinality(u)
    <3> HIDE DEF B
    <3> QED BY <2>1, Smallest
  <2>3. /\ h[t] = IF t = {} THEN 0 ELSE f[Pick(t)] + h[t \ {Pick(t)}]
        /\ k[t] = IF t = {} THEN 0 ELSE g[Pick(t)] + k[t \ {Pick(t)}]
    <3>1. t \in SUBSET S /\ t \in SUBSET T
      OBVIOUS
    <3> QED BY <3>1, Zenon DEF Adds
  <2>4. t # {} /\ h[t] # k[t] /\ t \subseteq s
    BY <2>3
  <2>5. Pick(t) \in t
    BY <2>4, Picked
  <2>6. IsFiniteSet(t) /\ Cardinality(t \ {Pick(t)}) < Cardinality(t)
    BY <2>1, <2>4, <2>5, Without
  <2>7. Cardinality(t) \in Nat /\ Cardinality(t \ {Pick(t)}) \in Nat
    BY <2>5, <2>6, <2>4, Without, FS_CardinalityType
  <2>8. t \ {Pick(t)} \notin B
    BY <2>2, <2>6, <2>7
  <2>9. h[t \ {Pick(t)}] = k[t \ {Pick(t)}]
    BY <2>4, <2>8
  <2> QED BY <2>3, <2>4, <2>5, <2>9
<1> QED BY <1>1

\* There is a function that adds up.
LEMMA SumsExist ==
  ASSUME NEW f, NEW S, IsFiniteSet(S)
  PROVE  \E h : Adds(f, S, h)
<1> DEFINE B == {t \in SUBSET S : ~\E h : Adds(f, t, h)}
<1>1. B # {} => FALSE
  <2> SUFFICES ASSUME B # {} PROVE FALSE
    OBVIOUS
  <2>1. \A t \in B : IsFiniteSet(t)
    BY FS_Subset
  <2>2. PICK t \in B : \A u \in B : Cardinality(t) <= Cardinality(u)
    <3> HIDE DEF B
    <3> QED BY <2>1, Smallest
  <2>3. ASSUME NEW u \in SUBSET t, u # t
        PROVE  \E h : Adds(f, u, h)
    <3>1. IsFiniteSet(t) /\ IsFiniteSet(u) /\ Cardinality(u) <= Cardinality(t) /\ Cardinality(u) # Cardinality(t)
      BY <2>1, <2>3, FS_Subset
    <3>2. Cardinality(u) \in Nat /\ Cardinality(t) \in Nat
      BY <3>1, FS_CardinalityType
    <3>3. u \notin B
      BY <2>2, <3>1, <3>2
    <3> QED BY <3>3
  <2> DEFINE sum(u) == CHOOSE h : Adds(f, u, h)
             all == [u \in SUBSET t |-> IF u = {} THEN 0 ELSE f[Pick(u)] + SumOf(f, u \ {Pick(u)})]
  <2>4. ASSUME NEW u \in SUBSET t, u # t
        PROVE  Adds(f, u, sum(u)) /\ SumOf(f, u) = sum(u)[u]
    BY <2>3, <2>4 DEF SumOf
  <2>5. ASSUME NEW u \in SUBSET t, u # t
        PROVE  SumOf(f, u) = all[u]
    <3>1. SumOf(f, u) = IF u = {} THEN 0 ELSE f[Pick(u)] + sum(u)[u \ {Pick(u)}]
      <4>1. Adds(f, u, sum(u)) /\ SumOf(f, u) = sum(u)[u]
        BY <2>4, <2>5
      <4> HIDE DEF sum
      <4> QED BY <4>1, Zenon DEF Adds
    <3>2. ASSUME u # {} PROVE sum(u)[u \ {Pick(u)}] = SumOf(f, u \ {Pick(u)})
      <4> DEFINE w == u \ {Pick(u)}
      <4>1. Pick(u) \in u
        BY <3>2, Picked
      <4>2. w \in SUBSET t /\ w # t /\ w \subseteq u /\ IsFiniteSet(w)
        BY <2>1, <4>1, FS_Subset
      <4>3. Adds(f, w, sum(w)) /\ SumOf(f, w) = sum(w)[w]
        BY <2>4, <4>2, Zenon
      <4>4. Adds(f, u, sum(u))
        BY <2>4, <2>5
      <4> HIDE DEF w, sum
      <4>5. sum(u)[w] = sum(w)[w]
        BY <4>2, <4>3, <4>4, SumsAgree
      <4> QED BY <4>3, <4>5 DEF w
    <3> HIDE DEF sum
    <3> QED BY <3>1, <3>2
  <2>6. Adds(f, t, all)
    <3>1. ASSUME NEW u \in SUBSET t, u # {}
          PROVE  SumOf(f, u \ {Pick(u)}) = all[u \ {Pick(u)}]
      <4>1. u \ {Pick(u)} \in SUBSET t /\ u \ {Pick(u)} # t
        BY <3>1, Picked
      <4> HIDE DEF all
      <4> QED BY <2>5, <4>1
    <3>2. [u \in SUBSET t |-> IF u = {} THEN 0 ELSE f[Pick(u)] + SumOf(f, u \ {Pick(u)})]
            = [u \in SUBSET t |-> IF u = {} THEN 0 ELSE f[Pick(u)] + all[u \ {Pick(u)}]]
      <4> HIDE DEF all
      <4> QED BY <3>1, Zenon
    <3> QED BY <3>2, Zenon DEF Adds, all
  <2> QED BY <2>6, <2>2
<1>2. S \notin B
  BY <1>1
<1> QED BY <1>2

\* What is chosen adds up, and nothing depends on the set it was chosen for.
LEMMA SumUnfolds ==
  ASSUME NEW f, NEW S, IsFiniteSet(S)
  PROVE  SumOf(f, S) = IF S = {} THEN 0 ELSE f[Pick(S)] + SumOf(f, S \ {Pick(S)})
<1> DEFINE sum(u) == CHOOSE h : Adds(f, u, h)
           w == S \ {Pick(S)}
<1>1. IsFiniteSet(w) /\ w \subseteq S
  BY FS_Subset
<1>2. Adds(f, S, sum(S)) /\ Adds(f, w, sum(w))
  BY <1>1, SumsExist
<1>3. SumOf(f, S) = sum(S)[S] /\ SumOf(f, w) = sum(w)[w]
  BY DEF SumOf
<1> HIDE DEF sum, w
<1>4. sum(S)[w] = sum(w)[w]
  BY <1>1, <1>2, SumsAgree
<1>5. sum(S)[S] = IF S = {} THEN 0 ELSE f[Pick(S)] + sum(S)[w]
  BY <1>2, Zenon DEF Adds, w
<1> QED BY <1>3, <1>4, <1>5 DEF w

\* A sum depends only on the values added up.
LEMMA SumOfSame ==
  ASSUME NEW f, NEW g, NEW S, IsFiniteSet(S), \A x \in S : f[x] = g[x]
  PROVE  SumOf(f, S) = SumOf(g, S)
<1>1. Adds(f, S, CHOOSE h : Adds(f, S, h)) /\ Adds(g, S, CHOOSE h : Adds(g, S, h))
  BY SumsExist
<1>2. (CHOOSE h : Adds(f, S, h))[S] = (CHOOSE h : Adds(g, S, h))[S]
  <2> DEFINE a == CHOOSE h : Adds(f, S, h)
             b == CHOOSE h : Adds(g, S, h)
  <2>1. Adds(f, S, a) /\ Adds(g, S, b)
    BY <1>1
  <2> HIDE DEF a, b
  <2>2. a[S] = b[S]
    BY <2>1, SumsAgree
  <2> QED BY <2>2 DEF a, b
<1> QED BY <1>2 DEF SumOf

\* Integers add up to an integer.
LEMMA SumIsInteger ==
  ASSUME NEW f, NEW S, IsFiniteSet(S), \A x \in S : f[x] \in Int
  PROVE  SumOf(f, S) \in Int
<1> DEFINE B == {t \in SUBSET S : SumOf(f, t) \notin Int}
<1>1. B # {} => FALSE
  <2> SUFFICES ASSUME B # {} PROVE FALSE
    OBVIOUS
  <2>1. \A t \in B : IsFiniteSet(t)
    BY FS_Subset
  <2>2. PICK t \in B : \A u \in B : Cardinality(t) <= Cardinality(u)
    <3> HIDE DEF B
    <3> QED BY <2>1, Smallest
  <2>3. SumOf(f, t) = IF t = {} THEN 0 ELSE f[Pick(t)] + SumOf(f, t \ {Pick(t)})
    BY <2>1, SumUnfolds, Zenon
  <2>4. t # {} /\ t \subseteq S /\ SumOf(f, t) \notin Int
    BY <2>3
  <2>5. Pick(t) \in t /\ f[Pick(t)] \in Int
    BY <2>4, Picked
  <2>6. IsFiniteSet(t \ {Pick(t)}) /\ Cardinality(t \ {Pick(t)}) < Cardinality(t)
    BY <2>1, <2>4, <2>5, Without
  <2>7. Cardinality(t) \in Nat /\ Cardinality(t \ {Pick(t)}) \in Nat
    BY <2>1, <2>6, FS_CardinalityType
  <2>8. t \ {Pick(t)} \notin B
    BY <2>2, <2>6, <2>7
  <2>9. SumOf(f, t \ {Pick(t)}) \in Int
    BY <2>4, <2>8
  <2> QED BY <2>3, <2>4, <2>5, <2>9
<1> QED BY <1>1

\* The order of adding does not matter.
LEMMA SumTakesOne ==
  ASSUME NEW f, NEW S, IsFiniteSet(S), \A x \in S : f[x] \in Int, NEW x \in S
  PROVE  SumOf(f, S) = f[x] + SumOf(f, S \ {x})
<1> DEFINE B == {t \in SUBSET S : \E y \in t : SumOf(f, t) # f[y] + SumOf(f, t \ {y})}
<1>1. B # {} => FALSE
  <2> SUFFICES ASSUME B # {} PROVE FALSE
    OBVIOUS
  <2>1. \A t \in B : IsFiniteSet(t)
    BY FS_Subset
  <2>2. PICK t \in B : \A u \in B : Cardinality(t) <= Cardinality(u)
    <3> HIDE DEF B
    <3> QED BY <2>1, Smallest
  <2>3. PICK y \in t : SumOf(f, t) # f[y] + SumOf(f, t \ {y})
    OBVIOUS
  <2> DEFINE p == Pick(t)
  <2>4. p \in t /\ IsFiniteSet(t) /\ t \subseteq S
    BY <2>1, <2>3, Picked
  <2>5. SumOf(f, t) = f[p] + SumOf(f, t \ {p})
    BY <2>3, <2>4, SumUnfolds
  <2>6. p # y
    BY <2>3, <2>5, Zenon
  <2> HIDE DEF p
  <2>7. ASSUME NEW z \in t PROVE t \ {z} \notin B /\ IsFiniteSet(t \ {z})
    <3>1. IsFiniteSet(t \ {z}) /\ Cardinality(t \ {z}) < Cardinality(t)
      BY <2>4, Without, Zenon
    <3>2. Cardinality(t) \in Nat /\ Cardinality(t \ {z}) \in Nat
      BY <2>4, <3>1, FS_CardinalityType
    <3> HIDE DEF B
    <3> QED BY <2>2, <3>1, <3>2
  <2> DEFINE w == (t \ {p}) \ {y}
  <2>8. SumOf(f, t \ {p}) = f[y] + SumOf(f, w)
    BY <2>4, <2>6, <2>7, Zenon
  <2>9. SumOf(f, t \ {y}) = f[p] + SumOf(f, w)
    <3>1. (t \ {y}) \ {p} = w
      OBVIOUS
    <3> QED BY <2>4, <2>6, <2>7, <3>1, Zenon
  <2>10. IsFiniteSet(w) /\ w \subseteq S
    BY <2>4, FS_Subset
  <2> HIDE DEF w, B
  <2>11. SumOf(f, w) \in Int
    BY <2>10, SumIsInteger
  <2>12. f[p] \in Int /\ f[y] \in Int
    BY <2>4
  <2> QED BY <2>3, <2>5, <2>8, <2>9, <2>11, <2>12
<1> QED BY <1>1, Zenon

\* Adding up one value after the other.
LEMMA PrefixSums ==
  ASSUME NEW f, NEW L \in Nat, \A n \in 1 .. L : f[n] \in Int
  PROVE  /\ SumOf(f, 1 .. 0) = 0
         /\ \A k \in 0 .. L : SumOf(f, 1 .. k) \in Int
         /\ \A k \in 1 .. L : SumOf(f, 1 .. k) = f[k] + SumOf(f, 1 .. k - 1)
<1>1. SumOf(f, 1 .. 0) = 0
  <2>1. 1 .. 0 = {} /\ IsFiniteSet({})
    BY FS_EmptySet
  <2>2. SumOf(f, {}) = 0
    BY <2>1, SumUnfolds, Zenon
  <2> QED BY <2>1, <2>2
<1>2. ASSUME NEW k \in 0 .. L PROVE IsFiniteSet(1 .. k) /\ 1 .. k \subseteq 1 .. L /\ SumOf(f, 1 .. k) \in Int
  <2>1. IsFiniteSet(1 .. k) /\ \A n \in 1 .. k : n \in 1 .. L
    <3>1. k \in Int
      OBVIOUS
    <3>2. IsFiniteSet(1 .. k)
      BY <3>1, FS_Interval
    <3> QED BY <3>2
  <2> DEFINE S == 1 .. k
  <2>2. IsFiniteSet(S) /\ \A n \in S : f[n] \in Int
    BY <2>1
  <2> HIDE DEF S
  <2>3. SumOf(f, S) \in Int
    BY <2>2, SumIsInteger
  <2> QED BY <2>1, <2>3 DEF S
<1>3. ASSUME NEW k \in 1 .. L PROVE SumOf(f, 1 .. k) = f[k] + SumOf(f, 1 .. k - 1)
  <2> DEFINE S == 1 .. k
  <2>1. k \in S /\ S \ {k} = 1 .. k - 1 /\ k \in 0 .. L
    OBVIOUS
  <2>2. IsFiniteSet(S) /\ \A n \in S : f[n] \in Int
    BY <1>2, <2>1
  <2> HIDE DEF S
  <2>3. SumOf(f, S) = f[k] + SumOf(f, S \ {k})
    BY <2>1, <2>2, SumTakesOne
  <2> QED BY <2>1, <2>3, Zenon DEF S
<1> QED BY <1>1, <1>2, <1>3

\* What holds of no summands, and of one more when it holds of some, holds of all.
LEMMA UpTheNumbers ==
  ASSUME NEW L \in Nat, NEW H, 0 \in H, \A k \in 1 .. L : k - 1 \in H => k \in H
  PROVE  L \in H
<1> DEFINE B == (0 .. L) \ H
<1>1. ASSUME B # {} PROVE FALSE
  <2>1. B \subseteq Nat
    OBVIOUS
  <2>2. PICK k \in B : \A q \in B : k <= q
    <3> HIDE DEF B
    <3> QED BY <1>1, <2>1, LeastNumber, Zenon
  <2>3. k \in 1 .. L /\ k \notin H /\ k - 1 \in 0 .. L /\ ~(k <= k - 1)
    <3>1. k \in 0 .. L /\ k \notin H
      OBVIOUS
    <3> QED BY <3>1
  <2>4. k - 1 \in H
    BY <2>2, <2>3
  <2> QED BY <2>3, <2>4
<1> QED BY <1>1

\* Without the first.
LEMMA SumOfTail ==
  ASSUME NEW f, NEW g, NEW L \in Nat \ {0},
         \A n \in 1 .. L : f[n] \in Int, \A n \in 1 .. L - 1 : g[n] = f[n + 1]
  PROVE  SumOf(f, 1 .. L) = f[1] + SumOf(g, 1 .. L - 1)
<1> DEFINE K == L - 1
           H == {k \in 0 .. K : SumOf(f, 1 .. k + 1) = f[1] + SumOf(g, 1 .. k)}
<1>1. K \in Nat /\ K + 1 = L /\ \A n \in 1 .. K : g[n] \in Int /\ g[n] = f[n + 1]
  OBVIOUS
<1>2. /\ SumOf(f, 1 .. 0) = 0
      /\ \A k \in 0 .. L : SumOf(f, 1 .. k) \in Int
      /\ \A k \in 1 .. L : SumOf(f, 1 .. k) = f[k] + SumOf(f, 1 .. k - 1)
  BY PrefixSums, Zenon
<1>3. /\ SumOf(g, 1 .. 0) = 0
      /\ \A k \in 0 .. K : SumOf(g, 1 .. k) \in Int
      /\ \A k \in 1 .. K : SumOf(g, 1 .. k) = g[k] + SumOf(g, 1 .. k - 1)
  <2> HIDE DEF K
  <2> QED BY <1>1, PrefixSums, Zenon
<1>4. 0 \in H
  <2>1. SumOf(f, 1 .. 1) = f[1] + SumOf(f, 1 .. 0)
    <3>1. 1 \in 1 .. L /\ 1 - 1 = 0
      OBVIOUS
    <3> QED BY <1>2, <3>1, Zenon
  <2>2. 0 \in 0 .. K /\ 0 + 1 = 1
    BY <1>1
  <2> QED BY <1>2, <1>3, <2>1, <2>2
<1>5. ASSUME NEW k \in 1 .. K, k - 1 \in H PROVE k \in H
  <2>1. /\ k \in Int /\ k \in 0 .. K /\ k + 1 \in 1 .. L /\ (k + 1) - 1 = k /\ (k - 1) + 1 = k
        /\ k \in 0 .. L /\ k - 1 \in 0 .. K /\ 1 \in 1 .. L
    BY <1>1
  <2> HIDE DEF K
  <2>2. SumOf(f, 1 .. k) = f[1] + SumOf(g, 1 .. k - 1)
    BY <1>5, <2>1
  <2>3. SumOf(f, 1 .. k + 1) = f[k + 1] + SumOf(f, 1 .. k)
    BY <1>2, <2>1
  <2>4. SumOf(g, 1 .. k) = f[k + 1] + SumOf(g, 1 .. k - 1)
    BY <1>1, <1>3
  <2>5. f[1] \in Int /\ f[k + 1] \in Int /\ SumOf(g, 1 .. k - 1) \in Int
    BY <1>3, <2>1
  <2>6. SumOf(f, 1 .. k + 1) = f[1] + SumOf(g, 1 .. k)
    BY <2>2, <2>3, <2>4, <2>5
  <2> QED BY <2>1, <2>6
<1>6. K \in H
  <2> HIDE DEF K, H
  <2> QED BY <1>1, <1>4, <1>5, UpTheNumbers
<1> QED BY <1>1, <1>6

\* Values no greater than a bound add up to no more than as many bounds.
LEMMA SumIsBounded ==
  ASSUME NEW f, NEW L \in Nat, NEW b \in Nat, \A n \in 1 .. L : f[n] \in -b .. b
  PROVE  SumOf(f, 1 .. L) \in Int /\ -(L * b) <= SumOf(f, 1 .. L) /\ SumOf(f, 1 .. L) <= L * b
<1> DEFINE H == {k \in 0 .. L : -(k * b) <= SumOf(f, 1 .. k) /\ SumOf(f, 1 .. k) <= k * b}
<1>1. \A n \in 1 .. L : f[n] \in Int /\ -b <= f[n] /\ f[n] <= b
  OBVIOUS
<1>2. /\ SumOf(f, 1 .. 0) = 0
      /\ \A k \in 0 .. L : SumOf(f, 1 .. k) \in Int
      /\ \A k \in 1 .. L : SumOf(f, 1 .. k) = f[k] + SumOf(f, 1 .. k - 1)
  BY <1>1, PrefixSums, Zenon
<1>3. 0 \in H
  BY <1>2
<1>4. ASSUME NEW k \in 1 .. L, k - 1 \in H PROVE k \in H
  <2>1. k \in Int /\ k - 1 \in 0 .. L /\ k \in 0 .. L /\ b \in Int
    OBVIOUS
  <2>2. (k - 1) * b = k * b - b
    BY <2>1
  <2>3. k * b \in Int /\ (k - 1) * b \in Int
    BY <2>1
  <2>4. -((k - 1) * b) <= SumOf(f, 1 .. k - 1) /\ SumOf(f, 1 .. k - 1) <= (k - 1) * b
    BY <1>4
  <2>5. SumOf(f, 1 .. k) = f[k] + SumOf(f, 1 .. k - 1) /\ SumOf(f, 1 .. k - 1) \in Int
    BY <1>2, <2>1
  <2>6. f[k] \in Int /\ -b <= f[k] /\ f[k] <= b
    BY <1>1
  <2> DEFINE before == SumOf(f, 1 .. k - 1)
             bound == k * b
             less == (k - 1) * b
  <2>7. less = bound - b /\ less \in Int /\ bound \in Int /\ -less <= before /\ before <= less /\ before \in Int
        /\ SumOf(f, 1 .. k) = f[k] + before
    BY <2>2, <2>3, <2>4, <2>5
  <2> HIDE DEF before, bound, less, H
  <2>8. -bound <= f[k] + before /\ f[k] + before <= bound
    BY <2>1, <2>6, <2>7
  <2> QED BY <2>1, <2>7, <2>8 DEF bound, H
<1>5. L \in H
  <2> HIDE DEF H
  <2> QED BY <1>3, <1>4, UpTheNumbers
<1> QED BY <1>2, <1>5

-----------------------------------------------------------------------------
(* IntRange, which is NarrowRanges and IntRanges in Values: over a type    *)
(* narrower than int, or as wide, and over int itself.                     *)

Half == 2 ^ (BitsOfT - 1)
ValuesOfT == -Half .. Half - 1

\* T has twice as many values as are not negative.
LEMMA HalfIsWhole == Half \in Nat \ {0} /\ 2 ^ BitsOfT = 2 * Half
BY ValuesAssumption DEF NarrowRanges!RangeAssumption, Half

\* The type and int have the bounds of their widths.
LEMMA RangeTypes ==
  /\ NarrowRanges!ValuesOf(NarrowRanges!T) = ValuesOfT /\ IntRanges!ValuesOf(IntRanges!T) = ValuesOfT
  /\ NarrowRanges!lowest(NarrowRanges!T) = -Half /\ IntRanges!lowest(IntRanges!T) = -Half
  /\ NarrowRanges!max(NarrowRanges!T) = Half - 1 /\ IntRanges!max(IntRanges!T) = Half - 1
  /\ IntRanges!ValuesOf(IntRanges!IntType) = ValuesOfT
  /\ \/ NarrowRanges!ValuesOf(NarrowRanges!IntType) = ValuesOfT
     \/ \E all \in Nat : all >= 2 * Half /\ NarrowRanges!ValuesOf(NarrowRanges!IntType) = -all .. all - 1
<1>1. NarrowRanges!T.signed /\ IntRanges!T.signed /\ NarrowRanges!T.bits = BitsOfT /\ IntRanges!T.bits = BitsOfT
  BY DEF NarrowRanges!T, IntRanges!T
<1>2. /\ NarrowRanges!IntType.signed /\ IntRanges!IntType.signed
      /\ NarrowRanges!IntType.bits = BitsOfInt /\ IntRanges!IntType.bits = BitsOfT
  BY DEF NarrowRanges!IntType, IntRanges!IntType
<1>3. /\ NarrowRanges!lowest(NarrowRanges!T) = -Half /\ IntRanges!lowest(IntRanges!T) = -Half
      /\ NarrowRanges!max(NarrowRanges!T) = Half - 1 /\ IntRanges!max(IntRanges!T) = Half - 1
      /\ IntRanges!lowest(IntRanges!IntType) = -Half /\ IntRanges!max(IntRanges!IntType) = Half - 1
  BY <1>1, <1>2, Zenon
     DEF NarrowRanges!lowest, NarrowRanges!max, IntRanges!lowest, IntRanges!max, Half
<1> DEFINE all == 2 ^ (BitsOfInt - 1)
<1>4. NarrowRanges!lowest(NarrowRanges!IntType) = -all /\ NarrowRanges!max(NarrowRanges!IntType) = all - 1
  BY <1>2, Zenon DEF NarrowRanges!lowest, NarrowRanges!max
<1>5. all \in Nat /\ (all = Half \/ all >= 2 * Half)
  <2>1. CASE BitsOfInt = BitsOfT
    BY <2>1, HalfIsWhole DEF Half
  <2>2. CASE BitsOfT < BitsOfInt
    <3>1. all \in Nat /\ 2 ^ BitsOfT <= all
      BY <2>2, ValuesAssumption DEF NarrowRanges!RangeAssumption
    <3> HIDE DEF all
    <3> QED BY <3>1, HalfIsWhole
  <2>3. BitsOfT \in Nat /\ BitsOfInt \in Nat /\ BitsOfT <= BitsOfInt
    BY ValuesAssumption DEF NarrowRanges!RangeAssumption
  <2> QED BY <2>1, <2>2, <2>3
<1> HIDE DEF all
<1>6. NarrowRanges!ValuesOf(NarrowRanges!IntType) = -all .. all - 1
  BY <1>4 DEF NarrowRanges!ValuesOf
<1>7. /\ NarrowRanges!ValuesOf(NarrowRanges!T) = ValuesOfT /\ IntRanges!ValuesOf(IntRanges!T) = ValuesOfT
      /\ IntRanges!ValuesOf(IntRanges!IntType) = ValuesOfT
  BY <1>3 DEF NarrowRanges!ValuesOf, IntRanges!ValuesOf, ValuesOfT
<1>8. all = Half => NarrowRanges!ValuesOf(NarrowRanges!IntType) = ValuesOfT
  BY <1>6 DEF ValuesOfT
<1> QED BY <1>3, <1>5, <1>6, <1>7, <1>8

\* What a conversion to the type makes of values less than a full turn outside.
LEMMA ConvertedToT ==
  ASSUME NEW v \in ValuesOfT, NEW turns \in {-1, 0, 1}
  PROVE  /\ NarrowRanges!Converted(NarrowRanges!T, v + turns * 2 * Half) = v
         /\ IntRanges!Converted(IntRanges!T, v + turns * 2 * Half) = v
<1> DEFINE M == 2 * Half
<1>1. v \in Int /\ v >= -Half /\ v < Half /\ Half \in Nat \ {0} /\ M \in Nat \ {0} /\ 2 ^ BitsOfT = M
  BY HalfIsWhole DEF ValuesOfT
<1> DEFINE x == v + Half
<1>2. x \in 0 .. M - 1
  BY <1>1
<1>3. v + turns * 2 * Half - (-Half) = x + turns * M
  BY <1>1
<1> DEFINE u == v + turns * 2 * Half
<1>4. /\ NarrowRanges!Converted(NarrowRanges!T, u) = ((x + turns * M) % M) + (-Half)
      /\ IntRanges!Converted(IntRanges!T, u) = ((x + turns * M) % M) + (-Half)
  <2>1. NarrowRanges!T.bits = BitsOfT /\ IntRanges!T.bits = BitsOfT
    BY DEF NarrowRanges!T, IntRanges!T
  <2>2. u - (-Half) = x + turns * M
    BY <1>1, <1>3
  <2> HIDE DEF u, x, M
  <2>3. /\ NarrowRanges!Converted(NarrowRanges!T, u) = ((u - (-Half)) % (2 ^ BitsOfT)) + (-Half)
        /\ IntRanges!Converted(IntRanges!T, u) = ((u - (-Half)) % (2 ^ BitsOfT)) + (-Half)
    BY <2>1, RangeTypes, Zenon DEF NarrowRanges!Converted, IntRanges!Converted
  <2> QED BY <1>1, <2>2, <2>3, Zenon
<1> HIDE DEF x, M
<1>5. (x + turns * M) % M = x
  <2>1. CASE turns = 0
    BY <2>1, <1>1, <1>2
  <2>2. CASE turns = 1
    BY <2>2, <1>1, <1>2
  <2>3. CASE turns = -1
    BY <2>3, <1>1, <1>2
  <2> QED BY <2>1, <2>2, <2>3
<1>6. x + (-Half) = v
  BY <1>1 DEF x
<1> QED BY <1>4, <1>5, <1>6 DEF u

\* What T has is computed exactly.
LEMMA ExactInT ==
  ASSUME NEW v \in ValuesOfT
  PROVE  NarrowRanges!Arithmetic(v) = {v} /\ IntRanges!Arithmetic(v) = {v}
<1>1. v + 0 * 2 * Half = v /\ v \in Int
  BY HalfIsWhole DEF ValuesOfT
<1>2. NarrowRanges!Converted(NarrowRanges!T, v) = v /\ IntRanges!Converted(IntRanges!T, v) = v
  BY <1>1, ConvertedToT
<1>3. v \in NarrowRanges!ValuesOf(NarrowRanges!IntType) /\ v \in IntRanges!ValuesOf(IntRanges!IntType)
  BY RangeTypes, HalfIsWhole DEF ValuesOfT
<1> QED BY <1>2, <1>3 DEF NarrowRanges!Arithmetic, IntRanges!Arithmetic

\* What contains both, and no more than T has apart, is split where it is asked to be.
LEMMA SplitsWhereAsked ==
  ASSUME NEW range, range.begin \in ValuesOfT, range.end \in ValuesOfT,
         NEW left \in Nat, left <= range.end - range.begin
  PROVE  /\ left \in NarrowRanges!ValuesOf(NarrowRanges!IntType) =>
              NarrowRanges!SplitPoints(range, left) = {range.begin + left}
         /\ left \in IntRanges!ValuesOf(IntRanges!IntType) => IntRanges!SplitPoints(range, left) = {range.begin + left}
<1> DEFINE b == range.begin
           e == range.end
<1>1. /\ Half \in Nat \ {0} /\ b \in Int /\ e \in Int /\ -Half <= b /\ b + left <= e /\ e < Half
      /\ b + left \in ValuesOfT
  BY HalfIsWhole DEF ValuesOfT
<1> HIDE DEF b, e
<1>2. CASE left \in ValuesOfT
  <2>1. left + 0 * 2 * Half = left
    BY <1>1
  <2>2. NarrowRanges!Converted(NarrowRanges!T, left) = left /\ IntRanges!Converted(IntRanges!T, left) = left
    BY <1>2, <2>1, ConvertedToT
  <2> QED BY <1>1, <2>2, ExactInT DEF NarrowRanges!SplitPoints, IntRanges!SplitPoints, b
<1>3. CASE left \notin ValuesOfT
  <2> DEFINE v == left - 2 * Half
             int == NarrowRanges!ValuesOf(NarrowRanges!IntType)
  <2>1. v \in ValuesOfT /\ v + 1 * 2 * Half = left
    BY <1>1, <1>3 DEF ValuesOfT
  <2>2. NarrowRanges!Converted(NarrowRanges!T, left) = v
    BY <2>1, ConvertedToT
  <2>3. left \notin IntRanges!ValuesOf(IntRanges!IntType)
    BY <1>3, RangeTypes
  <2>4. ASSUME left \in int
        PROVE  b + v \in int
    <3>1. PICK all \in Nat : all >= 2 * Half /\ int = -all .. all - 1
      BY <1>3, <2>4, RangeTypes
    <3> QED BY <1>1, <2>1, <3>1 DEF ValuesOfT
  <2>5. NarrowRanges!Converted(NarrowRanges!T, b + v) = b + left
    <3>1. b + v = b + left + -1 * 2 * Half
      BY <1>1
    <3> QED BY <1>1, <3>1, ConvertedToT
  <2>6. left \in int => NarrowRanges!Arithmetic(b + v) = {b + left}
    BY <2>4, <2>5 DEF NarrowRanges!Arithmetic
  <2> QED BY <2>2, <2>3, <2>6 DEF NarrowRanges!SplitPoints, b
<1> QED BY <1>2, <1>3

RangesOfT == {range \in [begin : ValuesOfT, end : ValuesOfT] : range.begin <= range.end}

OfRanges == component \in {"IntRange", "IntRange of int"}

\* The pieces begin where the whole does, go on where the one before ends, and end
\* where the whole does; so they are in order and leave nothing out.
RangesInv ==
  /\ whole \in RangesOfT
  /\ pieces \in Seq(RangesOfT) /\ Len(pieces) > 0
  /\ pieces[1].begin = whole.begin /\ pieces[Len(pieces)].end = whole.end
  /\ \A n \in 1 .. Len(pieces) - 1 : pieces[n].end = pieces[n + 1].begin
  /\ \A k, n \in 1 .. Len(pieces) : k < n => pieces[k].end <= pieces[n].begin
  /\ \A v \in Int : whole.begin <= v /\ v < whole.end =>
       \E n \in 1 .. Len(pieces) : pieces[n].begin <= v /\ v < pieces[n].end

\* Piece n is split between its first left values and the rest.
SplitAt(n, left) ==
  /\ n \in 1 .. Len(pieces) /\ left \in Nat /\ left <= pieces[n].end - pieces[n].begin
  /\ pieces' = SubSeq(pieces, 1, n - 1)
                 \o <<[begin |-> pieces[n].begin, end |-> pieces[n].begin + left],
                      [begin |-> pieces[n].begin + left, end |-> pieces[n].end]>>
                 \o SubSeq(pieces, n + 1, Len(pieces))
  /\ whole' = whole

\* A step of the ranges splits one of them and changes nothing else.
LEMMA RangesStep ==
  ASSUME RangesInv, [Next]_vars
  PROVE  \/ OfRanges /\ component' = component /\ \E n \in 1 .. Len(pieces), left \in Nat : SplitAt(n, left)
         \/ UNCHANGED <<component, whole, pieces>>
<1>1. \/ component = "IntRange" /\ component' = component /\ NarrowRanges!Next
      \/ component = "IntRange of int" /\ component' = component /\ IntRanges!Next
      \/ UNCHANGED <<component, whole, pieces>>
  BY DEF Next, SortStep, NumbersStep, GeometryStep, vars, numbers, ranges
<1>2. ASSUME NEW n \in DOMAIN pieces, NEW left \in 0 .. 2 ^ BitsOfT,
             NarrowRanges!Split(n, left) \/ IntRanges!Split(n, left)
      PROVE  n \in 1 .. Len(pieces) /\ left \in Nat /\ SplitAt(n, left)
  <2>1. n \in 1 .. Len(pieces) /\ left \in Nat /\ pieces[n] \in RangesOfT
    BY HalfIsWhole DEF RangesInv
  <2>2. pieces[n].begin \in ValuesOfT /\ pieces[n].end \in ValuesOfT
    BY <2>1 DEF RangesOfT
  <2>3. CASE NarrowRanges!Split(n, left)
    <3>1. NarrowRanges!SplitPoints(pieces[n], left) = {pieces[n].begin + left}
      BY <2>1, <2>2, <2>3, SplitsWhereAsked, Zenon DEF NarrowRanges!Split
    <3> QED BY <2>1, <2>3, <3>1, Zenon DEF NarrowRanges!Split, NarrowRanges!RangeOf, SplitAt
  <2>4. CASE IntRanges!Split(n, left)
    <3>1. IntRanges!SplitPoints(pieces[n], left) = {pieces[n].begin + left}
      BY <2>1, <2>2, <2>4, SplitsWhereAsked, Zenon DEF IntRanges!Split
    <3> QED BY <2>1, <2>4, <3>1, Zenon DEF IntRanges!Split, IntRanges!RangeOf, SplitAt
  <2> QED BY <1>2, <2>1, <2>3, <2>4
<1> QED BY <1>1, <1>2 DEF NarrowRanges!Next, IntRanges!Next, OfRanges

\* The elements of mid in the place of element n.
Replaced(seq, n, mid) == SubSeq(seq, 1, n - 1) \o mid \o SubSeq(seq, n + 1, Len(seq))

\* What is where after an element is replaced by two.
LEMMA SplitSequence ==
  ASSUME NEW S, NEW seq \in Seq(S), NEW n \in 1 .. Len(seq), NEW mid \in Seq(S), Len(mid) = 2
  PROVE  /\ Replaced(seq, n, mid) \in Seq(S) /\ Len(Replaced(seq, n, mid)) = Len(seq) + 1
         /\ \A k \in 1 .. Len(seq) + 1 : Replaced(seq, n, mid)[k] =
              IF k < n THEN seq[k] ELSE IF k <= n + 1 THEN mid[k - n + 1] ELSE seq[k - 1]
<1> DEFINE left == SubSeq(seq, 1, n - 1)
           right == SubSeq(seq, n + 1, Len(seq))
           both == left \o mid
           new == both \o right
<1>1. Len(seq) \in Nat /\ n \in Nat /\ 1 <= n /\ n <= Len(seq)
  OBVIOUS
<1>2. left \in Seq(S) /\ Len(left) = n - 1 /\ right \in Seq(S) /\ Len(right) = Len(seq) - n
  OBVIOUS
<1>3. /\ \A k \in 1 .. n - 1 : left[k] = seq[k]
      /\ \A k \in 1 .. Len(seq) - n : right[k] = seq[n + k]
  OBVIOUS
<1> HIDE DEF left, right
<1>4. both \in Seq(S) /\ Len(both) = Len(left) + Len(mid)
  BY <1>2, ConcatProperties, Zenon
<1>5. \A k \in 1 .. Len(left) + Len(mid) : both[k] = IF k <= Len(left) THEN left[k] ELSE mid[k - Len(left)]
  BY <1>2, ConcatProperties, Zenon
<1> HIDE DEF both
<1>6. new \in Seq(S) /\ Len(new) = Len(both) + Len(right)
  BY <1>2, <1>4, ConcatProperties, Zenon
<1>7. \A k \in 1 .. Len(both) + Len(right) : new[k] = IF k <= Len(both) THEN both[k] ELSE right[k - Len(both)]
  <2>1. both \in Seq(S) /\ right \in Seq(S)
    BY <1>2, <1>4
  <2> HIDE DEF right
  <2> QED BY <2>1, ConcatProperties, Zenon
<1> HIDE DEF new
<1>8. Len(both) = n + 1 /\ Len(new) = Len(seq) + 1
  BY <1>1, <1>2, <1>4, <1>6
<1>9. ASSUME NEW k \in 1 .. Len(seq) + 1
      PROVE  new[k] = IF k < n THEN seq[k] ELSE IF k <= n + 1 THEN mid[k - n + 1] ELSE seq[k - 1]
  <2>1. CASE k < n
    <3>1. /\ k \in 1 .. Len(both) + Len(right) /\ k <= Len(both) /\ k \in 1 .. Len(left) + Len(mid)
          /\ k <= Len(left) /\ k \in 1 .. n - 1
      BY <1>1, <1>2, <1>8, <2>1
    <3>2. new[k] = both[k] /\ both[k] = left[k] /\ left[k] = seq[k]
      BY <1>3, <1>5, <1>7, <3>1, Zenon
    <3> QED BY <2>1, <3>2
  <2>2. CASE k \in {n, n + 1}
    <3>1. /\ k \in 1 .. Len(both) + Len(right) /\ k <= Len(both) /\ k \in 1 .. Len(left) + Len(mid)
          /\ ~(k <= Len(left)) /\ k - Len(left) = k - n + 1 /\ ~(k < n) /\ k <= n + 1
      BY <1>1, <1>2, <1>8, <2>2
    <3>2. new[k] = both[k] /\ both[k] = mid[k - Len(left)]
      BY <1>5, <1>7, <3>1
    <3> QED BY <3>1, <3>2, Zenon
  <2>3. CASE k > n + 1
    <3>1. /\ k \in 1 .. Len(both) + Len(right) /\ ~(k <= Len(both)) /\ k - Len(both) = k - n - 1
          /\ k - n - 1 \in 1 .. Len(seq) - n /\ n + (k - n - 1) = k - 1
      BY <1>1, <1>2, <1>8, <2>3
    <3>2. new[k] = right[k - n - 1]
      BY <1>7, <3>1
    <3>3. right[k - n - 1] = seq[k - 1]
      BY <1>3, <3>1, Zenon
    <3> QED BY <1>1, <2>3, <3>2, <3>3
  <2> QED BY <1>1, <2>1, <2>2, <2>3
<1>10. Replaced(seq, n, mid) = new
  BY DEF Replaced, new, both, left, right
<1> QED BY <1>6, <1>8, <1>9, <1>10

\* A split keeps the pieces in order, without gaps, from end to end.
LEMMA SplitKeeps ==
  ASSUME RangesInv, NEW n \in 1 .. Len(pieces), NEW left \in Nat, SplitAt(n, left)
  PROVE  RangesInv'
<1> DEFINE p == pieces[n]
           l == [begin |-> p.begin, end |-> p.begin + left]
           r == [begin |-> p.begin + left, end |-> p.end]
           old(k) == IF k <= n THEN k ELSE k - 1
<1>1. /\ p \in RangesOfT /\ p.begin \in ValuesOfT /\ p.end \in ValuesOfT /\ p.begin <= p.end
      /\ left <= p.end - p.begin /\ whole' = whole /\ pieces \in Seq(RangesOfT)
  BY DEF RangesInv, RangesOfT, SplitAt
<1>2. p.begin \in Int /\ p.end \in Int /\ p.begin + left \in ValuesOfT /\ p.begin + left <= p.end /\ p.begin <= p.begin + left
  BY <1>1, HalfIsWhole DEF ValuesOfT
<1>3. l \in RangesOfT /\ r \in RangesOfT
  BY <1>1, <1>2 DEF RangesOfT
<1>4. /\ pieces' \in Seq(RangesOfT) /\ Len(pieces') = Len(pieces) + 1
      /\ \A k \in 1 .. Len(pieces) + 1 :
           pieces'[k] = IF k < n THEN pieces[k] ELSE IF k = n THEN l ELSE IF k = n + 1 THEN r ELSE pieces[k - 1]
  <2>1. pieces' = SubSeq(pieces, 1, n - 1) \o <<l, r>> \o SubSeq(pieces, n + 1, Len(pieces))
    BY DEF SplitAt
  <2> DEFINE mid == <<l, r>>
  <2>2. mid \in Seq(RangesOfT) /\ Len(mid) = 2 /\ mid[1] = l /\ mid[2] = r
    BY <1>3
  <2> HIDE DEF l, r, p
  <2>3. pieces' = Replaced(pieces, n, mid)
    BY <2>1 DEF Replaced
  <2> HIDE DEF mid
  <2>4. /\ pieces' \in Seq(RangesOfT) /\ Len(pieces') = Len(pieces) + 1
        /\ \A k \in 1 .. Len(pieces) + 1 :
             pieces'[k] = IF k < n THEN pieces[k] ELSE IF k <= n + 1 THEN mid[k - n + 1] ELSE pieces[k - 1]
    BY <1>1, <2>2, <2>3, SplitSequence
  <2>5. ASSUME NEW k \in 1 .. Len(pieces) + 1
        PROVE  pieces'[k] = IF k < n THEN pieces[k] ELSE IF k = n THEN l ELSE IF k = n + 1 THEN r ELSE pieces[k - 1]
    <3>1. n \in Nat /\ (k = n => k - n + 1 = 1) /\ (k = n + 1 => k - n + 1 = 2)
      OBVIOUS
    <3>2. k <= n + 1 <=> k < n \/ k = n \/ k = n + 1
      BY <3>1
    <3> QED BY <2>2, <2>4, <3>1, <3>2
  <2> QED BY <2>4, <2>5
<1>5. /\ Len(pieces) \in Nat /\ n \in Nat /\ 1 <= n /\ n <= Len(pieces)
      /\ l.begin = p.begin /\ l.end = p.begin + left /\ r.begin = p.begin + left /\ r.end = p.end
  OBVIOUS
<1> HIDE DEF p, l, r
<1>6. \A k \in 1 .. Len(pieces) : pieces[k].begin \in Int /\ pieces[k].end \in Int /\ pieces[k].begin <= pieces[k].end
  <2>1. \A range \in RangesOfT : range.begin \in Int /\ range.end \in Int /\ range.begin <= range.end
    BY HalfIsWhole DEF RangesOfT, ValuesOfT
  <2> QED BY <1>1, <2>1
\* Where the new pieces begin and end.
<1>7. \A k \in 1 .. Len(pieces) + 1 :
        /\ old(k) \in 1 .. Len(pieces)
        /\ pieces'[k].begin = IF k = n + 1 THEN p.begin + left ELSE pieces[old(k)].begin
        /\ pieces'[k].end = IF k = n THEN p.begin + left ELSE pieces[old(k)].end
  <2> SUFFICES ASSUME NEW k \in 1 .. Len(pieces) + 1
               PROVE  /\ old(k) \in 1 .. Len(pieces)
                      /\ pieces'[k].begin = IF k = n + 1 THEN p.begin + left ELSE pieces[old(k)].begin
                      /\ pieces'[k].end = IF k = n THEN p.begin + left ELSE pieces[old(k)].end
    OBVIOUS
  <2>1. CASE k < n
    BY <1>4, <1>5, <2>1
  <2>2. CASE k = n
    BY <1>4, <1>5, <2>2 DEF p
  <2>3. CASE k = n + 1
    <3>1. old(k) = n /\ ~(k < n) /\ k # n
      BY <1>5, <2>3
    <3>2. pieces'[k] = r
      BY <1>4, <2>3, <3>1
    <3> HIDE DEF old
    <3> QED BY <1>5, <2>3, <3>1, <3>2 DEF p
  <2>4. CASE k > n + 1
    BY <1>4, <1>5, <2>4
  <2> QED BY <1>5, <2>1, <2>2, <2>3, <2>4
<1>8. \A k, q \in 1 .. Len(pieces) : k < q => pieces[k].end <= pieces[q].begin
  BY DEF RangesInv
<1>9. pieces'[1].begin = whole.begin /\ pieces'[Len(pieces')].end = whole.end
  <2>1. pieces[1].begin = whole.begin /\ pieces[Len(pieces)].end = whole.end
    BY DEF RangesInv
  <2>2. old(1) = 1 /\ old(Len(pieces) + 1) = Len(pieces) /\ 1 # n + 1 /\ Len(pieces) + 1 # n
    BY <1>5
  <2>3. 1 \in 1 .. Len(pieces) + 1 /\ Len(pieces) + 1 \in 1 .. Len(pieces) + 1
    BY <1>5
  <2> HIDE DEF old
  <2> QED BY <1>4, <1>7, <2>1, <2>2, <2>3
<1>10. ASSUME NEW k \in 1 .. Len(pieces) PROVE pieces'[k].end = pieces'[k + 1].begin
  <2>1. \A q \in 1 .. Len(pieces) - 1 : pieces[q].end = pieces[q + 1].begin
    BY DEF RangesInv
  <2>2. k \in 1 .. Len(pieces) + 1 /\ k + 1 \in 1 .. Len(pieces) + 1
    BY <1>5
  <2>3. CASE k = n
    BY <1>5, <1>7, <2>2, <2>3
  <2>4. CASE k < n
    <3>1. old(k) = k /\ old(k + 1) = k + 1 /\ k # n /\ k + 1 # n + 1 /\ k \in 1 .. Len(pieces) - 1
      BY <1>5, <2>4
    <3> HIDE DEF old
    <3> QED BY <1>7, <2>1, <2>2, <3>1
  <2>5. CASE k > n
    <3>1. old(k) = k - 1 /\ old(k + 1) = k /\ k # n /\ k + 1 # n + 1 /\ k - 1 \in 1 .. Len(pieces) - 1 /\ (k - 1) + 1 = k
      BY <1>5, <2>5
    <3> HIDE DEF old
    <3>2. pieces[k - 1].end = pieces[k].begin
      BY <2>1, <3>1
    <3> QED BY <1>7, <2>2, <3>1, <3>2, Zenon
  <2> QED BY <1>5, <2>3, <2>4, <2>5
<1>11. ASSUME NEW k \in 1 .. Len(pieces) + 1, NEW q \in 1 .. Len(pieces) + 1, k < q
       PROVE  pieces'[k].end <= pieces'[q].begin
  <2>1. old(k) <= old(q) /\ (old(k) = old(q) => k = n /\ q = n + 1)
    BY <1>5, <1>11
  <2>2. old(k) \in 1 .. Len(pieces) /\ old(q) \in 1 .. Len(pieces)
    BY <1>7
  <2>3. (k = n => old(k) = n) /\ (q = n + 1 => old(q) = n)
    BY <1>5
  <2> DEFINE o == old(k)
             w == old(q)
  <2>4. /\ pieces'[q].begin = IF q = n + 1 THEN p.begin + left ELSE pieces[w].begin
        /\ pieces'[k].end = IF k = n THEN p.begin + left ELSE pieces[o].end
    BY <1>7
  <2>5. /\ o \in 1 .. Len(pieces) /\ w \in 1 .. Len(pieces) /\ o <= w /\ (o = w => k = n /\ q = n + 1)
        /\ (k = n => o = n) /\ (q = n + 1 => w = n)
    BY <2>1, <2>2, <2>3
  <2> HIDE DEF old, o, w
  <2>6. /\ pieces[o].begin \in Int /\ pieces[o].end \in Int /\ pieces[w].begin \in Int /\ pieces[o].begin <= pieces[o].end
        /\ (o < w => pieces[o].end <= pieces[w].begin)
    BY <1>6, <1>8, <2>5, Zenon
  <2>7. p = pieces[n]
    BY DEF p
  <2>8. /\ p.begin \in Int /\ p.begin + left <= p.end /\ p.end \in Int /\ p.begin <= p.begin + left
        /\ (k = n => pieces[o] = p) /\ (q = n + 1 => pieces[w] = p)
    BY <1>2, <2>5, <2>7
  <2>9. o < w \/ o = w
    BY <2>5
  <2>10. CASE o = w
    BY <2>4, <2>5, <2>8, <2>10
  <2>11. CASE o < w
    <3>1. pieces'[k].end <= pieces[o].end /\ pieces'[k].end \in Int
      BY <1>2, <2>4, <2>6, <2>8
    <3>2. pieces[w].begin <= pieces'[q].begin /\ pieces'[q].begin \in Int
      BY <1>2, <2>4, <2>6, <2>8
    <3> QED BY <2>6, <2>11, <3>1, <3>2
  <2> QED BY <2>9, <2>10, <2>11
<1>12. ASSUME NEW v \in Int, whole.begin <= v, v < whole.end
       PROVE  \E k \in 1 .. Len(pieces) + 1 : pieces'[k].begin <= v /\ v < pieces'[k].end
  <2>1. PICK q \in 1 .. Len(pieces) : pieces[q].begin <= v /\ v < pieces[q].end
    BY <1>12 DEF RangesInv
  <2> DEFINE k == IF q < n \/ (q = n /\ v < p.begin + left) THEN q ELSE q + 1
  <2>2. k \in 1 .. Len(pieces) + 1 /\ old(k) = q
    BY <1>5
  <2>3. (k = n + 1 => q = n /\ p.begin + left <= v) /\ (k = n => v < p.begin + left)
    BY <1>2, <1>5
  <2> HIDE DEF k, old
  <2>4. pieces'[k].begin <= v
    BY <1>7, <2>1, <2>2, <2>3
  <2>5. v < pieces'[k].end
    BY <1>7, <2>1, <2>2, <2>3
  <2> QED BY <2>2, <2>4, <2>5
<1>13. whole' \in RangesOfT /\ whole' = whole /\ Len(pieces') > 0 /\ Len(pieces') - 1 = Len(pieces)
  BY <1>1, <1>4, <1>5 DEF RangesInv
<1> HIDE DEF old
<1> QED BY <1>4, <1>9, <1>10, <1>11, <1>12, <1>13 DEF RangesInv

\* The pieces stay in order and without gaps.
LEMMA RangesInvHolds == Spec => []RangesInv
<1>1. Init => RangesInv
  <2> SUFFICES ASSUME Init PROVE RangesInv
    OBVIOUS
  <2>1. 0 \in ValuesOfT
    BY HalfIsWhole DEF ValuesOfT
  <2>2. \A b, e \in ValuesOfT : b <= e => NarrowRanges!RangeOf(b, e) \in RangesOfT
    BY DEF NarrowRanges!RangeOf, RangesOfT
  <2>4. whole \in RangesOfT /\ pieces = <<whole>>
    <3>1. CASE OfRanges
      <4>1. NarrowRanges!Init
        BY <3>1, Zenon DEF Init, OfRanges
      <4> QED BY <2>2, <4>1, RangeTypes DEF NarrowRanges!Init
    <3>2. CASE ~OfRanges
      <4>1. whole = NarrowRanges!RangeOf(0, 0) /\ pieces = <<whole>>
        BY <3>2, Zenon DEF Init, OfRanges
      <4> QED BY <2>1, <2>2, <4>1
    <3> QED BY <3>1, <3>2
  <2> HIDE DEF Init
  <2>5. Len(pieces) = 1 /\ pieces[1] = whole /\ pieces \in Seq(RangesOfT)
    BY <2>4
  <2> QED BY <2>4, <2>5 DEF RangesInv
<1>2. RangesInv /\ [Next]_vars => RangesInv'
  <2> SUFFICES ASSUME RangesInv, [Next]_vars PROVE RangesInv'
    OBVIOUS
  <2>1. CASE \E n \in 1 .. Len(pieces), left \in Nat : SplitAt(n, left)
    BY <2>1, SplitKeeps
  <2>2. CASE UNCHANGED <<component, whole, pieces>>
    BY <2>2 DEF RangesInv
  <2> QED BY <2>1, <2>2, RangesStep
<1> QED BY <1>1, <1>2, PTL DEF Spec

\* The numbers from a up to b.
Upto(a, b) == [n \in 1 .. b - a |-> a + n - 1]

\* All the values up to the last.
LEMMA UptoAll ==
  ASSUME NEW a \in Int, NEW b \in Int, NEW c \in Int, a <= b, b <= c
  PROVE  Upto(a, b) \o Upto(b, c) = Upto(a, c)
<1>1. /\ Upto(a, b) \in Seq(Int) /\ Len(Upto(a, b)) = b - a /\ \A n \in 1 .. b - a : Upto(a, b)[n] = a + n - 1
      /\ Upto(b, c) \in Seq(Int) /\ Len(Upto(b, c)) = c - b /\ \A n \in 1 .. c - b : Upto(b, c)[n] = b + n - 1
      /\ Upto(a, c) \in Seq(Int) /\ Len(Upto(a, c)) = c - a /\ \A n \in 1 .. c - a : Upto(a, c)[n] = a + n - 1
  BY DEF Upto
<1> DEFINE both == Upto(a, b) \o Upto(b, c)
<1>2. /\ both \in Seq(Int) /\ Len(both) = Len(Upto(a, b)) + Len(Upto(b, c))
      /\ \A n \in 1 .. Len(Upto(a, b)) + Len(Upto(b, c)) :
           both[n] = IF n <= Len(Upto(a, b)) THEN Upto(a, b)[n] ELSE Upto(b, c)[n - Len(Upto(a, b))]
  BY <1>1, ConcatProperties, Zenon
<1> HIDE DEF both
<1>3. Len(both) = Len(Upto(a, c))
  BY <1>1, <1>2
<1>4. ASSUME NEW n \in 1 .. c - a PROVE both[n] = a + n - 1
  <2>1. n \in 1 .. Len(Upto(a, b)) + Len(Upto(b, c))
    BY <1>1
  <2>2. CASE n <= b - a
    BY <1>1, <1>2, <2>1, <2>2
  <2>3. CASE n > b - a
    <3>1. n - (b - a) \in 1 .. c - b /\ b + (n - (b - a)) - 1 = a + n - 1 /\ ~(n <= b - a)
      BY <2>3
    <3> QED BY <1>1, <1>2, <2>1, <3>1
  <2> QED BY <2>2, <2>3
<1>5. \A n \in 1 .. Len(both) : both[n] = Upto(a, c)[n]
  BY <1>1, <1>3, <1>4
<1>6. both = Upto(a, c)
  BY <1>1, <1>2, <1>3, <1>5, SeqEqual, Zenon
<1> QED BY <1>6 DEF both

\* g is what a sequence of n sequences is flattened to, up to each of them.
Flattens(seqs, n, g) == g = [k \in 1 .. n |-> IF k = 1 THEN seqs[k] ELSE g[k - 1] \o seqs[k]]

\* What FlattenSeq makes of sequences that go on where the one before ends.
LEMMA Flattened ==
  ASSUME NEW seqs, NEW n \in Nat \ {0}, Len(seqs) = n, NEW g, Flattens(seqs, n, g)
  PROVE  NarrowRanges!Seqs!FlattenSeq(seqs) = g[n]
<1> DEFINE flat == CHOOSE f : Flattens(seqs, n, f)
<1>1. NarrowRanges!Seqs!FlattenSeq(seqs) = flat[n]
  <2>1. n # 0
    OBVIOUS
  <2> QED BY <2>1, Zenon DEF NarrowRanges!Seqs!FlattenSeq, Flattens
<1>2. Flattens(seqs, n, flat)
  OBVIOUS
<1> HIDE DEF flat
<1>3. \A k \in 1 .. n : flat[k] = IF k = 1 THEN seqs[k] ELSE flat[k - 1] \o seqs[k]
  BY <1>2, Zenon DEF Flattens
<1>4. \A k \in 1 .. n : g[k] = IF k = 1 THEN seqs[k] ELSE g[k - 1] \o seqs[k]
  BY Zenon DEF Flattens
<1> DEFINE B == {k \in 1 .. n : flat[k] # g[k]}
<1>5. B # {} => FALSE
  <2> SUFFICES ASSUME B # {} PROVE FALSE
    OBVIOUS
  <2>1. B \subseteq Nat
    OBVIOUS
  <2>2. PICK k \in B : \A q \in B : k <= q
    <3> HIDE DEF B
    <3> QED BY <2>1, LeastNumber, Zenon
  <2>3. k \in 1 .. n /\ flat[k] # g[k]
    OBVIOUS
  <2>4. k # 1
    BY <1>3, <1>4, <2>3
  <2>5. k - 1 \in 1 .. n /\ ~(k <= k - 1)
    BY <2>3, <2>4
  <2>6. flat[k - 1] = g[k - 1]
    BY <2>2, <2>5
  <2>7. flat[k] = flat[k - 1] \o seqs[k] /\ g[k] = g[k - 1] \o seqs[k]
    BY <1>3, <1>4, <2>3, <2>4, Zenon
  <2> QED BY <2>3, <2>6, <2>7, Zenon
<1>6. n \in 1 .. n /\ n \notin B
  BY <1>5
<1>7. flat[n] = g[n]
  BY <1>6
<1> QED BY <1>1, <1>7

\* Where the pieces begin and end is in T and in the whole.
LEMMA PiecesOfT ==
  ASSUME RangesInv
  PROVE  /\ Len(pieces) \in Nat \ {0}
         /\ whole.begin \in ValuesOfT /\ whole.end \in ValuesOfT /\ whole.begin <= whole.end
         /\ \A n \in 1 .. Len(pieces) :
              /\ pieces[n].begin \in ValuesOfT /\ pieces[n].end \in ValuesOfT
              /\ pieces[n].begin <= pieces[n].end /\ whole.begin <= pieces[n].begin /\ pieces[n].end <= whole.end
<1>1. Len(pieces) \in Nat /\ Len(pieces) > 0 /\ whole \in RangesOfT /\ \A n \in 1 .. Len(pieces) : pieces[n] \in RangesOfT
  BY DEF RangesInv
<1>2. \A range \in RangesOfT : /\ range.begin \in ValuesOfT /\ range.end \in ValuesOfT /\ range.begin <= range.end
                               /\ range.begin \in Int /\ range.end \in Int
  BY HalfIsWhole DEF RangesOfT, ValuesOfT
<1>3. ASSUME NEW n \in 1 .. Len(pieces) PROVE whole.begin <= pieces[n].begin /\ pieces[n].end <= whole.end
  <2>1. 1 \in 1 .. Len(pieces) /\ Len(pieces) \in 1 .. Len(pieces)
    BY <1>1
  <2>2. /\ 1 < n => pieces[1].end <= pieces[n].begin
        /\ n < Len(pieces) => pieces[n].end <= pieces[Len(pieces)].begin
        /\ pieces[1].begin = whole.begin /\ pieces[Len(pieces)].end = whole.end
    BY <2>1 DEF RangesInv
  <2>3. /\ pieces[1].begin \in Int /\ pieces[1].end \in Int /\ pieces[1].begin <= pieces[1].end
        /\ pieces[n].begin \in Int /\ pieces[n].end \in Int
        /\ pieces[Len(pieces)].begin \in Int /\ pieces[Len(pieces)].end \in Int
        /\ pieces[Len(pieces)].begin <= pieces[Len(pieces)].end
    BY <1>1, <1>2, <2>1
  <2>4. (n = 1 \/ 1 < n) /\ (n = Len(pieces) \/ n < Len(pieces))
    BY <1>1
  <2>5. whole.begin <= pieces[n].begin
    BY <2>2, <2>3, <2>4
  <2>6. pieces[n].end <= whole.end
    BY <2>2, <2>3, <2>4
  <2> QED BY <2>5, <2>6
<1> QED BY <1>1, <1>2, <1>3

\* Pieces in order and without gaps hold every value once.
LEMMA PiecesPartition == RangesInv => NarrowRanges!Partition /\ IntRanges!Partition
<1> SUFFICES ASSUME RangesInv PROVE NarrowRanges!Partition /\ IntRanges!Partition
  OBVIOUS
<1>1. NarrowRanges!Partition => IntRanges!Partition
  BY Zenon DEF NarrowRanges!Partition, IntRanges!Partition, NarrowRanges!Contains, IntRanges!Contains,
     NarrowRanges!InRange, IntRanges!InRange, NarrowRanges!Iterable, IntRanges!Iterable,
     NarrowRanges!Seqs!FlattenSeq, IntRanges!Seqs!FlattenSeq, NarrowRanges!ValuesOf, IntRanges!ValuesOf,
     NarrowRanges!lowest, IntRanges!lowest, NarrowRanges!max, IntRanges!max, NarrowRanges!T, IntRanges!T
<1>2. /\ Len(pieces) \in Nat \ {0} /\ DOMAIN pieces = 1 .. Len(pieces)
      /\ \A n \in 1 .. Len(pieces) :
           /\ pieces[n].begin \in Int /\ pieces[n].end \in Int /\ pieces[n].begin <= pieces[n].end
           /\ whole.begin <= pieces[n].begin /\ pieces[n].end <= whole.end
      /\ whole.begin \in Int /\ whole.end \in Int
  <2>1. ValuesOfT \subseteq Int
    BY HalfIsWhole DEF ValuesOfT
  <2>2. DOMAIN pieces = 1 .. Len(pieces)
    BY DEF RangesInv
  <2> QED BY <2>1, <2>2, PiecesOfT, Zenon
<1>3. ASSUME NEW v \in NarrowRanges!ValuesOf(NarrowRanges!T)
      PROVE  IF NarrowRanges!Contains(whole, v)
             THEN \E n \in DOMAIN pieces : /\ NarrowRanges!Contains(pieces[n], v)
                                           /\ \A k \in DOMAIN pieces \ {n} : ~NarrowRanges!Contains(pieces[k], v)
             ELSE \A n \in DOMAIN pieces : ~NarrowRanges!Contains(pieces[n], v)
  <2>1. v \in Int
    BY RangeTypes, HalfIsWhole DEF ValuesOfT
  <2>2. \A range : NarrowRanges!Contains(range, v) <=> range.begin <= v /\ v < range.end
    BY DEF NarrowRanges!Contains, NarrowRanges!InRange
  <2>3. CASE whole.begin <= v /\ v < whole.end
    <3>1. PICK n \in 1 .. Len(pieces) : pieces[n].begin <= v /\ v < pieces[n].end
      BY <2>1, <2>3 DEF RangesInv
    <3>2. ASSUME NEW k \in 1 .. Len(pieces), k # n PROVE ~(pieces[k].begin <= v /\ v < pieces[k].end)
      <4>1. /\ pieces[n].begin \in Int /\ pieces[n].end \in Int /\ pieces[k].begin \in Int /\ pieces[k].end \in Int
            /\ k < n => pieces[k].end <= pieces[n].begin
            /\ n < k => pieces[n].end <= pieces[k].begin
        BY <1>2 DEF RangesInv
      <4>2. k < n \/ n < k
        BY <3>2
      <4> QED BY <2>1, <3>1, <4>1, <4>2
    <3> QED BY <1>2, <2>2, <2>3, <3>1, <3>2, Zenon
  <2>4. CASE ~(whole.begin <= v /\ v < whole.end)
    <3>1. ASSUME NEW n \in 1 .. Len(pieces) PROVE ~(pieces[n].begin <= v /\ v < pieces[n].end)
      BY <1>2, <2>1, <2>4
    <3> QED BY <1>2, <2>2, <2>4, <3>1
  <2> QED BY <2>3, <2>4
<1>4. NarrowRanges!Seqs!FlattenSeq([n \in DOMAIN pieces |-> NarrowRanges!Iterable(pieces[n])]) = NarrowRanges!Iterable(whole)
  <2> DEFINE seqs == [n \in DOMAIN pieces |-> NarrowRanges!Iterable(pieces[n])]
             g == [n \in 1 .. Len(pieces) |-> Upto(whole.begin, pieces[n].end)]
             all == Len(pieces)
  <2>1. \A range : NarrowRanges!Iterable(range) = Upto(range.begin, range.end)
    BY Zenon DEF NarrowRanges!Iterable, Upto
  <2>2. all \in Nat \ {0} /\ DOMAIN seqs = 1 .. all
    BY <1>2
  <2>3. \A n \in 1 .. all : seqs[n] = Upto(pieces[n].begin, pieces[n].end)
    BY <1>2, <2>1
  <2>4. Len(seqs) = all
    BY <1>2
  <2>5. \A n \in 1 .. all : g[n] = Upto(whole.begin, pieces[n].end)
    OBVIOUS
  <2> HIDE DEF seqs
  <2>6. 1 \in 1 .. all /\ all \in 1 .. all
    BY <2>2
  <2>7. pieces[1].begin = whole.begin /\ pieces[all].end = whole.end
    BY DEF RangesInv
  <2>8. g[1] = seqs[1]
    BY <2>3, <2>5, <2>6, <2>7
  <2>9. ASSUME NEW n \in 2 .. all PROVE g[n] = g[n - 1] \o seqs[n]
    <3> HIDE DEF g
    <3>1. n \in 1 .. all /\ n - 1 \in 1 .. all /\ n - 1 \in 1 .. all - 1 /\ (n - 1) + 1 = n
      BY <2>2
    <3>2. pieces[n - 1].end = pieces[n].begin
      BY <3>1 DEF RangesInv
    <3>3. g[n - 1] = Upto(whole.begin, pieces[n].begin) /\ g[n] = Upto(whole.begin, pieces[n].end)
      BY <2>5, <3>1, <3>2
    <3>4. Upto(whole.begin, pieces[n].begin) \o Upto(pieces[n].begin, pieces[n].end) = Upto(whole.begin, pieces[n].end)
      BY <1>2, <3>1, UptoAll, Zenon
    <3> QED BY <2>3, <3>1, <3>3, <3>4, Zenon
  <2>10. Flattens(seqs, all, g)
    <3>1. \A n \in 1 .. all : Upto(whole.begin, pieces[n].end) = IF n = 1 THEN seqs[n] ELSE g[n - 1] \o seqs[n]
      <4> HIDE DEF g
      <4> SUFFICES ASSUME NEW n \in 1 .. all PROVE g[n] = IF n = 1 THEN seqs[n] ELSE g[n - 1] \o seqs[n]
        BY <2>5
      <4>1. n = 1 \/ n \in 2 .. all
        BY <2>2
      <4>2. 1 \notin 2 .. all
        OBVIOUS
      <4> QED BY <2>8, <2>9, <4>1, <4>2, Zenon
    <3> QED BY <3>1, Zenon DEF Flattens, g
  <2> HIDE DEF g, all
  <2>11. NarrowRanges!Seqs!FlattenSeq(seqs) = g[all]
    BY <2>2, <2>4, <2>10, Flattened
  <2> QED BY <2>1, <2>5, <2>6, <2>7, <2>11 DEF seqs
<1>5. NarrowRanges!Partition
  BY <1>3, <1>4, Zenon DEF NarrowRanges!Partition
<1> QED BY <1>1, <1>5

\* Extents of pieces in order and without gaps add up to that of the whole.
LEMMA ExtentsTelescope ==
  ASSUME RangesInv, NEW f, \A n \in 1 .. Len(pieces) : f[n] = pieces[n].end - pieces[n].begin
  PROVE  SumOf(f, 1 .. Len(pieces)) = whole.end - whole.begin
<1> DEFINE all == Len(pieces)
           rest == all - 1
           H == {k \in 0 .. rest : SumOf(f, 1 .. k + 1) = pieces[k + 1].end - whole.begin}
<1>1. all \in Nat \ {0} /\ whole.begin \in Int /\ \A n \in 1 .. all : pieces[n].begin \in Int /\ pieces[n].end \in Int
  <2>1. ValuesOfT \subseteq Int
    BY HalfIsWhole DEF ValuesOfT
  <2> QED BY <2>1, PiecesOfT, Zenon
<1>2. \A n \in 1 .. all : f[n] \in Int /\ f[n] = pieces[n].end - pieces[n].begin
  BY <1>1
<1>3. pieces[1].begin = whole.begin /\ pieces[all].end = whole.end
      /\ \A n \in 1 .. rest : pieces[n].end = pieces[n + 1].begin
  BY DEF RangesInv
<1>4. rest \in Nat /\ rest + 1 = all
  BY <1>1
<1> HIDE DEF all
<1>5. /\ SumOf(f, 1 .. 0) = 0
      /\ \A k \in 1 .. all : SumOf(f, 1 .. k) = f[k] + SumOf(f, 1 .. k - 1)
  BY <1>1, <1>2, PrefixSums, Zenon
<1> HIDE DEF rest
<1>6. 0 \in H
  <2>1. 1 \in 1 .. all /\ 1 - 1 = 0 /\ 0 + 1 = 1 /\ 0 \in 0 .. rest
    BY <1>1, <1>4
  <2>2. SumOf(f, 1 .. 1) = f[1] + SumOf(f, 1 .. 0)
    BY <1>5, <2>1, Zenon
  <2> QED BY <1>1, <1>2, <1>3, <1>5, <2>1, <2>2
<1>7. ASSUME NEW k \in 1 .. rest, k - 1 \in H PROVE k \in H
  <2>1. /\ k \in 0 .. rest /\ k \in 1 .. all /\ k + 1 \in 1 .. all /\ (k + 1) - 1 = k /\ (k - 1) + 1 = k
    BY <1>4
  <2>2. SumOf(f, 1 .. k) = pieces[k].end - whole.begin
    BY <1>7, <2>1
  <2>3. SumOf(f, 1 .. k + 1) = f[k + 1] + SumOf(f, 1 .. k)
    BY <1>5, <2>1
  <2>4. SumOf(f, 1 .. k + 1) = pieces[k + 1].end - whole.begin
    BY <1>1, <1>2, <1>3, <2>1, <2>2, <2>3
  <2> QED BY <2>1, <2>4
<1>8. rest \in H
  <2> HIDE DEF H
  <2> QED BY <1>4, <1>6, <1>7, UpTheNumbers
<1> QED BY <1>3, <1>4, <1>8 DEF all

\* The sums that IntRange speaks of are those.
LEMMA FoldedSums ==
  ASSUME NEW f
  PROVE  /\ NarrowRanges!FoldFunction(LAMBDA extent, sum : extent + sum, 0, f) = SumOf(f, DOMAIN f)
         /\ IntRanges!FoldFunction(LAMBDA extent, sum : extent + sum, 0, f) = SumOf(f, DOMAIN f)
<1>1. NarrowRanges!FoldFunction(LAMBDA extent, sum : extent + sum, 0, f) = SumOf(f, DOMAIN f)
  BY Zenon DEF NarrowRanges!FoldFunction, NarrowRanges!FoldFunctionOnSet, NarrowRanges!MapThenFoldSet, SumOf, Adds, Pick
<1>2. IntRanges!FoldFunction(LAMBDA extent, sum : extent + sum, 0, f) = SumOf(f, DOMAIN f)
  BY Zenon DEF IntRanges!FoldFunction, IntRanges!FoldFunctionOnSet, IntRanges!MapThenFoldSet, SumOf, Adds, Pick
<1> QED BY <1>1, <1>2

\* So do the extents that Extent computes.
LEMMA ExtentsOfPieces == RangesInv => NarrowRanges!ExtentsAddUp /\ IntRanges!ExtentsAddUp
<1> SUFFICES ASSUME RangesInv, whole.end - whole.begin \in ValuesOfT
             PROVE  NarrowRanges!ExtentsAddUp /\ IntRanges!ExtentsAddUp
  BY RangeTypes, Zenon DEF NarrowRanges!ExtentsAddUp, IntRanges!ExtentsAddUp
<1>1. DOMAIN pieces = 1 .. Len(pieces)
  BY DEF RangesInv
<1>2. ASSUME NEW n \in 1 .. Len(pieces)
      PROVE  pieces[n].end - pieces[n].begin \in ValuesOfT
  <2>1. /\ whole.begin \in Int /\ whole.end \in Int /\ pieces[n].begin \in Int /\ pieces[n].end \in Int
        /\ pieces[n].begin <= pieces[n].end /\ whole.begin <= pieces[n].begin /\ pieces[n].end <= whole.end
    <3>1. ValuesOfT \subseteq Int
      BY HalfIsWhole DEF ValuesOfT
    <3> QED BY <3>1, PiecesOfT, Zenon
  <2>2. pieces[n].end - pieces[n].begin \in Int
    BY <2>1
  <2>3. 0 <= pieces[n].end - pieces[n].begin /\ pieces[n].end - pieces[n].begin <= whole.end - whole.begin
    BY <2>1
  <2> DEFINE extent == pieces[n].end - pieces[n].begin
  <2> HIDE DEF extent
  <2>4. extent \in Int /\ 0 <= extent /\ extent <= whole.end - whole.begin
    BY <2>2, <2>3, Zenon DEF extent
  <2>5. extent \in ValuesOfT
    BY <2>4, HalfIsWhole DEF ValuesOfT
  <2> QED BY <2>5, Zenon DEF extent
<1>3. \A n \in 1 .. Len(pieces) :
        /\ NarrowRanges!Extent(pieces[n]) = {pieces[n].end - pieces[n].begin}
        /\ IntRanges!Extent(pieces[n]) = {pieces[n].end - pieces[n].begin}
  BY <1>2, ExactInT DEF NarrowRanges!Extent, IntRanges!Extent
<1>4. /\ NarrowRanges!Extent(whole) = {whole.end - whole.begin}
      /\ IntRanges!Extent(whole) = {whole.end - whole.begin}
  BY ExactInT DEF NarrowRanges!Extent, IntRanges!Extent
<1>5. NarrowRanges!ExtentsAddUp
  <2> DEFINE extents == [n \in DOMAIN pieces |-> CHOOSE extent \in NarrowRanges!Extent(pieces[n]) : TRUE]
  <2>1. \A n \in 1 .. Len(pieces) : extents[n] = pieces[n].end - pieces[n].begin
    BY <1>1, <1>3
  <2>2. DOMAIN extents = 1 .. Len(pieces)
    BY <1>1
  <2> HIDE DEF extents
  <2>3. SumOf(extents, 1 .. Len(pieces)) = whole.end - whole.begin
    BY <2>1, ExtentsTelescope
  <2>4. NarrowRanges!FoldFunction(LAMBDA extent, sum : extent + sum, 0, extents) = whole.end - whole.begin
    BY <2>2, <2>3, FoldedSums
  <2>5. \A n \in DOMAIN pieces : NarrowRanges!Extent(pieces[n]) = {extents[n]}
    BY <1>1, <1>3, <2>1
  <2> QED BY <1>4, <2>4, <2>5, Zenon DEF NarrowRanges!ExtentsAddUp, extents
<1>6. IntRanges!ExtentsAddUp
  <2> DEFINE extents == [n \in DOMAIN pieces |-> CHOOSE extent \in IntRanges!Extent(pieces[n]) : TRUE]
  <2>1. \A n \in 1 .. Len(pieces) : extents[n] = pieces[n].end - pieces[n].begin
    BY <1>1, <1>3
  <2>2. DOMAIN extents = 1 .. Len(pieces)
    BY <1>1
  <2> HIDE DEF extents
  <2>3. SumOf(extents, 1 .. Len(pieces)) = whole.end - whole.begin
    BY <2>1, ExtentsTelescope
  <2>4. IntRanges!FoldFunction(LAMBDA extent, sum : extent + sum, 0, extents) = whole.end - whole.begin
    BY <2>2, <2>3, FoldedSums
  <2>5. \A n \in DOMAIN pieces : IntRanges!Extent(pieces[n]) = {extents[n]}
    BY <1>1, <1>3, <2>1
  <2> QED BY <1>4, <2>4, <2>5, Zenon DEF IntRanges!ExtentsAddUp, extents
<1> QED BY <1>5, <1>6

\* A rectangle made of a corner and its extent.
LEMMA RectangleOf ==
  ASSUME RangesInv, whole.end - whole.begin \in ValuesOfT,
         NEW y \in ValuesOfT, NEW height \in 0 .. Half - 1, y + height \in ValuesOfT,
         NEW r, r = [x |-> whole, y |-> [begin |-> y, end |-> y + height]]
  PROVE  /\ r.x = whole
         /\ NarrowRanges!Extents2D(r) = {<<whole.end - whole.begin, height>>}
         /\ IntRanges!Extents2D(r) = {<<whole.end - whole.begin, height>>}
         /\ {p \in ValuesOfT \X ValuesOfT : NarrowRanges!Contains2D(r, p)}
              = {<<whole.begin + a, y + b>> : a \in 0 .. whole.end - whole.begin - 1, b \in 0 .. height - 1}
<1> DEFINE width == whole.end - whole.begin
           x == whole.begin
<1>1. /\ x \in Int /\ y \in Int /\ whole.end \in Int /\ width \in Int /\ x + width = whole.end /\ height \in Nat
      /\ width \in ValuesOfT /\ height \in ValuesOfT /\ y + height - y = height
      /\ x \in ValuesOfT /\ x + width \in ValuesOfT
  <2>1. ValuesOfT \subseteq Int /\ 0 .. Half - 1 \subseteq ValuesOfT
    BY HalfIsWhole DEF ValuesOfT
  <2>2. x \in ValuesOfT /\ whole.end \in ValuesOfT
    BY PiecesOfT
  <2>3. height \in Nat /\ height \in ValuesOfT
    BY <2>1, HalfIsWhole
  <2>4. x \in Int /\ whole.end \in Int /\ y \in Int
    BY <2>1, <2>2, Zenon
  <2>5. width \in Int /\ x + width = whole.end /\ y + height - y = height
    BY <2>3, <2>4
  <2> QED BY <2>2, <2>3, <2>4, <2>5
<1>2. r.x = whole /\ r.y.begin = y /\ r.y.end = y + height
  OBVIOUS
<1>3. /\ NarrowRanges!Extent(r.x) = {width} /\ IntRanges!Extent(r.x) = {width}
      /\ NarrowRanges!Extent(r.y) = {height} /\ IntRanges!Extent(r.y) = {height}
  BY <1>1, <1>2, ExactInT DEF NarrowRanges!Extent, IntRanges!Extent
<1>4. {width} \X {height} = {<<width, height>>}
  OBVIOUS
<1>5. /\ NarrowRanges!Extents2D(r) = {<<width, height>>} /\ IntRanges!Extents2D(r) = {<<width, height>>}
  BY <1>3, <1>4, Zenon DEF NarrowRanges!Extents2D, IntRanges!Extents2D
<1>6. \A p : NarrowRanges!Contains2D(r, p) <=> /\ x <= p[1] /\ p[1] < x + width
                                               /\ y <= p[2] /\ p[2] < y + height
  BY <1>1, <1>2 DEF NarrowRanges!Contains2D, NarrowRanges!Contains, NarrowRanges!InRange
<1> HIDE DEF x, width
<1> DEFINE inside == {p \in ValuesOfT \X ValuesOfT : NarrowRanges!Contains2D(r, p)}
           steps == {<<x + a, y + b>> : a \in 0 .. width - 1, b \in 0 .. height - 1}
<1>7. ASSUME NEW p \in inside PROVE p \in steps
  <2>1. PICK u \in ValuesOfT, w \in ValuesOfT : p = <<u, w>>
    OBVIOUS
  <2>2. u \in Int /\ w \in Int /\ x <= u /\ u < x + width /\ y <= w /\ w < y + height
    <3>1. NarrowRanges!Contains2D(r, p) /\ p[1] = u /\ p[2] = w
      BY <2>1
    <3>2. u \in Int /\ w \in Int
      BY HalfIsWhole DEF ValuesOfT
    <3> QED BY <1>6, <3>1, <3>2
  <2>3. u - x \in 0 .. width - 1 /\ w - y \in 0 .. height - 1 /\ x + (u - x) = u /\ y + (w - y) = w
    BY <1>1, <2>2
  <2> QED BY <2>1, <2>3
<1>8. ASSUME NEW a \in 0 .. width - 1, NEW b \in 0 .. height - 1 PROVE <<x + a, y + b>> \in inside
  <2>1. x + a \in ValuesOfT /\ y + b \in ValuesOfT
    BY <1>1, HalfIsWhole DEF ValuesOfT
  <2>2. x <= x + a /\ x + a < x + width /\ y <= y + b /\ y + b < y + height
    BY <1>1
  <2>3. NarrowRanges!Contains2D(r, <<x + a, y + b>>)
    BY <1>6, <2>2
  <2> QED BY <2>1, <2>3
<1>9. inside = steps
  <2>1. \A p \in steps : p \in inside
    BY <1>8
  <2> HIDE DEF inside, steps
  <2> QED BY <1>7, <2>1, Zenon
<1> QED BY <1>2, <1>5, <1>9 DEF x, width

\* FromBeginAndExtent makes that rectangle, of the narrow type and of int.
LEMMA MadeRectangle ==
  ASSUME RangesInv, whole.end - whole.begin \in ValuesOfT,
         NEW y \in ValuesOfT, NEW height \in 0 .. Half - 1, y + height \in ValuesOfT,
         NEW r, \/ r \in NarrowRanges!FromBeginAndExtent(<<whole.begin, y>>, <<whole.end - whole.begin, height>>)
                \/ r \in IntRanges!FromBeginAndExtent(<<whole.begin, y>>, <<whole.end - whole.begin, height>>)
  PROVE  /\ r.x = whole
         /\ NarrowRanges!Extents2D(r) = {<<whole.end - whole.begin, height>>}
         /\ IntRanges!Extents2D(r) = {<<whole.end - whole.begin, height>>}
         /\ {p \in ValuesOfT \X ValuesOfT : NarrowRanges!Contains2D(r, p)}
              = {<<whole.begin + a, y + c>> : a \in 0 .. whole.end - whole.begin - 1, c \in 0 .. height - 1}
         /\ {p \in ValuesOfT \X ValuesOfT : IntRanges!Contains2D(r, p)}
              = {<<whole.begin + a, y + c>> : a \in 0 .. whole.end - whole.begin - 1, c \in 0 .. height - 1}
<1> DEFINE b == <<whole.begin, y>>
           e == <<whole.end - whole.begin, height>>
<1>1. /\ b[1] = whole.begin /\ b[2] = y /\ b[1] + e[1] = whole.end /\ b[2] + e[2] = y + height
      /\ whole.end \in ValuesOfT
  <2>1. whole.begin \in Int /\ whole.end \in Int /\ whole.end \in ValuesOfT
    BY PiecesOfT, HalfIsWhole DEF ValuesOfT
  <2> QED BY <2>1
<1> HIDE DEF b, e
<1>2. /\ NarrowRanges!Arithmetic(b[1] + e[1]) = {whole.end} /\ IntRanges!Arithmetic(b[1] + e[1]) = {whole.end}
      /\ NarrowRanges!Arithmetic(b[2] + e[2]) = {y + height} /\ IntRanges!Arithmetic(b[2] + e[2]) = {y + height}
  BY <1>1, ExactInT
<1>3. {whole.end} \X {y + height} = {<<whole.end, y + height>>}
  OBVIOUS
<1> DEFINE corner == <<whole.end, y + height>>
           rectangleOf(c) == [x |-> [begin |-> whole.begin, end |-> c[1]], y |-> [begin |-> y, end |-> c[2]]]
<1>4. r \in {rectangleOf(c) : c \in {corner}}
  <2>1. r \in NarrowRanges!FromBeginAndExtent(b, e) \/ r \in IntRanges!FromBeginAndExtent(b, e)
    BY DEF b, e
  <2> QED BY <1>1, <1>2, <1>3, <2>1 DEF NarrowRanges!FromBeginAndExtent, IntRanges!FromBeginAndExtent,
                                      NarrowRanges!RangeOf, IntRanges!RangeOf
<1>5. whole = [begin |-> whole.begin, end |-> whole.end]
  BY DEF RangesInv, RangesOfT
<1>6. r = [x |-> whole, y |-> [begin |-> y, end |-> y + height]]
  BY <1>4, <1>5
<1>7. \A p : NarrowRanges!Contains2D(r, p) <=> IntRanges!Contains2D(r, p)
  BY Zenon DEF NarrowRanges!Contains2D, IntRanges!Contains2D, NarrowRanges!Contains, IntRanges!Contains,
               NarrowRanges!InRange, IntRanges!InRange
<1>8. /\ r.x = whole
      /\ NarrowRanges!Extents2D(r) = {<<whole.end - whole.begin, height>>}
      /\ IntRanges!Extents2D(r) = {<<whole.end - whole.begin, height>>}
      /\ {p \in ValuesOfT \X ValuesOfT : NarrowRanges!Contains2D(r, p)}
           = {<<whole.begin + a, y + c>> : a \in 0 .. whole.end - whole.begin - 1, c \in 0 .. height - 1}
  BY <1>6, RectangleOf
<1>9. {p \in ValuesOfT \X ValuesOfT : NarrowRanges!Contains2D(r, p)}
        = {p \in ValuesOfT \X ValuesOfT : IntRanges!Contains2D(r, p)}
  BY <1>7, Zenon
<1> QED BY <1>8, <1>9

\* Whence a rectangle contains as many points as its extents say.
LEMMA RectanglesOfRanges == RangesInv => NarrowRanges!Rectangles /\ IntRanges!Rectangles
<1> SUFFICES ASSUME RangesInv PROVE NarrowRanges!Rectangles /\ IntRanges!Rectangles
  OBVIOUS
<1>1. NarrowRanges!Rectangles
  <2> DEFINE inT == NarrowRanges!ValuesOf(NarrowRanges!T)
  <2>1. inT = ValuesOfT /\ NarrowRanges!max(NarrowRanges!T) = Half - 1
    BY RangeTypes
  <2> SUFFICES ASSUME whole.end - whole.begin \in inT,
                      NEW y \in inT, NEW height \in 0 .. NarrowRanges!max(NarrowRanges!T), y + height \in inT,
                      NEW r \in NarrowRanges!FromBeginAndExtent(<<whole.begin, y>>, <<whole.end - whole.begin, height>>)
               PROVE  /\ r.x = whole
                      /\ NarrowRanges!Extents2D(r) = {<<whole.end - whole.begin, height>>}
                      /\ {p \in inT \X inT : NarrowRanges!Contains2D(r, p)}
                           = {<<whole.begin + a, y + c>> : a \in 0 .. whole.end - whole.begin - 1, c \in 0 .. height - 1}
    BY SMT DEF NarrowRanges!Rectangles
  <2>2. /\ whole.end - whole.begin \in ValuesOfT /\ y \in ValuesOfT /\ height \in 0 .. Half - 1
        /\ y + height \in ValuesOfT
    BY <2>1, Zenon
  <2>3. /\ r.x = whole
        /\ NarrowRanges!Extents2D(r) = {<<whole.end - whole.begin, height>>}
        /\ {p \in ValuesOfT \X ValuesOfT : NarrowRanges!Contains2D(r, p)}
             = {<<whole.begin + a, y + c>> : a \in 0 .. whole.end - whole.begin - 1, c \in 0 .. height - 1}
    BY <2>2, MadeRectangle
  <2>4. {p \in inT \X inT : NarrowRanges!Contains2D(r, p)} = {p \in ValuesOfT \X ValuesOfT : NarrowRanges!Contains2D(r, p)}
    BY <2>1, Zenon
  <2> HIDE DEF inT
  <2> DEFINE steps == {<<whole.begin + a, y + c>> : a \in 0 .. whole.end - whole.begin - 1, c \in 0 .. height - 1}
  <2>5. {p \in ValuesOfT \X ValuesOfT : NarrowRanges!Contains2D(r, p)} = steps
    BY <2>3
  <2> HIDE DEF steps
  <2>6. {p \in inT \X inT : NarrowRanges!Contains2D(r, p)} = steps
    BY <2>4, <2>5
  <2> QED BY <2>3, <2>6 DEF steps
<1>2. IntRanges!Rectangles
  <2> DEFINE inT == IntRanges!ValuesOf(IntRanges!T)
  <2>1. inT = ValuesOfT /\ IntRanges!max(IntRanges!T) = Half - 1
    BY RangeTypes
  <2> SUFFICES ASSUME whole.end - whole.begin \in inT,
                      NEW y \in inT, NEW height \in 0 .. IntRanges!max(IntRanges!T), y + height \in inT,
                      NEW r \in IntRanges!FromBeginAndExtent(<<whole.begin, y>>, <<whole.end - whole.begin, height>>)
               PROVE  /\ r.x = whole
                      /\ IntRanges!Extents2D(r) = {<<whole.end - whole.begin, height>>}
                      /\ {p \in inT \X inT : IntRanges!Contains2D(r, p)}
                           = {<<whole.begin + a, y + c>> : a \in 0 .. whole.end - whole.begin - 1, c \in 0 .. height - 1}
    BY SMT DEF IntRanges!Rectangles
  <2>2. /\ whole.end - whole.begin \in ValuesOfT /\ y \in ValuesOfT /\ height \in 0 .. Half - 1
        /\ y + height \in ValuesOfT
    BY <2>1, Zenon
  <2>3. /\ r.x = whole
        /\ IntRanges!Extents2D(r) = {<<whole.end - whole.begin, height>>}
        /\ {p \in ValuesOfT \X ValuesOfT : IntRanges!Contains2D(r, p)}
             = {<<whole.begin + a, y + c>> : a \in 0 .. whole.end - whole.begin - 1, c \in 0 .. height - 1}
    BY <2>2, MadeRectangle
  <2>4. {p \in inT \X inT : IntRanges!Contains2D(r, p)} = {p \in ValuesOfT \X ValuesOfT : IntRanges!Contains2D(r, p)}
    BY <2>1, Zenon
  <2> HIDE DEF inT
  <2> DEFINE steps == {<<whole.begin + a, y + c>> : a \in 0 .. whole.end - whole.begin - 1, c \in 0 .. height - 1}
  <2>5. {p \in ValuesOfT \X ValuesOfT : IntRanges!Contains2D(r, p)} = steps
    BY <2>3
  <2> HIDE DEF steps
  <2>6. {p \in inT \X inT : IntRanges!Contains2D(r, p)} = steps
    BY <2>4, <2>5
  <2> QED BY <2>3, <2>6 DEF steps
<1> QED BY <1>1, <1>2

\* However a range is split, and however wide int is, every value is in exactly one of the
\* pieces, iterating over them is iterating over the whole, their extents add up to its
\* extent, and a rectangle of ranges contains as many points as its extents say.
THEOREM SplitsLoseNothing == Spec => []SplitsPartition
<1>1. RangesInv => SplitsPartition
  BY PiecesPartition, ExtentsOfPieces, RectanglesOfRanges DEF SplitsPartition
<1> QED BY <1>1, RangesInvHolds, PTL

-----------------------------------------------------------------------------
(* FrameRateCounter.                                                       *)

\* What a quotient is.
LEMMA Quotient ==
  ASSUME NEW W \in Nat \ {0}, NEW a \in Nat
  PROVE  a \div W \in Nat /\ W * (a \div W) <= a /\ a < W * (a \div W) + W
OBVIOUS

\* A quotient is at least what times the divisor does not exceed the dividend.
LEMMA AtLeast ==
  ASSUME NEW W \in Nat \ {0}, NEW a \in Nat, NEW q \in Nat, W * q <= a
  PROVE  q <= a \div W
<1> DEFINE d == a \div W
<1>1. d \in Nat /\ a < W * d + W
  BY Quotient
<1> HIDE DEF d
<1>2. ASSUME d < q PROVE FALSE
  <2>1. PICK more \in Nat : q = d + 1 + more
    <3>1. q - d - 1 \in Nat /\ q = d + 1 + (q - d - 1)
      BY <1>1, <1>2
    <3> QED BY <3>1
  <2>2. W * q = W * d + W + W * more
    BY <1>1, <2>1
  <2>3. W * more \in Nat /\ W * d \in Nat
    BY <1>1
  <2> QED BY <1>1, <2>2, <2>3
<1> QED BY <1>1, <1>2 DEF d

\* And at most what times the divisor is not less than the dividend.
LEMMA AtMost ==
  ASSUME NEW W \in Nat \ {0}, NEW a \in Nat, NEW q \in Nat, a <= W * q
  PROVE  a \div W <= q
<1> DEFINE d == a \div W
<1>1. d \in Nat /\ W * d <= a
  BY Quotient
<1> HIDE DEF d
<1>2. ASSUME q < d PROVE FALSE
  <2>1. PICK more \in Nat : d = q + 1 + more
    <3>1. d - q - 1 \in Nat /\ d = q + 1 + (d - q - 1)
      BY <1>1, <1>2
    <3> QED BY <3>1, Zenon
  <2>2. W * d = W * q + W + W * more
    BY <1>1, <2>1
  <2>3. W * more \in Nat /\ W * q \in Nat
    BY <1>1
  <2> QED BY <1>1, <2>2, <2>3
<1> QED BY <1>1, <1>2 DEF d

\* The division of a sum that a window of ticks may have: exact when it is not negative
\* or when the window is of one tick, and else longer than any tick.
LEMMA DividedSums ==
  ASSUME NEW W \in Nat \ {0}, NEW b \in Nat, RepSize \in Nat, W * (2 * b + 1) <= RepSize,
         NEW total \in Int, -(W * b) <= total, total <= W * b
  PROVE  /\ total >= 0 => FrameRates!Signed((total % RepSize) \div W) = total \div W
         /\ total < 0 /\ W = 1 => FrameRates!Signed((total % RepSize) \div W) = total
         /\ total < 0 /\ W # 1 => FrameRates!Signed((total % RepSize) \div W) > b
<1> DEFINE most == W * b
<1>1. most \in Nat /\ W * (2 * b + 1) = 2 * most + W
  OBVIOUS
<1>2. 2 * most + W <= RepSize /\ -most <= total /\ total <= most /\ W \in Nat \ {0}
  BY <1>1
<1>3. b <= most
  <2>1. PICK more \in Nat : W = 1 + more
    <3>1. W - 1 \in Nat /\ W = 1 + (W - 1)
      OBVIOUS
    <3> QED BY <3>1
  <2>2. W * b = b + more * b /\ more * b \in Nat
    BY <2>1
  <2> QED BY <2>2
<1>4. CASE total >= 0
  <2>1. total % RepSize = total
    <3> HIDE DEF most
    <3> QED BY <1>1, <1>2, <1>4
  <2> DEFINE q == total \div W
  <2>2. q \in Nat /\ q <= b
    BY <1>2, <1>4, Quotient, AtMost
  <2>3. 2 * q < RepSize
    <3> HIDE DEF most, q
    <3> QED BY <1>1, <1>2, <1>3, <2>2
  <2>4. FrameRates!Signed(q) = q
    <3> HIDE DEF q
    <3> QED BY <2>2, <2>3 DEF FrameRates!Signed
  <2> QED BY <1>4, <2>1, <2>4
<1>5. CASE total < 0
  <2> DEFINE a == total + RepSize
             q == a \div W
  <2>1. total % RepSize = a /\ a \in Nat /\ a < RepSize /\ most + W <= a
    <3> HIDE DEF most
    <3> QED BY <1>1, <1>2, <1>5
  <2> HIDE DEF a
  <2>2. CASE W = 1
    <3>1. q = a
      BY <2>1, <2>2
    <3>2. 2 * a >= RepSize
      <4> HIDE DEF most, q
      <4> QED BY <1>1, <1>2, <1>5, <2>1 DEF a
    <3>3. FrameRates!Signed(a) = a - RepSize
      BY <3>2 DEF FrameRates!Signed
    <3>4. a - RepSize = total
      BY DEF a
    <3> QED BY <2>1, <2>2, <3>1, <3>3, <3>4, <1>5
  <2>3. CASE W # 1
    <3>1. W * (b + 1) = most + W /\ b + 1 \in Nat
      OBVIOUS
    <3>2. b + 1 <= q
      <4>1. W * (b + 1) <= a
        BY <2>1, <3>1
      <4> HIDE DEF most
      <4> QED BY <2>1, <3>1, <4>1, AtLeast, Zenon
    <3>3. q \in Nat /\ W * q <= a
      BY <2>1, Quotient
    <3>4. 2 * q <= W * q
      <4>1. PICK more \in Nat : W = 2 + more
        <5>1. W - 2 \in Nat /\ W = 2 + (W - 2)
          BY <2>3
        <5> QED BY <5>1
      <4> HIDE DEF q
      <4>2. W * q = 2 * q + more * q /\ more * q \in Nat
        BY <3>3, <4>1
      <4> QED BY <3>3, <4>2
    <3> DEFINE twice == W * q
    <3>5. twice \in Nat /\ 2 * q <= twice /\ twice <= a
      BY <3>3, <3>4
    <3> HIDE DEF q, most, twice
    <3>6. 2 * q < RepSize
      BY <2>1, <3>3, <3>5
    <3>7. FrameRates!Signed(q) = q
      BY <3>3, <3>6 DEF FrameRates!Signed
    <3> QED BY <1>5, <2>1, <2>3, <3>2, <3>3, <3>7 DEF q
  <2> QED BY <2>2, <2>3
<1> QED BY <1>4, <1>5

\* A window is of one tick at least.
LEMMA Windows ==
  \A fps \in Fps : fps \in Nat \ {0} /\ FrameRates!WindowFor(fps) \in Nat \ {0}
BY ValuesAssumption DEF FrameRates!CounterAssumption, FrameRates!WindowFor

\* Durations are integers.
LEMMA TicksAreNumbers == Ticks \subseteq Int
<1>1. PICK longest \in 0 .. RepSize : Ticks \subseteq -longest .. longest
  BY ValuesAssumption DEF FrameRates!CounterAssumption
<1> QED BY <1>1

\* Slot k of a ring of W that is next written at slot next, latest being the latest
\* ticks: filled from the left at first, then overwritten from there on.
InSlot(latest, W, next, k) ==
  IF Len(latest) < W THEN IF k < Len(latest) THEN latest[k + 1] ELSE 0
  ELSE IF k >= next THEN latest[k - next + 1] ELSE latest[k - next + 1 + W]

RingOf(latest, W, next) == [k \in 0 .. W - 1 |-> InSlot(latest, W, next, k)]

\* The ring holds the latest ticks, oldest where it is next written, and tick_sum_ is
\* their sum.
FrameRateInv ==
  /\ desired_fps_ \in Fps
  /\ fed \in Seq(Ticks) /\ Len(fed) <= FrameRates!Window
  /\ tick_index_ \in 0 .. FrameRates!Window - 1
  /\ Len(fed) < FrameRates!Window => tick_index_ = Len(fed)
  /\ ticks_ = RingOf(fed, FrameRates!Window, tick_index_)
  /\ tick_sum_ = SumOf(fed, 1 .. Len(fed))

\* The ring of no ticks.
LEMMA EmptyRing ==
  ASSUME NEW W \in Nat \ {0}
  PROVE  [k \in 0 .. W - 1 |-> 0] = RingOf(<<>>, W, 0)
<1>1. \A k \in 0 .. W - 1 : InSlot(<<>>, W, 0, k) = 0
  BY DEF InSlot
<1> QED BY <1>1, Zenon DEF RingOf

\* Their sum.
LEMMA SumOfNone == SumOf(<<>>, 1 .. Len(<<>>)) = 0
<1>1. SumOf(<<>>, 1 .. 0) = 0
  BY PrefixSums
<1>2. Len(<<>>) = 0
  OBVIOUS
<1> QED BY <1>1, <1>2, Zenon

\* The ring after a tick, while it fills.
LEMMA RingFills ==
  ASSUME NEW W \in Nat \ {0}, NEW latest \in Seq(Int), Len(latest) < W, NEW tick \in Int,
         NEW next, next = IF Len(latest) + 1 = W THEN 0 ELSE Len(latest) + 1
  PROVE  [RingOf(latest, W, Len(latest)) EXCEPT ![Len(latest)] = tick] = RingOf(Append(latest, tick), W, next)
<1> DEFINE L == Len(latest)
           more == Append(latest, tick)
<1>1. L \in Nat /\ L < W /\ Len(more) = L + 1 /\ more[L + 1] = tick /\ \A n \in 1 .. L : more[n] = latest[n]
  OBVIOUS
<1> HIDE DEF L, more
<1>2. ASSUME NEW k \in 0 .. W - 1
      PROVE  InSlot(more, W, next, k) = IF k = L THEN tick ELSE InSlot(latest, W, L, k)
  <2>1. InSlot(latest, W, L, k) = IF k < L THEN latest[k + 1] ELSE 0
    BY <1>1 DEF InSlot, L
  <2>2. InSlot(more, W, next, k) = IF k < L + 1 THEN more[k + 1] ELSE 0
    <3>1. CASE L + 1 = W
      <4>1. next = 0 /\ k >= next /\ k - next + 1 = k + 1 /\ k < L + 1 /\ ~(Len(more) < W)
        BY <1>1, <3>1 DEF L
      <4> QED BY <4>1, Zenon DEF InSlot
    <3>2. CASE L + 1 # W
      <4>1. Len(more) < W
        BY <1>1, <3>2
      <4> QED BY <1>1, <4>1, Zenon DEF InSlot
    <3> QED BY <3>1, <3>2
  <2>3. CASE k < L
    <3>1. k + 1 \in 1 .. L /\ k < L + 1 /\ k # L
      BY <1>1, <2>3
    <3> QED BY <1>1, <2>1, <2>2, <2>3, <3>1
  <2>4. CASE k = L
    BY <1>1, <2>2, <2>4
  <2>5. CASE k > L
    <3>1. ~(k < L) /\ ~(k < L + 1) /\ k # L
      BY <1>1, <2>5
    <3> QED BY <2>1, <2>2, <3>1
  <2> QED BY <1>1, <2>3, <2>4, <2>5
<1>3. [RingOf(latest, W, L) EXCEPT ![L] = tick] = RingOf(more, W, next)
  BY <1>2, Zenon DEF RingOf
<1> QED BY <1>3 DEF L, more

\* And when it is full.
LEMMA RingTurns ==
  ASSUME NEW W \in Nat \ {0}, NEW latest \in Seq(Int), Len(latest) = W, NEW tick \in Int,
         NEW at \in 0 .. W - 1, NEW next, next = IF at + 1 = W THEN 0 ELSE at + 1
  PROVE  [RingOf(latest, W, at) EXCEPT ![at] = tick] = RingOf(Tail(Append(latest, tick)), W, next)
<1> DEFINE more == Tail(Append(latest, tick))
<1>1. Len(more) = W /\ more[W] = tick /\ \A n \in 1 .. W - 1 : more[n] = latest[n + 1]
  OBVIOUS
<1> HIDE DEF more
<1>2. ASSUME NEW k \in 0 .. W - 1
      PROVE  InSlot(more, W, next, k) = IF k = at THEN tick ELSE InSlot(latest, W, at, k)
  <2>1. InSlot(latest, W, at, k) = IF k >= at THEN latest[k - at + 1] ELSE latest[k - at + 1 + W]
    BY DEF InSlot
  <2>2. InSlot(more, W, next, k) = IF k >= next THEN more[k - next + 1] ELSE more[k - next + 1 + W]
    BY <1>1 DEF InSlot
  <2>3. CASE at + 1 = W
    <3>1. next = 0 /\ k >= next /\ k - next + 1 = k + 1
      BY <2>3
    <3>2. InSlot(more, W, next, k) = more[k + 1]
      BY <2>2, <3>1
    <3>3. CASE k = at
      BY <1>1, <2>3, <3>2, <3>3
    <3>4. CASE k # at
      <4>1. k + 1 \in 1 .. W - 1 /\ ~(k >= at) /\ k - at + 1 + W = (k + 1) + 1
        BY <2>3, <3>4
      <4> QED BY <1>1, <2>1, <3>2, <3>4, <4>1
    <3> QED BY <3>3, <3>4
  <2>4. CASE at + 1 # W
    <3>1. next = at + 1
      BY <2>4
    <3>2. CASE k = at
      <4>1. ~(k >= next) /\ k - next + 1 + W = W
        BY <3>1, <3>2
      <4> QED BY <1>1, <2>2, <3>2, <4>1
    <3>3. CASE k > at
      <4>1. k >= next /\ k >= at /\ k # at /\ k - next + 1 \in 1 .. W - 1 /\ k - at + 1 = (k - next + 1) + 1
        BY <3>1, <3>3
      <4> QED BY <1>1, <2>1, <2>2, <4>1
    <3>4. CASE k < at
      <4>1. /\ ~(k >= next) /\ ~(k >= at) /\ k # at /\ k - next + 1 + W \in 1 .. W - 1
            /\ k - at + 1 + W = (k - next + 1 + W) + 1
        BY <3>1, <3>4
      <4> QED BY <1>1, <2>1, <2>2, <4>1
    <3> QED BY <3>2, <3>3, <3>4
  <2> QED BY <2>3, <2>4
<1>3. [RingOf(latest, W, at) EXCEPT ![at] = tick] = RingOf(more, W, next)
  BY <1>2, Zenon DEF RingOf
<1> QED BY <1>3 DEF more

\* A tick takes the place of the oldest in the ring and in the sum.
LEMMA TickKeeps ==
  ASSUME FrameRateInv, NEW tick \in Ticks, FrameRates!CalcAverageTick(tick)
  PROVE  FrameRateInv'
<1> DEFINE W == FrameRates!Window
           L == Len(fed)
           next == IF tick_index_ + 1 = W THEN 0 ELSE tick_index_ + 1
           latest == FrameRates!Latest(Append(fed, tick))
<1>1. W \in Nat \ {0} /\ tick \in Int /\ fed \in Seq(Int) /\ L \in Nat /\ L <= W /\ tick_index_ \in 0 .. W - 1
  <2>1. W \in Nat \ {0}
    BY Windows DEF FrameRateInv, FrameRates!Window
  <2>2. fed \in Seq(Ticks) /\ L <= W
    BY DEF FrameRateInv
  <2>3. fed \in Seq(Int)
    <3>1. \A n \in 1 .. Len(fed) : fed[n] \in Int
      BY <2>2, TicksAreNumbers, ElementOfSeq, Zenon
    <3>2. fed = [n \in 1 .. Len(fed) |-> fed[n]] /\ Len(fed) \in Nat
      BY <2>2
    <3> QED BY <3>1, <3>2
  <2> QED BY <2>1, <2>2, <2>3, TicksAreNumbers DEF FrameRateInv
<1>2. ticks_ = RingOf(fed, W, tick_index_) /\ tick_sum_ = SumOf(fed, 1 .. L) /\ (L < W => tick_index_ = L)
  BY DEF FrameRateInv
<1>3. /\ tick_sum_' = tick_sum_ - ticks_[tick_index_] + tick
      /\ ticks_' = [ticks_ EXCEPT ![tick_index_] = tick]
      /\ tick_index_' = next /\ fed' = latest /\ desired_fps_' = desired_fps_
  BY DEF FrameRates!CalcAverageTick
<1>4. FrameRates!Window' = W
  BY <1>3 DEF FrameRates!Window, FrameRates!WindowFor
<1>5. ticks_[tick_index_] = InSlot(fed, W, tick_index_, tick_index_)
  BY <1>1, <1>2 DEF RingOf
<1>6. latest = IF L + 1 > W THEN Tail(Append(fed, tick)) ELSE Append(fed, tick)
  BY <1>1 DEF FrameRates!Latest
<1>7. \A n \in 1 .. L : fed[n] \in Int
  BY <1>1
<1> HIDE DEF W, latest
<1>8. CASE L < W
  <2>1. latest = Append(fed, tick) /\ Len(Append(fed, tick)) = L + 1 /\ tick_index_ = L
    BY <1>1, <1>2, <1>6, <1>8
  <2>2. ticks_' = RingOf(latest, W, next)
    <3>1. ticks_' = [RingOf(fed, W, Len(fed)) EXCEPT ![Len(fed)] = tick]
      BY <1>2, <1>3, <2>1
    <3>2. next = IF Len(fed) + 1 = W THEN 0 ELSE Len(fed) + 1
      BY <2>1
    <3>3. Len(fed) < W
      BY <1>8
    <3> HIDE DEF next, L
    <3>4. [RingOf(fed, W, Len(fed)) EXCEPT ![Len(fed)] = tick] = RingOf(Append(fed, tick), W, next)
      BY <1>1, <3>2, <3>3, RingFills
    <3> QED BY <2>1, <3>1, <3>4
  <2>3. ticks_[tick_index_] = 0
    BY <1>1, <1>5, <1>8, <2>1 DEF InSlot
  <2>4. SumOf(latest, 1 .. L + 1) = tick + SumOf(fed, 1 .. L) /\ SumOf(fed, 1 .. L) \in Int
    <3> DEFINE all == Append(fed, tick)
               K == L + 1
    <3>1. /\ K \in Nat /\ K \in 1 .. K /\ K - 1 = L /\ \A n \in 1 .. K : all[n] \in Int
          /\ all[K] = tick /\ \A n \in 1 .. L : all[n] = fed[n]
      BY <1>1
    <3> HIDE DEF all, K, L
    <3>2. SumOf(all, 1 .. K) = all[K] + SumOf(all, 1 .. K - 1)
      BY <3>1, PrefixSums, Zenon
    <3>3. SumOf(all, 1 .. L) = SumOf(fed, 1 .. L)
      <4>1. L \in Int
        BY <1>1
      <4>2. IsFiniteSet(1 .. L)
        BY <4>1, FS_Interval
      <4> QED BY <3>1, <4>2, SumOfSame
    <3>4. SumOf(fed, 1 .. L) \in Int
      <4>1. L \in 0 .. L
        BY <1>1
      <4> QED BY <1>1, <1>7, <4>1, PrefixSums, Zenon
    <3> QED BY <2>1, <3>1, <3>2, <3>3, <3>4 DEF all, K
  <2>5. tick_sum_' = SumOf(latest, 1 .. L + 1)
    BY <1>1, <1>2, <1>3, <2>3, <2>4
  <2>6. latest \in Seq(Ticks) /\ Len(latest) = L + 1
    BY <2>1 DEF FrameRateInv
  <2>7. L + 1 <= W /\ next \in 0 .. W - 1 /\ (L + 1 < W => next = L + 1)
    BY <1>1, <1>8, <2>1
  <2> HIDE DEF L, next
  <2> QED BY <1>3, <1>4, <2>2, <2>5, <2>6, <2>7 DEF FrameRateInv
<1>9. CASE L = W
  <2> DEFINE all == Append(fed, tick)
             K == L + 1
  <2>1. /\ latest = Tail(all) /\ Len(latest) = L /\ latest \in Seq(Ticks)
        /\ K \in Nat \ {0} /\ K \in 1 .. K /\ K - 1 = L /\ \A n \in 1 .. K : all[n] \in Int
        /\ all[K] = tick /\ all[1] = fed[1] /\ (\A n \in 1 .. L : all[n] = fed[n])
        /\ \A n \in 1 .. K - 1 : latest[n] = all[n + 1]
    <3>1. latest = Tail(all)
      BY <1>1, <1>6, <1>9
    <3>2. Len(latest) = L /\ latest \in Seq(Ticks)
      BY <1>1, <1>9, <3>1 DEF FrameRateInv
    <3>3. K \in Nat \ {0} /\ K \in 1 .. K /\ K - 1 = L /\ 1 \in 1 .. L
      BY <1>1, <1>9
    <3>4. all[K] = tick /\ \A n \in 1 .. L : all[n] = fed[n]
      BY <1>1
    <3>5. \A n \in 1 .. K : all[n] \in Int
      BY <1>1
    <3>6. \A n \in 1 .. K - 1 : latest[n] = all[n + 1]
      BY <1>1, <3>1
    <3> QED BY <3>1, <3>2, <3>3, <3>4, <3>5, <3>6, Zenon
  <2>2. ticks_' = RingOf(latest, W, next)
    <3>1. ticks_' = [RingOf(fed, W, tick_index_) EXCEPT ![tick_index_] = tick]
      BY <1>2, <1>3
    <3>2. Len(fed) = W
      BY <1>9
    <3>3. next = IF tick_index_ + 1 = W THEN 0 ELSE tick_index_ + 1
      OBVIOUS
    <3> HIDE DEF next, L, all, K
    <3>4. [RingOf(fed, W, tick_index_) EXCEPT ![tick_index_] = tick] = RingOf(Tail(Append(fed, tick)), W, next)
      BY <1>1, <3>2, <3>3, RingTurns
    <3> QED BY <2>1, <3>1, <3>4 DEF all
  <2>3. ticks_[tick_index_] = fed[1]
    <3>1. tick_index_ - tick_index_ + 1 = 1 /\ tick_index_ >= tick_index_ /\ ~(Len(fed) < W)
      BY <1>1, <1>9
    <3> QED BY <1>5, <3>1, Zenon DEF InSlot
  <2>4. SumOf(latest, 1 .. L) = tick + SumOf(fed, 1 .. L) - fed[1] /\ SumOf(fed, 1 .. L) \in Int /\ fed[1] \in Int
    <3> HIDE DEF all, K, L
    <3>1. SumOf(all, 1 .. K) = all[K] + SumOf(all, 1 .. K - 1)
      BY <2>1, PrefixSums, Zenon
    <3>2. SumOf(all, 1 .. L) = SumOf(fed, 1 .. L)
      <4>1. L \in Int
        BY <1>1
      <4> DEFINE S == 1 .. L
      <4>2. IsFiniteSet(S) /\ \A n \in S : all[n] = fed[n]
        BY <2>1, <4>1, FS_Interval
      <4> HIDE DEF S
      <4>3. SumOf(all, S) = SumOf(fed, S)
        BY <4>2, SumOfSame
      <4> QED BY <4>3 DEF S
    <3>3. SumOf(all, 1 .. K) = all[1] + SumOf(latest, 1 .. K - 1)
      <4>1. K \in Nat \ {0}
        BY <2>1
      <4>2. \A n \in 1 .. K : all[n] \in Int
        BY <2>1
      <4>3. \A n \in 1 .. K - 1 : latest[n] = all[n + 1]
        BY <2>1
      <4> QED BY ONLY <4>1, <4>2, <4>3, SumOfTail
    <3>4. SumOf(fed, 1 .. L) \in Int /\ fed[1] \in Int
      <4>1. SumOf(fed, 1 .. L) \in Int
        <5>1. L \in 0 .. L
          BY <1>1
        <5> QED BY <1>1, <1>7, <5>1, PrefixSums, Zenon
      <4>2. 1 \in 1 .. L
        BY <1>1, <1>9
      <4> QED BY <1>7, <4>1, <4>2
    <3>5. SumOf(latest, 1 .. L) \in Int
      <4>1. \A n \in 1 .. L : latest[n] \in Int
        <5>1. \A n \in 1 .. L : n + 1 \in 1 .. K
          BY <1>1 DEF K
        <5> QED BY <2>1, <5>1
      <4>2. L \in 0 .. L
        BY <1>1
      <4> QED BY <1>1, <4>1, <4>2, PrefixSums, Zenon
    <3>6. SumOf(all, 1 .. K) = tick + SumOf(fed, 1 .. L)
      BY <2>1, <3>1, <3>2
    <3>7. SumOf(all, 1 .. K) = fed[1] + SumOf(latest, 1 .. L)
      BY <2>1, <3>3
    <3> QED BY <1>1, <3>4, <3>5, <3>6, <3>7
  <2>5. tick_sum_' = SumOf(latest, 1 .. L)
    BY <1>1, <1>2, <1>3, <2>3, <2>4
  <2>6. next \in 0 .. W - 1
    BY <1>1
  <2>7. ~(L < W) /\ L <= W
    BY <1>1, <1>9
  <2> HIDE DEF L, next
  <2> QED BY <1>3, <1>4, <2>1, <2>2, <2>5, <2>6, <2>7, Zenon DEF FrameRateInv
<1> QED BY <1>1, <1>8, <1>9

\* So does a new rate, which empties both.
LEMMA FrameRateInvHolds == Spec => []FrameRateInv
<1>1. ASSUME NEW fps \in Fps
      PROVE  /\ FrameRates!WindowFor(fps) \in Nat \ {0}
             /\ [k \in 0 .. FrameRates!WindowFor(fps) - 1 |-> 0] = RingOf(<<>>, FrameRates!WindowFor(fps), 0)
             /\ 0 \in 0 .. FrameRates!WindowFor(fps) - 1
             /\ <<>> \in Seq(Ticks) /\ Len(<<>>) = 0 /\ 0 <= FrameRates!WindowFor(fps)
             /\ SumOf(<<>>, 1 .. Len(<<>>)) = 0
  <2> DEFINE W == FrameRates!WindowFor(fps)
  <2>1. W \in Nat \ {0}
    BY Windows
  <2> HIDE DEF W
  <2>2. [k \in 0 .. W - 1 |-> 0] = RingOf(<<>>, W, 0) /\ 0 \in 0 .. W - 1 /\ 0 <= W
    BY <2>1, EmptyRing
  <2> QED BY <2>1, <2>2, SumOfNone DEF W
<1>2. Init => FrameRateInv
  <2> SUFFICES ASSUME Init PROVE FrameRateInv
    OBVIOUS
  <2>1. /\ desired_fps_ = DefaultFps /\ DefaultFps \in Fps
        /\ ticks_ = [k \in 0 .. FrameRates!WindowFor(DefaultFps) - 1 |-> 0]
        /\ tick_index_ = 0 /\ tick_sum_ = 0 /\ fed = <<>>
    BY ValuesAssumption DEF Init, FrameRates!Init, FrameRates!CounterAssumption
  <2>2. FrameRates!Window = FrameRates!WindowFor(DefaultFps)
    BY <2>1 DEF FrameRates!Window
  <2> QED BY <1>1, <2>1, <2>2 DEF FrameRateInv
<1>3. FrameRateInv /\ [Next]_vars => FrameRateInv'
  <2> SUFFICES ASSUME FrameRateInv, [Next]_vars PROVE FrameRateInv'
    OBVIOUS
  <2>1. \/ \E fps \in Fps : FrameRates!SetDesiredFps(fps)
        \/ \E tick \in Ticks : FrameRates!CalcAverageTick(tick)
        \/ UNCHANGED frameRates
    BY DEF Next, SortStep, NumbersStep, GeometryStep, vars, numbers, FrameRates!Next
  <2>2. ASSUME NEW fps \in Fps, FrameRates!SetDesiredFps(fps) PROVE FrameRateInv'
    <3>1. /\ desired_fps_' = fps /\ ticks_' = [k \in 0 .. FrameRates!WindowFor(fps) - 1 |-> 0]
          /\ tick_index_' = 0 /\ tick_sum_' = 0 /\ fed' = <<>>
      BY <2>2, Zenon DEF FrameRates!SetDesiredFps, FrameRates!SetFps
    <3>2. FrameRates!Window' = FrameRates!WindowFor(fps)
      BY <3>1 DEF FrameRates!Window, FrameRates!WindowFor
    <3> QED BY <1>1, <3>1, <3>2 DEF FrameRateInv
  <2>3. CASE UNCHANGED frameRates
    <3>1. FrameRates!Window' = FrameRates!Window
      BY <2>3 DEF frameRates, FrameRates!Window, FrameRates!WindowFor
    <3> QED BY <2>3, <3>1 DEF frameRates, FrameRateInv
  <2> QED BY <2>1, <2>2, <2>3, TickKeeps
<1> QED BY <1>2, <1>3, PTL DEF Spec

\* What CalcAverageTick returns, of the sum it has computed.
LEMMA TickAverages ==
  ASSUME FrameRateInv, FrameRateInv', NEW tick \in Ticks, FrameRates!CalcAverageTick(tick)
  PROVE  IF FrameRates!Total(fed') >= 0 THEN average' = FrameRates!Total(fed') \div FrameRates!Window
         ELSE IF FrameRates!Window = 1 THEN average' = FrameRates!Total(fed')
         ELSE \A n \in DOMAIN fed' : average' > fed'[n]
<1> DEFINE W == FrameRates!Window
           latest == fed'
           L == Len(latest)
           total == SumOf(latest, 1 .. L)
<1>1. /\ desired_fps_' = desired_fps_ /\ tick_sum_' = tick_sum_'
      /\ average' = FrameRates!Divided(tick_sum_')
  BY SMT DEF FrameRates!CalcAverageTick
<1>2. FrameRates!Window' = W
  BY <1>1 DEF FrameRates!Window, FrameRates!WindowFor
<1>3. /\ latest \in Seq(Ticks) /\ L \in Nat /\ L <= W /\ tick_sum_' = total /\ DOMAIN latest = 1 .. L
      /\ \A n \in 1 .. L : latest[n] \in Ticks
  BY <1>2 DEF FrameRateInv
<1>4. FrameRates!Total(latest) = SumOf(latest, DOMAIN latest)
  BY Zenon DEF FrameRates!Total, FrameRates!FoldFunction, FrameRates!FoldFunctionOnSet, FrameRates!MapThenFoldSet,
     SumOf, Adds, Pick
<1>5. FrameRates!Total(latest) = total
  BY <1>3, <1>4
<1>6. average' = FrameRates!Signed((total % RepSize) \div W)
  BY <1>1, <1>3 DEF FrameRates!Divided
<1>7. desired_fps_ \in Fps /\ W \in Nat \ {0} /\ W = (desired_fps_ * 3) \div 2
  BY Windows DEF FrameRateInv, FrameRates!Window, FrameRates!WindowFor
<1>8. PICK b \in 0 .. RepSize : /\ Ticks \subseteq -b .. b
                               /\ \A fps \in Fps : ((fps * 3) \div 2) * (2 * b + 1) <= RepSize
  BY ValuesAssumption, Zenon DEF FrameRates!CounterAssumption
<1>9. b \in Nat /\ RepSize \in Nat /\ W * (2 * b + 1) <= RepSize
  BY <1>7, <1>8, ValuesAssumption DEF FrameRates!CounterAssumption
<1>10. \A n \in 1 .. L : latest[n] \in -b .. b
  BY <1>3, <1>8, Zenon
<1> HIDE DEF W, latest, L
<1>11. total \in Int /\ -(L * b) <= total /\ total <= L * b
  BY <1>3, <1>9, <1>10, SumIsBounded, Zenon
<1> HIDE DEF total
<1>12. L * b <= W * b
  <2>1. PICK more \in Nat : W = L + more
    <3>1. W - L \in Nat /\ W = L + (W - L)
      BY <1>3, <1>7
    <3> QED BY <3>1
  <2>2. W * b = L * b + more * b /\ more * b \in Nat /\ L * b \in Nat
    BY <1>3, <1>9, <2>1
  <2> QED BY <2>2
<1>13. -(W * b) <= total /\ total <= W * b
  <2> DEFINE lb == L * b
             wb == W * b
  <2>1. lb \in Int /\ wb \in Int /\ lb <= wb /\ -lb <= total /\ total <= lb
    BY <1>3, <1>7, <1>9, <1>11, <1>12
  <2> HIDE DEF lb, wb
  <2>2. -wb <= total /\ total <= wb
    BY <1>11, <2>1
  <2> QED BY <2>2 DEF wb
<1>14. /\ total >= 0 => average' = total \div W
       /\ total < 0 /\ W = 1 => average' = total
       /\ total < 0 /\ W # 1 => average' > b
  BY <1>6, <1>7, <1>9, <1>11, <1>13, DividedSums, Zenon
<1>15. CASE total >= 0
  BY <1>5, <1>14, <1>15 DEF W, latest
<1>16. CASE total < 0
  <2>1. CASE W = 1
    BY <1>5, <1>11, <1>14, <1>16, <2>1 DEF W, latest
  <2>2. CASE W # 1
    <3>1. average' > b
      BY <1>14, <1>16, <2>2
    <3>2. average' \in Int
      <4> DEFINE dividend == total % RepSize
      <4>1. dividend \in Nat /\ dividend \div W \in Nat /\ RepSize \in Int
        <5>1. dividend \in Nat
          BY <1>9, <1>11, ValuesAssumption DEF FrameRates!CounterAssumption
        <5> HIDE DEF dividend
        <5> QED BY <1>7, <1>9, <5>1, Quotient
      <4> HIDE DEF dividend
      <4> DEFINE q == dividend \div W
      <4>2. q \in Nat /\ RepSize \in Int
        BY <4>1
      <4> HIDE DEF q
      <4>3. FrameRates!Signed(q) \in Int
        BY <4>2 DEF FrameRates!Signed
      <4> QED BY <1>6, <4>3 DEF q, dividend
    <3>3. \A n \in 1 .. L : average' > latest[n]
      <4>1. \A v \in -b .. b : average' > v
        BY <1>9, <3>1, <3>2
      <4> QED BY <1>10, <4>1
    <3>4. \A n \in DOMAIN latest : average' > latest[n]
      BY <1>3, <3>3
    <3>5. ~(total >= 0)
      BY <1>11, <1>16
    <3> QED BY <1>5, <2>2, <3>4, <3>5, Zenon DEF W, latest
  <2> QED BY <2>1, <2>2
<1> QED BY <1>11, <1>15, <1>16

\* What CalcAverageTick returns is the average of the latest window of ticks, whatever
\* the rate, the durations and the width of their representation: exact while their sum
\* is not negative, and while it is - the divisor is unsigned - longer than any of them.
THEOREM AveragesTheWindow == Spec => AverageOfTheWindow
<1>1. FrameRateInv /\ [Next]_vars =>
        [\A tick \in Ticks : FrameRates!CalcAverageTick(tick) =>
           LET total == FrameRates!Total(fed') IN
             IF total >= 0 THEN average' = total \div FrameRates!Window
             ELSE IF FrameRates!Window = 1 THEN average' = total
             ELSE \A n \in DOMAIN fed' : average' > fed'[n]]_frameRates
  BY TickKeeps, TickAverages
<1>2. Spec => [][\A tick \in Ticks : FrameRates!CalcAverageTick(tick) =>
           LET total == FrameRates!Total(fed') IN
             IF total >= 0 THEN average' = total \div FrameRates!Window
             ELSE IF FrameRates!Window = 1 THEN average' = total
             ELSE \A n \in DOMAIN fed' : average' > fed'[n]]_frameRates
  BY <1>1, FrameRateInvHolds, PTL DEF Spec
<1> QED BY <1>2 DEF AverageOfTheWindow, FrameRates!AverageOfTheWindow, frameRates, FrameRates!vars

-----------------------------------------------------------------------------
(* Matrix. Residues of integers and the places of a table.                 *)

\* Residues.
LEMMA Residue ==
  ASSUME NEW M \in Nat \ {0}, NEW x \in Int
  PROVE  x % M \in 0 .. M - 1 /\ \E q \in Int : x = q * M + (x % M)
<1>1. x \div M \in Int /\ x = M * (x \div M) + (x % M) /\ x % M \in 0 .. M - 1
  OBVIOUS
<1>2. M * (x \div M) = (x \div M) * M
  BY <1>1
<1> QED BY <1>1, <1>2, Zenon

\* What is left of a multiple of M and less than M is the residue.
LEMMA ResidueIs ==
  ASSUME NEW M \in Nat \ {0}, NEW q \in Int, NEW r \in 0 .. M - 1
  PROVE  (q * M + r) % M = r
<1> DEFINE x == q * M + r
<1>1. x \in Int
  OBVIOUS
<1>2. PICK p \in Int : x = p * M + (x % M)
  <2> HIDE DEF x
  <2> QED BY <1>1, Residue, Zenon
<1> DEFINE s == x % M
<1>3. s \in 0 .. M - 1
  <2> HIDE DEF x
  <2> QED BY <1>1, Residue
<1>4. (q - p) * M = s - r
  <2> HIDE DEF s
  <2>1. x = p * M + s
    BY <1>2 DEF s
  <2> QED BY <1>3, <2>1
<1> HIDE DEF x, s
<1>5. q - p = 0
  <2> DEFINE d == q - p
  <2>1. d \in Int /\ d * M < M /\ -M < d * M
    BY <1>3, <1>4
  <2> HIDE DEF d
  <2>2. ASSUME d >= 1 PROVE FALSE
    <3>1. PICK more \in Nat : d = 1 + more
      <4>1. d - 1 \in Nat /\ d = 1 + (d - 1)
        BY <2>1, <2>2
      <4> QED BY <4>1
    <3>2. d * M = M + more * M /\ more * M \in Nat
      BY <3>1
    <3> QED BY <2>1, <3>2
  <2>3. ASSUME d <= -1 PROVE FALSE
    <3>1. PICK more \in Nat : d = -(1 + more)
      <4>1. -d - 1 \in Nat /\ d = -(1 + (-d - 1))
        BY <2>1, <2>3
      <4> QED BY <4>1
    <3>2. d * M = -(M + more * M) /\ more * M \in Nat
      BY <3>1
    <3> QED BY <2>1, <3>2
  <2> QED BY <2>1, <2>2, <2>3 DEF d
<1>6. s = r
  BY <1>3, <1>4, <1>5
<1> QED BY <1>6 DEF s, x

\* Numbers that differ by a multiple have one residue, and only those.
LEMMA SameResidue ==
  ASSUME NEW M \in Nat \ {0}, NEW x \in Int, NEW y \in Int
  PROVE  x % M = y % M <=> \E q \in Int : x = y + q * M
<1>1. PICK p \in Int : x = p * M + (x % M)
  BY Residue, Zenon
<1>2. PICK s \in Int : y = s * M + (y % M)
  BY Residue, Zenon
<1>3. x % M \in 0 .. M - 1 /\ y % M \in 0 .. M - 1
  BY Residue
<1>4. ASSUME x % M = y % M PROVE \E q \in Int : x = y + q * M
  <2>1. p - s \in Int /\ x = y + (p - s) * M
    <3> DEFINE r == y % M
    <3>1. x = p * M + r /\ y = s * M + r /\ r \in Int
      BY <1>1, <1>2, <1>3, <1>4
    <3> HIDE DEF r
    <3> QED BY <3>1
  <2> QED BY <2>1
<1>5. ASSUME NEW q \in Int, x = y + q * M PROVE x % M = y % M
  <2> DEFINE r == y % M
  <2>1. x = (s + q) * M + r /\ r \in 0 .. M - 1 /\ s + q \in Int
    <3>1. y = s * M + r /\ r \in 0 .. M - 1
      BY <1>2, <1>3
    <3> HIDE DEF r
    <3> QED BY <1>5, <3>1
  <2> HIDE DEF r
  <2>2. ((s + q) * M + r) % M = r
    BY <2>1, ResidueIs
  <2> QED BY <2>1, <2>2 DEF r
<1> QED BY <1>4, <1>5, Zenon

\* Sums, differences and products of residues are those of the numbers.
LEMMA ResiduesCombine ==
  ASSUME NEW M \in Nat \ {0}, NEW x \in Int, NEW y \in Int
  PROVE  /\ ((x % M) + y) % M = (x + y) % M /\ (x + (y % M)) % M = (x + y) % M
         /\ (x - (y % M)) % M = (x - y) % M /\ ((x % M) - y) % M = (x - y) % M
         /\ ((x % M) * y) % M = (x * y) % M /\ (x * (y % M)) % M = (x * y) % M
<1> DEFINE u == x % M
           v == y % M
<1>1. PICK p \in Int : x = p * M + u
  BY Residue, Zenon
<1>2. PICK q \in Int : y = q * M + v
  BY Residue, Zenon
<1>3. u \in Int /\ v \in Int
  BY Residue
<1> HIDE DEF u, v
<1>4. (u + y) % M = (x + y) % M /\ (x + v) % M = (x + y) % M
  <2>1. u + y = (x + y) + (-p) * M /\ x + v = (x + y) + (-q) * M
    BY <1>1, <1>2, <1>3
  <2>2. u + y \in Int /\ x + v \in Int /\ x + y \in Int /\ -p \in Int /\ -q \in Int
    BY <1>3
  <2>3. (\E k \in Int : u + y = (x + y) + k * M) /\ (\E k \in Int : x + v = (x + y) + k * M)
    BY <2>1, <2>2, Zenon
  <2>4. (u + y) % M = (x + y) % M
    BY <2>2, <2>3, SameResidue, Zenon
  <2>5. (x + v) % M = (x + y) % M
    BY <2>2, <2>3, SameResidue, Zenon
  <2> QED BY <2>4, <2>5
<1>5. (x - v) % M = (x - y) % M /\ (u - y) % M = (x - y) % M
  <2>1. u - y = (x - y) + (-p) * M /\ x - v = (x - y) + q * M
    BY <1>1, <1>2, <1>3
  <2>2. u - y \in Int /\ x - v \in Int /\ x - y \in Int /\ -p \in Int
    BY <1>3
  <2>3. (\E k \in Int : x - v = (x - y) + k * M) /\ (\E k \in Int : u - y = (x - y) + k * M)
    BY <2>1, <2>2, Zenon
  <2>4. (x - v) % M = (x - y) % M
    BY <2>2, <2>3, SameResidue, Zenon
  <2>5. (u - y) % M = (x - y) % M
    BY <2>2, <2>3, SameResidue, Zenon
  <2> QED BY <2>4, <2>5
<1>6. (u * y) % M = (x * y) % M /\ (x * v) % M = (x * y) % M
  <2>1. u * y = x * y + (-(p * y)) * M /\ x * v = x * y + (-(q * x)) * M
    BY <1>1, <1>2, <1>3
  <2>2. u * y \in Int /\ x * v \in Int /\ x * y \in Int /\ -(p * y) \in Int /\ -(q * x) \in Int
    BY <1>3
  <2> QED BY <2>1, <2>2, SameResidue, Zenon
<1> QED BY <1>4, <1>5, <1>6 DEF u, v

\* Numbers below the modulus are their own residues.
LEMMA SmallResidue ==
  ASSUME NEW M \in Nat \ {0}, NEW x \in 0 .. M - 1
  PROVE  x % M = x
<1>1. (0 * M + x) % M = x
  BY ResidueIs
<1> QED BY <1>1

\* Where the elements are in data_: each index is the offset of one row and column.
LEMMA Offsets ==
  ASSUME NEW rows \in Nat \ {0}, NEW columns \in Nat \ {0}
  PROVE  /\ rows * columns \in Nat \ {0}
         /\ \A r \in 0 .. rows - 1, c \in 0 .. columns - 1 : r * columns + c \in 0 .. rows * columns - 1
         /\ \A r, s \in 0 .. rows - 1, c, d \in 0 .. columns - 1 :
              r * columns + c = s * columns + d => r = s /\ c = d
         /\ \A index \in 0 .. rows * columns - 1 :
              \E r \in 0 .. rows - 1, c \in 0 .. columns - 1 : index = r * columns + c
<1>1. rows * columns \in Nat \ {0}
  OBVIOUS
<1>2. ASSUME NEW r \in 0 .. rows - 1, NEW c \in 0 .. columns - 1
      PROVE  r * columns + c \in 0 .. rows * columns - 1
  <2>1. PICK more \in Nat : rows = r + 1 + more
    <3>1. rows - r - 1 \in Nat /\ rows = r + 1 + (rows - r - 1)
      OBVIOUS
    <3> QED BY <3>1
  <2>2. rows * columns = r * columns + columns + more * columns
        /\ r * columns \in Nat /\ more * columns \in Nat
    BY <2>1
  <2> QED BY <2>2
<1>3. ASSUME NEW r \in 0 .. rows - 1, NEW s \in 0 .. rows - 1, NEW c \in 0 .. columns - 1, NEW d \in 0 .. columns - 1,
             r * columns + c = s * columns + d
      PROVE  r = s /\ c = d
  <2>1. (r * columns + c) % columns = c /\ (s * columns + d) % columns = d
    BY ResidueIs
  <2>2. c = d
    BY <1>3, <2>1
  <2>3. r * columns = s * columns
    <3>1. r * columns \in Int /\ s * columns \in Int
      OBVIOUS
    <3> QED BY <1>3, <2>2, <3>1
  <2>4. (r - s) * columns = 0 /\ r - s \in Int
    BY <2>3
  <2>5. r = s
    BY <2>4
  <2> QED BY <2>2, <2>5
<1>4. ASSUME NEW index \in 0 .. rows * columns - 1
      PROVE  \E r \in 0 .. rows - 1, c \in 0 .. columns - 1 : index = r * columns + c
  <2> DEFINE r == index \div columns
             c == index % columns
             all == rows * columns
  <2>0. index \in Nat /\ index < all /\ all \in Nat
    BY <1>1
  <2>1. r \in Nat /\ c \in 0 .. columns - 1 /\ index = r * columns + c
    BY <2>0
  <2>2. r < rows
    <3> HIDE DEF r, c
    <3> SUFFICES ASSUME rows <= r PROVE FALSE
      BY <2>1
    <3>1. PICK more \in Nat : r = rows + more
      <4>1. r - rows \in Nat /\ r = rows + (r - rows)
        BY <2>1
      <4> QED BY <4>1
    <3>2. r * columns = all + more * columns /\ more * columns \in Nat
      BY <3>1
    <3> HIDE DEF all
    <3> QED BY <2>0, <2>1, <3>2
  <2> QED BY <2>1, <2>2
<1> QED BY <1>1, <1>2, <1>3, <1>4

-----------------------------------------------------------------------------
(* Matrices of a shape over a set of elements.                             *)

\* The row and the column of an index.
LEMMA PlaceOf ==
  ASSUME NEW rows \in Nat \ {0}, NEW columns \in Nat \ {0}, NEW index \in 0 .. rows * columns - 1
  PROVE  \E r \in 0 .. rows - 1 : \E c \in 0 .. columns - 1 : index = r * columns + c
<1> DEFINE size == rows * columns
           rest == 0 .. size - 1
<1>1. \A number \in rest : \E r \in 0 .. rows - 1, c \in 0 .. columns - 1 : number = r * columns + c
  BY Offsets, Zenon
<1>2. index \in rest
  OBVIOUS
<1> HIDE DEF rest
<1>3. \E r \in 0 .. rows - 1, c \in 0 .. columns - 1 : index = r * columns + c
  BY ONLY <1>1, <1>2, Zenon
<1> QED BY ONLY <1>3

Element == 0 .. Modulus - 1

\* A matrix of that shape with elements of that set.
MatricesOf(rows, columns, S) == {Matrices!Make(rows, columns, data) : data \in [0 .. rows * columns - 1 -> S]}

\* A matrix of a shape is its rows, its columns and its data.
LEMMA MatrixOfShape ==
  ASSUME NEW rows, NEW columns, NEW S, NEW a \in MatricesOf(rows, columns, S)
  PROVE  /\ a.rows = rows /\ a.columns = columns /\ a.data_ \in [0 .. rows * columns - 1 -> S]
         /\ a = Matrices!Make(rows, columns, a.data_)
BY DEF MatricesOf, Matrices!Make

\* Elements by row and column.
LEMMA ElementAt ==
  ASSUME NEW rows \in Nat \ {0}, NEW columns \in Nat \ {0}, NEW S, NEW a \in MatricesOf(rows, columns, S),
         NEW r \in 0 .. rows - 1, NEW c \in 0 .. columns - 1
  PROVE  /\ Matrices!At(a, r, c) = a.data_[r * columns + c] /\ Matrices!At(a, r, c) \in S
         /\ r * columns + c \in 0 .. rows * columns - 1
<1>1. r * columns + c \in 0 .. rows * columns - 1
  BY Offsets
<1>2. a.columns = columns /\ a.data_ \in [0 .. rows * columns - 1 -> S]
  BY MatrixOfShape
<1> QED BY <1>1, <1>2 DEF Matrices!At, Matrices!Offset

\* Matrices of one shape are the same if their elements are.
LEMMA SameElements ==
  ASSUME NEW rows \in Nat \ {0}, NEW columns \in Nat \ {0}, NEW S, NEW R,
         NEW a \in MatricesOf(rows, columns, S), NEW b \in MatricesOf(rows, columns, R),
         \A r \in 0 .. rows - 1, c \in 0 .. columns - 1 : Matrices!At(a, r, c) = Matrices!At(b, r, c)
  PROVE  a = b
<1>1. ASSUME NEW index \in 0 .. rows * columns - 1 PROVE a.data_[index] = b.data_[index]
  <2>1. PICK r \in 0 .. rows - 1 : \E c \in 0 .. columns - 1 : index = r * columns + c
    BY PlaceOf, Zenon
  <2>2. PICK c \in 0 .. columns - 1 : index = r * columns + c
    BY <2>1
  <2>3. Matrices!At(a, r, c) = a.data_[index] /\ Matrices!At(b, r, c) = b.data_[index]
    BY <2>2, ElementAt
  <2> QED BY <2>3
<1>2. /\ a = Matrices!Make(rows, columns, a.data_) /\ b = Matrices!Make(rows, columns, b.data_)
      /\ DOMAIN a.data_ = 0 .. rows * columns - 1 /\ DOMAIN b.data_ = 0 .. rows * columns - 1
      /\ a.data_ = [index \in 0 .. rows * columns - 1 |-> a.data_[index]]
      /\ b.data_ = [index \in 0 .. rows * columns - 1 |-> b.data_[index]]
  BY MatrixOfShape
<1>3. a.data_ = b.data_
  BY <1>1, <1>2, Zenon
<1> QED BY <1>2, <1>3, Zenon

\* That matrix with these elements in those places, and the others of another.
HoldsOver(b, a, rows, columns, S, places, cells) ==
  /\ b \in MatricesOf(rows, columns, S)
  /\ \A r \in 0 .. rows - 1, c \in 0 .. columns - 1 :
       Matrices!At(b, r, c) = IF <<r, c>> \in places THEN cells[<<r, c>>] ELSE Matrices!At(a, r, c)

\* What is stored is where it was stored, and the others are kept.
LEMMA Stored ==
  ASSUME NEW rows \in Nat \ {0}, NEW columns \in Nat \ {0}, NEW S, NEW a \in MatricesOf(rows, columns, S),
         NEW places \in SUBSET ((0 .. rows - 1) \X (0 .. columns - 1)), NEW cells \in [places -> S]
  PROVE  HoldsOver(Matrices!Put(a, cells), a, rows, columns, S, places, cells)
<1> DEFINE stored(index) == {p \in DOMAIN cells : Matrices!Offset(a, p[1], p[2]) = index}
           new == [index \in DOMAIN a.data_ |->
                     IF stored(index) = {} THEN a.data_[index] ELSE cells[CHOOSE p \in stored(index) : TRUE]]
           all == 0 .. rows * columns - 1
<1>1. /\ a.rows = rows /\ a.columns = columns /\ a.data_ \in [all -> S] /\ DOMAIN a.data_ = all /\ DOMAIN cells = places
      /\ a = Matrices!Make(rows, columns, a.data_)
  <2> HIDE DEF stored, new
  <2>1. /\ a.rows = rows /\ a.columns = columns /\ a.data_ \in [0 .. rows * columns - 1 -> S]
        /\ a = Matrices!Make(rows, columns, a.data_)
    BY MatrixOfShape
  <2>2. a.data_ \in [all -> S]
    BY <2>1
  <2> QED BY <2>1, <2>2
<1>2. Matrices!Put(a, cells) = Matrices!Make(rows, columns, new)
  <2>1. Matrices!Put(a, cells) = [a EXCEPT !.data_ = new]
    BY Zenon DEF Matrices!Put
  <2> HIDE DEF new
  <2> QED BY <1>1, <2>1, Zenon DEF Matrices!Make
<1>3. \A r \in 0 .. rows - 1, c \in 0 .. columns - 1 :
        /\ r * columns + c \in all /\ a.data_[r * columns + c] = Matrices!At(a, r, c)
  BY ElementAt
<1>4. ASSUME NEW r \in 0 .. rows - 1, NEW c \in 0 .. columns - 1
      PROVE  stored(r * columns + c) = IF <<r, c>> \in places THEN {<<r, c>>} ELSE {}
  <2>1. ASSUME NEW p \in stored(r * columns + c) PROVE p = <<r, c>> /\ p \in places
    <3>1. p \in places /\ p[1] * columns + p[2] = r * columns + c
      BY <1>1 DEF Matrices!Offset
    <3>2. PICK s \in 0 .. rows - 1, d \in 0 .. columns - 1 : p = <<s, d>>
      BY <3>1
    <3>3. s * columns + d = r * columns + c
      BY <3>1, <3>2
    <3>4. s = r /\ d = c
      BY <3>3, Offsets
    <3> QED BY <3>1, <3>2, <3>4
  <2>2. ASSUME <<r, c>> \in places PROVE <<r, c>> \in stored(r * columns + c)
    BY <1>1, <2>2 DEF Matrices!Offset
  <2> HIDE DEF stored
  <2> QED BY <2>1, <2>2, Zenon
<1>5. ASSUME NEW r \in 0 .. rows - 1, NEW c \in 0 .. columns - 1
      PROVE  new[r * columns + c] = IF <<r, c>> \in places THEN cells[<<r, c>>] ELSE Matrices!At(a, r, c)
  <2> DEFINE index == r * columns + c
  <2>1. index \in DOMAIN a.data_ /\ stored(index) = (IF <<r, c>> \in places THEN {<<r, c>>} ELSE {})
        /\ a.data_[index] = Matrices!At(a, r, c)
    BY <1>1, <1>3, <1>4, Zenon
  <2> HIDE DEF index
  <2>2. new[index] = IF stored(index) = {} THEN a.data_[index] ELSE cells[CHOOSE p \in stored(index) : TRUE]
    <3> HIDE DEF stored
    <3> QED BY <2>1
  <2> HIDE DEF new, stored
  <2>3. CASE <<r, c>> \in places
    <3>1. stored(index) = {<<r, c>>}
      BY <2>1, <2>3
    <3>2. (CHOOSE p \in {<<r, c>>} : TRUE) = <<r, c>>
      OBVIOUS
    <3>3. new[index] = cells[<<r, c>>]
      BY <2>2, <3>1, <3>2
    <3> QED BY <2>3, <3>3 DEF index
  <2>4. CASE <<r, c>> \notin places
    <3>1. new[index] = Matrices!At(a, r, c)
      BY <2>1, <2>2, <2>4
    <3> QED BY <2>4, <3>1 DEF index
  <2> QED BY <2>3, <2>4
<1>6. ASSUME NEW index \in all PROVE new[index] \in S
  <2>1. PICK r \in 0 .. rows - 1 : \E c \in 0 .. columns - 1 : index = r * columns + c
    BY PlaceOf, Zenon
  <2>2. PICK c \in 0 .. columns - 1 : index = r * columns + c
    BY <2>1
  <2>3. new[index] = IF <<r, c>> \in places THEN cells[<<r, c>>] ELSE Matrices!At(a, r, c)
    BY <1>5, <2>2, Zenon
  <2>4. Matrices!At(a, r, c) \in S
    BY ElementAt
  <2> HIDE DEF new
  <2> QED BY <2>3, <2>4
<1>7. new \in [all -> S]
  <2>1. DOMAIN new = all /\ new = [index \in all |-> new[index]]
    BY <1>1
  <2> HIDE DEF new
  <2> QED BY <1>6, <2>1
<1> HIDE DEF new
<1>8. Matrices!Put(a, cells) \in MatricesOf(rows, columns, S)
  BY <1>2, <1>7 DEF MatricesOf
<1>9. ASSUME NEW r \in 0 .. rows - 1, NEW c \in 0 .. columns - 1
      PROVE  Matrices!At(Matrices!Put(a, cells), r, c) = new[r * columns + c]
  BY <1>2, <1>8, ElementAt DEF Matrices!Make
<1> QED BY <1>5, <1>8, <1>9 DEF HoldsOver

\* That matrix with these elements in its cells.
Holds(a, rows, columns, S, cells) ==
  /\ a \in MatricesOf(rows, columns, S)
  /\ \A r \in 0 .. rows - 1, c \in 0 .. columns - 1 : Matrices!At(a, r, c) = cells[<<r, c>>]

\* A new matrix holds what is stored in each cell.
LEMMA Tabulated ==
  ASSUME NEW rows \in Nat \ {0}, NEW columns \in Nat \ {0}, NEW S, 0 \in S,
         NEW cells \in [Matrices!Cells(rows, columns) -> S]
  PROVE  Holds(Matrices!Tabulate(rows, columns, cells), rows, columns, S, cells)
<1> DEFINE zeros == Matrices!Make(rows, columns, [index \in Matrices!Indices(rows, columns) |-> 0])
           places == (0 .. rows - 1) \X (0 .. columns - 1)
<1>1. zeros \in MatricesOf(rows, columns, S)
  BY DEF MatricesOf, Matrices!Indices
<1>2. Matrices!Tabulate(rows, columns, cells) = Matrices!Put(zeros, cells)
  BY Zenon DEF Matrices!Tabulate
<1>3. places \in SUBSET ((0 .. rows - 1) \X (0 .. columns - 1)) /\ cells \in [places -> S]
  BY DEF Matrices!Cells
<1>4. \A r \in 0 .. rows - 1, c \in 0 .. columns - 1 : <<r, c>> \in places
  OBVIOUS
<1> HIDE DEF zeros, places
<1>5. HoldsOver(Matrices!Put(zeros, cells), zeros, rows, columns, S, places, cells)
  BY <1>1, <1>3, Stored
<1> QED BY <1>2, <1>4, <1>5 DEF Holds, HoldsOver

-----------------------------------------------------------------------------
(* The loops of the compound assignments.                                  *)

\* A matrix whose elements are replaced.
LEMMA Redone ==
  ASSUME NEW rows, NEW columns, NEW S, NEW R, NEW a \in MatricesOf(rows, columns, S),
         NEW data \in [0 .. rows * columns - 1 -> R]
  PROVE  /\ [a EXCEPT !.data_ = data] \in MatricesOf(rows, columns, R)
         /\ [a EXCEPT !.data_ = data].data_ = data
<1>1. [a EXCEPT !.data_ = data] = Matrices!Make(rows, columns, data)
  BY MatrixOfShape DEF Matrices!Make
<1> QED BY <1>1 DEF MatricesOf, Matrices!Make

\* T.
LEMMA ElementsOfT == Modulus \in Nat \ {0, 1} /\ Element = Matrices!T /\ Samples \subseteq Element
BY ValuesAssumption DEF Matrices!MatrixAssumption, Element, Matrices!T

\* An operator of T returns a T.
LEMMA AppliedInT ==
  ASSUME NEW op \in Matrices!Operators, NEW x \in Element, NEW y \in Element, op = "/" => y # 0
  PROVE  Matrices!Applied(op, x, y) \in Element
<1>1. Modulus \in Nat \ {0, 1} /\ x \in Int /\ y \in Int
  BY ElementsOfT DEF Element
<1>2. ASSUME NEW z \in Int PROVE z % Modulus \in Element
  BY <1>1, Residue DEF Element
<1>3. (x + y) % Modulus \in Element /\ (x - y) % Modulus \in Element /\ (x * y) % Modulus \in Element
  <2>1. x + y \in Int /\ x - y \in Int /\ x * y \in Int
    BY <1>1
  <2> QED BY <1>2, <2>1
<1>4. y # 0 => x \div y \in Element
  <2> SUFFICES ASSUME y # 0 PROVE x \div y \in Element
    OBVIOUS
  <2>1. x \in Nat /\ x < Modulus /\ y \in Nat \ {0}
    BY <1>1 DEF Element
  <2>2. PICK more \in Nat : y = 1 + more
    <3>1. y - 1 \in Nat /\ y = 1 + (y - 1)
      BY <2>1
    <3> QED BY <3>1
  <2> DEFINE q == x \div y
  <2>3. q \in Nat /\ y * q <= x
    BY <2>1
  <2> HIDE DEF q
  <2>4. y * q = q + more * q /\ more * q \in Nat
    BY <2>2, <2>3
  <2>5. q <= x
    BY <2>1, <2>3, <2>4
  <2> QED BY <1>1, <2>1, <2>3, <2>5 DEF q, Element
<1> QED BY <1>3, <1>4 DEF Matrices!Applied, Matrices!Operators

\* There are n places below n.
LEMMA HowManyBelow == ASSUME NEW n \in Nat PROVE Cardinality(0 .. n - 1) = n
<1>1. n - 1 \in Int
  OBVIOUS
<1>2. Cardinality(0 .. n - 1) = IF 0 > n - 1 THEN 0 ELSE n - 1 - 0 + 1
  BY <1>1, FS_Interval
<1> QED BY <1>2

\* The function the loop of a compound operator defines, up to that size.
Loops(op, objects, target, left, right, size, h) ==
  h = [n \in 0 .. size |->
         IF n = 0 THEN objects ELSE Matrices!Combine(op, h[n - 1], target, n - 1, left[n - 1], right[n - 1])]

Unfolded(op, objects, target, left, right, size, h) ==
  /\ h[0] = objects
  /\ \A n \in 1 .. size : h[n] = Matrices!Combine(op, h[n - 1], target, n - 1, left[n - 1], right[n - 1])

\* The states of the loop follow each other, one application each.
LEMMA LoopsUnfold ==
  ASSUME NEW op, NEW objects, NEW target, NEW left, NEW right, NEW size \in Nat, NEW h,
         Loops(op, objects, target, left, right, size, h)
  PROVE  Unfolded(op, objects, target, left, right, size, h)
<1>1. h[0] = objects
  BY DEF Loops
<1>2. ASSUME NEW n \in 1 .. size
      PROVE  h[n] = Matrices!Combine(op, h[n - 1], target, n - 1, left[n - 1], right[n - 1])
  <2>1. n \in 0 .. size /\ n # 0
    OBVIOUS
  <2> QED BY <2>1, Zenon DEF Loops
<1> QED BY <1>1, <1>2 DEF Unfolded

\* A loop has as many states as it has elements.
LEMMA LoopsExist ==
  ASSUME NEW op, NEW objects, NEW target, NEW left, NEW right, NEW size \in Nat
  PROVE  \E h : Loops(op, objects, target, left, right, size, h)
<1> DEFINE H == {k \in 0 .. size : \E h : Loops(op, objects, target, left, right, k, h)}
<1>1. 0 \in H
  <2>1. Loops(op, objects, target, left, right, 0, [n \in 0 .. 0 |-> objects])
    BY DEF Loops
  <2> QED BY <2>1
<1>2. ASSUME NEW k \in 1 .. size, k - 1 \in H PROVE k \in H
  <2>1. PICK h : Loops(op, objects, target, left, right, k - 1, h)
    BY <1>2
  <2> DEFINE last == Matrices!Combine(op, h[k - 1], target, k - 1, left[k - 1], right[k - 1])
             g == [n \in 0 .. k |-> IF n = k THEN last ELSE h[n]]
  <2>2. ASSUME NEW n \in 0 .. k
        PROVE  g[n] = IF n = 0 THEN objects
                      ELSE Matrices!Combine(op, g[n - 1], target, n - 1, left[n - 1], right[n - 1])
    <3>1. CASE n = 0
      <4>1. g[n] = h[0] /\ 0 \in 0 .. k - 1
        BY <3>1
      <4> QED BY <2>1, <3>1, <4>1 DEF Loops
    <3>2. CASE n \in 1 .. k - 1
      <4>1. g[n] = h[n] /\ g[n - 1] = h[n - 1] /\ n \in 0 .. k - 1 /\ n # 0
        BY <3>2
      <4> HIDE DEF g
      <4> QED BY <2>1, <4>1, Zenon DEF Loops
    <3>3. CASE n = k
      <4>1. g[k] = last /\ g[k - 1] = h[k - 1]
        <5> HIDE DEF last
        <5> QED OBVIOUS
      <4> HIDE DEF g
      <4> QED BY <3>3, <4>1
    <3> QED BY <3>1, <3>2, <3>3
  <2>3. g = [n \in 0 .. k |-> g[n]]
    <3> HIDE DEF last
    <3> QED OBVIOUS
  <2> HIDE DEF g
  <2>4. Loops(op, objects, target, left, right, k, g)
    BY <2>2, <2>3, Zenon DEF Loops
  <2> QED BY <2>4
<1> HIDE DEF H
<1>3. size \in H
  BY <1>1, <1>2, UpTheNumbers
<1> QED BY <1>3 DEF H

\* The references are to elements of the objects.
WorksOn(size, objects, target, left, right) ==
  /\ target \in DOMAIN objects /\ objects = [object \in DOMAIN objects |-> objects[object]]
  /\ DOMAIN objects[target] = 0 .. size - 1
  /\ objects[target] = [place \in 0 .. size - 1 |-> objects[target][place]]
  /\ \A place \in 0 .. size - 1 :
       /\ left[place][1] \in DOMAIN objects /\ right[place][1] \in DOMAIN objects
       /\ left[place][1] = target => left[place][2] \in 0 .. size - 1
       /\ right[place][1] = target => right[place][2] \in 0 .. size - 1

\* What a reference reads at that place's turn, the places of the target before it done.
ReadAt(objects, target, done, place, reference) ==
  IF reference[1] = target /\ reference[2] < place THEN done[reference[2]]
  ELSE objects[reference[1]][reference[2]]

DoneInTurn(op, size, objects, target, left, right, done) ==
  /\ DOMAIN done = 0 .. size - 1 /\ done = [place \in 0 .. size - 1 |-> done[place]]
  /\ \A place \in 0 .. size - 1 :
       done[place] = Matrices!Applied(op, ReadAt(objects, target, done, place, left[place]),
                                          ReadAt(objects, target, done, place, right[place]))

\* The objects after so many turns.
DoneSoFar(size, objects, target, done, n) ==
  [objects EXCEPT ![target] = [place \in 0 .. size - 1 |-> IF place < n THEN done[place] ELSE objects[target][place]]]

\* A reference read from the objects after so many turns.
LEMMA ReadSoFar ==
  ASSUME NEW size \in Nat, NEW objects, NEW target \in DOMAIN objects, NEW done, NEW n \in 0 .. size - 1, NEW reference,
         reference[1] \in DOMAIN objects, reference[1] = target => reference[2] \in 0 .. size - 1
  PROVE  DoneSoFar(size, objects, target, done, n)[reference[1]][reference[2]] =
           ReadAt(objects, target, done, n, reference)
<1> DEFINE object == reference[1]
           index == reference[2]
           part == [place \in 0 .. size - 1 |-> IF place < n THEN done[place] ELSE objects[target][place]]
<1>1. CASE object = target
  <2>1. index \in 0 .. size - 1
    BY <1>1
  <2>2. DoneSoFar(size, objects, target, done, n)[object] = part
    <3> HIDE DEF part
    <3>1. [objects EXCEPT ![target] = part][target] = part
      OBVIOUS
    <3> QED BY <1>1, <3>1, Zenon DEF DoneSoFar, part
  <2>3. part[index] = IF index < n THEN done[index] ELSE objects[target][index]
    BY <2>1, Zenon
  <2> HIDE DEF part
  <2>4. ReadAt(objects, target, done, n, reference) = part[index]
    BY <1>1, <2>3, Zenon DEF ReadAt
  <2> QED BY <2>2, <2>4, Zenon
<1>2. CASE object # target
  <2>1. DoneSoFar(size, objects, target, done, n)[object] = objects[object]
    <3> HIDE DEF part
    <3>1. [objects EXCEPT ![target] = part][object] = objects[object]
      BY <1>2
    <3> QED BY <3>1, Zenon DEF DoneSoFar, part
  <2> QED BY <1>2, <2>1, Zenon DEF ReadAt
<1> QED BY <1>1, <1>2

\* One more turn.
LEMMA OneMoreDone ==
  ASSUME NEW op, NEW size \in Nat, NEW objects, NEW target, NEW left, NEW right, NEW done,
         WorksOn(size, objects, target, left, right), DoneInTurn(op, size, objects, target, left, right, done),
         NEW n \in 0 .. size - 1
  PROVE  Matrices!Combine(op, DoneSoFar(size, objects, target, done, n), target, n, left[n], right[n])
           = DoneSoFar(size, objects, target, done, n + 1)
<1> DEFINE part(k) == [place \in 0 .. size - 1 |-> IF place < k THEN done[place] ELSE objects[target][place]]
           so == DoneSoFar(size, objects, target, done, n)
<1>1. target \in DOMAIN objects /\ DOMAIN objects[target] = 0 .. size - 1
  BY Zenon DEF WorksOn
<1>2. /\ so[left[n][1]][left[n][2]] = ReadAt(objects, target, done, n, left[n])
      /\ so[right[n][1]][right[n][2]] = ReadAt(objects, target, done, n, right[n])
  <2>1. /\ left[n][1] \in DOMAIN objects /\ right[n][1] \in DOMAIN objects
        /\ left[n][1] = target => left[n][2] \in 0 .. size - 1
        /\ right[n][1] = target => right[n][2] \in 0 .. size - 1
    BY Zenon DEF WorksOn
  <2> QED BY <1>1, <2>1, ReadSoFar
<1>3. Matrices!Applied(op, so[left[n][1]][left[n][2]], so[right[n][1]][right[n][2]]) = done[n]
  <2> HIDE DEF so
  <2> QED BY <1>2, Zenon DEF DoneInTurn
<1>4. so = [objects EXCEPT ![target] = part(n)]
  BY Zenon DEF DoneSoFar
<1>5. so[target] = part(n)
  <2> HIDE DEF part, so
  <2> QED BY <1>1, <1>4
<1>6. [part(n) EXCEPT ![n] = done[n]] = part(n + 1)
  <2>1. ASSUME NEW place \in 0 .. size - 1
        PROVE  [part(n) EXCEPT ![n] = done[n]][place] = part(n + 1)[place]
    OBVIOUS
  <2> QED BY <2>1, Zenon
<1>7. Matrices!Combine(op, so, target, n, left[n], right[n])
        = [so EXCEPT ![target] = [so[target] EXCEPT ![n] = done[n]]]
  <2> HIDE DEF so
  <2> QED BY <1>3, Zenon DEF Matrices!Combine
<1>8. [so EXCEPT ![target] = part(n + 1)] = [objects EXCEPT ![target] = part(n + 1)]
  <2> HIDE DEF part, so
  <2> QED BY <1>1, <1>4
<1>9. DoneSoFar(size, objects, target, done, n + 1) = [objects EXCEPT ![target] = part(n + 1)]
  BY Zenon DEF DoneSoFar
<1> HIDE DEF part, so
<1> QED BY <1>5, <1>6, <1>7, <1>8, <1>9 DEF so

\* The last state of the loop has every element done in its turn.
LEMMA LoopedSo ==
  ASSUME NEW op, NEW size \in Nat, NEW objects, NEW target, NEW left, NEW right, NEW done,
         WorksOn(size, objects, target, left, right), DoneInTurn(op, size, objects, target, left, right, done),
         NEW h, Loops(op, objects, target, left, right, size, h)
  PROVE  h[size][target] = done
<1> DEFINE so(n) == DoneSoFar(size, objects, target, done, n)
           H == {n \in 0 .. size : h[n] = so(n)}
<1>0. /\ target \in DOMAIN objects /\ objects = [object \in DOMAIN objects |-> objects[object]]
      /\ objects[target] = [place \in 0 .. size - 1 |-> objects[target][place]]
      /\ done = [place \in 0 .. size - 1 |-> done[place]]
  BY Zenon DEF WorksOn, DoneInTurn
<1>1. Unfolded(op, objects, target, left, right, size, h)
  BY LoopsUnfold
<1>2. 0 \in H
  <2>1. [place \in 0 .. size - 1 |-> IF place < 0 THEN done[place] ELSE objects[target][place]]
          = [place \in 0 .. size - 1 |-> objects[target][place]]
    OBVIOUS
  <2>2. so(0) = [objects EXCEPT ![target] = objects[target]]
    BY <1>0, <2>1, Zenon DEF DoneSoFar
  <2>3. so(0) = objects
    <3> HIDE DEF so
    <3> QED BY <1>0, <2>2
  <2>4. h[0] = so(0)
    BY <1>1, <2>3, Zenon DEF Unfolded
  <2> QED BY <2>4
<1>3. ASSUME NEW n \in 1 .. size, n - 1 \in H PROVE n \in H
  <2>1. h[n - 1] = so(n - 1) /\ n - 1 \in 0 .. size - 1 /\ n - 1 + 1 = n
    BY <1>3
  <2>2. h[n] = Matrices!Combine(op, so(n - 1), target, n - 1, left[n - 1], right[n - 1])
    BY <1>1, <2>1, Zenon DEF Unfolded
  <2>3. Matrices!Combine(op, so(n - 1), target, n - 1, left[n - 1], right[n - 1]) = so(n - 1 + 1)
    <3>1. \A k \in 0 .. size - 1 : Matrices!Combine(op, so(k), target, k, left[k], right[k]) = so(k + 1)
      BY OneMoreDone
    <3> HIDE DEF so
    <3> QED BY <2>1, <3>1, Zenon
  <2> HIDE DEF so
  <2> QED BY <2>1, <2>2, <2>3
<1>4. h[size] = so(size)
  <2> HIDE DEF H
  <2>1. size \in H
    BY <1>2, <1>3, UpTheNumbers
  <2> QED BY <2>1 DEF H
<1>5. [place \in 0 .. size - 1 |-> IF place < size THEN done[place] ELSE objects[target][place]] = done
  BY <1>0
<1>6. so(size)[target] = done
  <2>1. so(size) = [objects EXCEPT ![target] = done]
    BY <1>5, Zenon DEF DoneSoFar
  <2> HIDE DEF so
  <2> QED BY <1>0, <2>1
<1> QED BY <1>4, <1>6

\* What the loop of a compound operator leaves: each element done in its turn.
LEMMA Looped ==
  ASSUME NEW op, NEW size \in Nat, NEW objects, NEW target, NEW left, NEW right, NEW done,
         WorksOn(size, objects, target, left, right), DoneInTurn(op, size, objects, target, left, right, done)
  PROVE  Matrices!Loop(op, objects, target, left, right) = done
<1> DEFINE h == CHOOSE g : Loops(op, objects, target, left, right, size, g)
<1>1. Loops(op, objects, target, left, right, size, h)
  BY LoopsExist, Zenon
<1>2. Matrices!Cardinality(DOMAIN objects[target]) = size
  <2>1. Matrices!Cardinality(0 .. size - 1) = Cardinality(0 .. size - 1)
    BY Zenon DEF Matrices!Cardinality, Cardinality
  <2>2. Cardinality(0 .. size - 1) = size
    BY HowManyBelow
  <2>3. DOMAIN objects[target] = 0 .. size - 1
    BY Zenon DEF WorksOn
  <2> QED BY <2>1, <2>2, <2>3
<1>3. Matrices!Loop(op, objects, target, left, right) = h[size][target]
  <2>1. Matrices!Loop(op, objects, target, left, right) =
          (CHOOSE g : Loops(op, objects, target, left, right, Matrices!Cardinality(DOMAIN objects[target]), g))
            [Matrices!Cardinality(DOMAIN objects[target])][target]
    BY Zenon DEF Matrices!Loop, Loops
  <2> QED BY ONLY <1>2, <2>1, Zenon DEF h
<1> HIDE DEF h
<1>4. h[size][target] = done
  BY <1>1, LoopedSo
<1> QED BY <1>3, <1>4

-----------------------------------------------------------------------------
(* What the compound assignments compute.                                  *)

\* The shapes of the instantiations.
LEMMA ShapesAre == ASSUME NEW shape \in Shapes PROVE shape[1] \in Nat \ {0} /\ shape[2] \in Nat \ {0}
BY ValuesAssumption DEF Matrices!MatrixAssumption

\* The loop works on a matrix and a copy, whichever elements of them are its operands.
LEMMA WorksOnCopies ==
  ASSUME NEW rows \in Nat \ {0}, NEW columns \in Nat \ {0}, NEW a \in MatricesOf(rows, columns, Element),
         NEW target \in {"original", "copy"},
         NEW left \in [0 .. rows * columns - 1 -> {"original", "copy"} \X (0 .. rows * columns - 1)],
         NEW right \in [0 .. rows * columns - 1 -> {"original", "copy"} \X (0 .. rows * columns - 1)]
  PROVE  WorksOn(rows * columns, Matrices!Copied(a), target, left, right)
<1> DEFINE all == 0 .. rows * columns - 1
           both == {"original", "copy"}
<1>1. DOMAIN a.data_ = all /\ a.data_ = [place \in all |-> a.data_[place]]
  <2>1. a.data_ \in [0 .. rows * columns - 1 -> Element]
    BY MatrixOfShape
  <2> QED BY <2>1
<1>2. DOMAIN Matrices!Copied(a) = both /\ Matrices!Copied(a)[target] = a.data_
      /\ Matrices!Copied(a) = [object \in both |-> Matrices!Copied(a)[object]]
  BY DEF Matrices!Copied
<1>3. ASSUME NEW place \in all
      PROVE  left[place][1] \in both /\ right[place][1] \in both /\ left[place][2] \in all /\ right[place][2] \in all
  OBVIOUS
<1>4. target \in both
  OBVIOUS
<1> HIDE DEF all, both
<1> QED BY <1>1, <1>2, <1>3, <1>4, Zenon DEF WorksOn, all

\* An object of a matrix and its copy.
LEMMA EitherCopy ==
  ASSUME NEW a, NEW object \in {"original", "copy"} PROVE Matrices!Copied(a)[object] = a.data_
BY DEF Matrices!Copied

\* The references of the loops are to elements of the matrix or of its copy.
LEMMA EachIs ==
  ASSUME NEW all, NEW a, DOMAIN a.data_ = all, NEW object \in {"original", "copy"}
  PROVE  /\ Matrices!Each(a, object) \in [all -> {"original", "copy"} \X all]
         /\ \A place \in all : Matrices!Each(a, object)[place] = <<object, place>>
<1>1. Matrices!Each(a, object) = [place \in all |-> <<object, place>>]
  BY Zenon DEF Matrices!Each
<1> QED BY <1>1

LEMMA OneIs ==
  ASSUME NEW all, NEW a, DOMAIN a.data_ = all, NEW object \in {"original", "copy"}, NEW k \in all
  PROVE  /\ Matrices!One(a, object, k) \in [all -> {"original", "copy"} \X all]
         /\ \A place \in all : Matrices!One(a, object, k)[place] = <<object, k>>
<1>1. Matrices!One(a, object, k) = [place \in all |-> <<object, k>>]
  BY Zenon DEF Matrices!One
<1> QED BY <1>1

\* An element that the loop has not changed, or not yet.
LEMMA NotChangedYet ==
  ASSUME NEW a, NEW object \in {"original", "copy"}, NEW target, NEW done, NEW place \in Int, NEW index \in Int,
         object # target \/ place <= index
  PROVE  ReadAt(Matrices!Copied(a), target, done, place, <<object, index>>) = a.data_[index]
<1>1. ~(object = target /\ index < place)
  OBVIOUS
<1>2. <<object, index>>[1] = object /\ <<object, index>>[2] = index
  OBVIOUS
<1> QED BY <1>1, <1>2, EitherCopy, Zenon DEF ReadAt

\* Combined with a value.
LEMMA CombinedWithValue ==
  ASSUME NEW rows \in Nat \ {0}, NEW columns \in Nat \ {0}, NEW a \in MatricesOf(rows, columns, Element),
         NEW op \in Matrices!Operators, NEW y \in Element, Matrices!Defined(op, {y})
  PROVE  Matrices!CompoundScalar(op, a, y) \in MatricesOf(rows, columns, Element)
<1> DEFINE size == rows * columns
           all == 0 .. size - 1
           objects == Matrices!Beside(a, y)
           left == Matrices!Each(a, "original")
           right == Matrices!One(a, "value", 0)
           done == [place \in all |-> Matrices!Applied(op, a.data_[place], y)]
<1>0. size \in Nat
  OBVIOUS
<1>1. a.data_ \in [all -> Element] /\ DOMAIN a.data_ = all
  <2>1. a.data_ \in [0 .. rows * columns - 1 -> Element]
    BY MatrixOfShape
  <2> QED BY <2>1
<1> HIDE DEF size
<1>2. done \in [all -> Element]
  <2>1. ASSUME NEW place \in all PROVE Matrices!Applied(op, a.data_[place], y) \in Element
    <3>1. a.data_[place] \in Element /\ (op = "/" => y # 0)
      BY <1>1, Zenon DEF Matrices!Defined
    <3> QED BY <3>1, AppliedInT
  <2> QED BY <2>1
<1>3. /\ objects = [object \in {"original", "value"} |-> objects[object]]
      /\ DOMAIN objects = {"original", "value"}
      /\ objects["original"] = a.data_ /\ objects["value"][0] = y
  <2>1. objects["original"] = a.data_ /\ objects["value"] = [k \in {0} |-> y]
    BY DEF Matrices!Beside
  <2>2. objects = [object \in {"original", "value"} |-> objects[object]] /\ DOMAIN objects = {"original", "value"}
    BY Zenon DEF Matrices!Beside
  <2> HIDE DEF objects
  <2> QED BY <2>1, <2>2
<1>4. \A place \in all : left[place] = <<"original", place>> /\ right[place] = <<"value", 0>>
  <2> HIDE DEF all
  <2> QED BY <1>1, Zenon DEF Matrices!Each, Matrices!One
<1>5. a.data_ = [place \in all |-> a.data_[place]]
  BY <1>1
<1> HIDE DEF objects, left, right
<1>6. WorksOn(size, objects, "original", left, right)
  <2>1. \A place \in all : left[place][1] = "original" /\ left[place][2] = place /\ right[place][1] = "value"
    BY <1>4
  <2> QED BY <1>1, <1>3, <1>5, <2>1, Zenon DEF WorksOn
<1>7. ASSUME NEW place \in all
      PROVE  /\ ReadAt(objects, "original", done, place, left[place]) = a.data_[place]
             /\ ReadAt(objects, "original", done, place, right[place]) = y
  <2>1. ~(place < place) /\ "value" # "original"
    BY <1>0
  <2> HIDE DEF done, all
  <2> QED BY <1>3, <1>4, <2>1 DEF ReadAt
<1>8. DoneInTurn(op, size, objects, "original", left, right, done)
  <2>1. DOMAIN done = all /\ done = [place \in all |-> done[place]]
    OBVIOUS
  <2>2. \A place \in all : done[place] = Matrices!Applied(op, a.data_[place], y)
    OBVIOUS
  <2> HIDE DEF done
  <2> QED BY <1>7, <2>1, <2>2, Zenon DEF DoneInTurn
<1>9. Matrices!Loop(op, objects, "original", left, right) = done
  <2> HIDE DEF done
  <2> QED BY <1>0, <1>6, <1>8, Looped
<1>10. [a EXCEPT !.data_ = done] \in MatricesOf(rows, columns, Element)
  <2> HIDE DEF done
  <2> QED BY <1>2, Redone DEF size
<1> QED BY <1>9, <1>10, Zenon DEF Matrices!CompoundScalar, objects, left, right

\* Two lists of values combined place by place.
PlaceByPlace(op, x, y) == [place \in DOMAIN x |-> Matrices!Applied(op, x[place], y[place])]

\* That matrix, with these values combined.
Combines(made, rows, columns, op, x, y) ==
  /\ made \in MatricesOf(rows, columns, Element)
  /\ \A place \in 0 .. rows * columns - 1 : made.data_[place] = Matrices!Applied(op, x[place], y[place])

\* A loop over a matrix or its copy combines what its references read in turn.
LEMMA CopiesCombine ==
  ASSUME NEW rows \in Nat \ {0}, NEW columns \in Nat \ {0}, NEW a \in MatricesOf(rows, columns, Element),
         NEW op \in Matrices!Operators, NEW target \in {"original", "copy"},
         NEW left \in [0 .. rows * columns - 1 -> {"original", "copy"} \X (0 .. rows * columns - 1)],
         NEW right \in [0 .. rows * columns - 1 -> {"original", "copy"} \X (0 .. rows * columns - 1)],
         NEW x \in [0 .. rows * columns - 1 -> Element], NEW y \in [0 .. rows * columns - 1 -> Element],
         op = "/" => \A place \in 0 .. rows * columns - 1 : y[place] # 0,
         \A place \in 0 .. rows * columns - 1 :
           /\ ReadAt(Matrices!Copied(a), target, PlaceByPlace(op, x, y), place, left[place]) = x[place]
           /\ ReadAt(Matrices!Copied(a), target, PlaceByPlace(op, x, y), place, right[place]) = y[place]
  PROVE  Combines([a EXCEPT !.data_ = Matrices!Loop(op, Matrices!Copied(a), target, left, right)], rows, columns, op, x, y)
<1> DEFINE size == rows * columns
           all == 0 .. size - 1
           done == PlaceByPlace(op, x, y)
<1>1. size \in Nat
  OBVIOUS
<1>2. WorksOn(size, Matrices!Copied(a), target, left, right)
  BY WorksOnCopies
<1> HIDE DEF size
<1>3. done = [place \in all |-> Matrices!Applied(op, x[place], y[place])]
  <2>1. DOMAIN x = all
    BY DEF size
  <2> QED BY <2>1, Zenon DEF PlaceByPlace
<1>4. done \in [all -> Element]
  <2>1. ASSUME NEW place \in all PROVE Matrices!Applied(op, x[place], y[place]) \in Element
    <3>1. x[place] \in Element /\ y[place] \in Element /\ (op = "/" => y[place] # 0)
      BY DEF size
    <3> QED BY <3>1, AppliedInT
  <2> HIDE DEF all, done
  <2> QED BY <1>3, <2>1
<1>5. DoneInTurn(op, size, Matrices!Copied(a), target, left, right, done)
  <2>1. DOMAIN done = all /\ done = [place \in all |-> done[place]]
    BY <1>4
  <2>2. ASSUME NEW place \in all PROVE done[place] = Matrices!Applied(op, x[place], y[place])
    <3> HIDE DEF all, done
    <3> QED BY <1>3
  <2>3. \A place \in all : /\ ReadAt(Matrices!Copied(a), target, done, place, left[place]) = x[place]
                           /\ ReadAt(Matrices!Copied(a), target, done, place, right[place]) = y[place]
    BY Zenon DEF size
  <2> HIDE DEF done
  <2> QED BY <2>1, <2>2, <2>3, Zenon DEF DoneInTurn
<1>6. /\ [a EXCEPT !.data_ = Matrices!Loop(op, Matrices!Copied(a), target, left, right)] \in MatricesOf(rows, columns, Element)
      /\ [a EXCEPT !.data_ = Matrices!Loop(op, Matrices!Copied(a), target, left, right)].data_ = done
  <2> HIDE DEF done
  <2>1. Matrices!Loop(op, Matrices!Copied(a), target, left, right) = done
    BY <1>1, <1>2, <1>5, Looped
  <2>2. [a EXCEPT !.data_ = done] \in MatricesOf(rows, columns, Element) /\ [a EXCEPT !.data_ = done].data_ = done
    BY <1>4, Redone DEF size
  <2> QED BY <2>1, <2>2, Zenon
<1>7. ASSUME NEW place \in all PROVE done[place] = Matrices!Applied(op, x[place], y[place])
  <2> HIDE DEF all, done
  <2> QED BY <1>3
<1> HIDE DEF done
<1> QED BY <1>6, <1>7, Zenon DEF Combines, size

\* The elements of a matrix that is divided by, or by one of them.
LEMMA ElementsAre ==
  ASSUME NEW rows, NEW columns, NEW a \in MatricesOf(rows, columns, Element), NEW op
  PROVE  /\ a.data_ \in [0 .. rows * columns - 1 -> Element] /\ DOMAIN a.data_ = 0 .. rows * columns - 1
         /\ Matrices!Defined(op, Matrices!Values(a)) =>
              (op = "/" => \A place \in 0 .. rows * columns - 1 : a.data_[place] # 0)
         /\ \A k \in 0 .. rows * columns - 1 : Matrices!Defined(op, {a.data_[k]}) => (op = "/" => a.data_[k] # 0)
<1>1. a.data_ \in [0 .. rows * columns - 1 -> Element]
  BY MatrixOfShape
<1>2. DOMAIN a.data_ = 0 .. rows * columns - 1
  BY <1>1
<1> QED BY <1>1, <1>2, Zenon DEF Matrices!Defined, Matrices!Values

\* Combined with itself: every element is its own operand, at its turn.
LEMMA CombinedWithItself ==
  ASSUME NEW rows \in Nat \ {0}, NEW columns \in Nat \ {0}, NEW a \in MatricesOf(rows, columns, Element),
         NEW op \in Matrices!Operators, Matrices!Defined(op, Matrices!Values(a))
  PROVE  Combines(Matrices!CompoundSelf(op, a), rows, columns, op, a.data_, a.data_)
<1> DEFINE all == 0 .. rows * columns - 1
           each == Matrices!Each(a, "original")
<1>1. a.data_ \in [all -> Element] /\ (op = "/" => \A place \in all : a.data_[place] # 0)
  BY ElementsAre
<1>2. each \in [all -> {"original", "copy"} \X all] /\ \A place \in all : each[place] = <<"original", place>>
  <2>1. DOMAIN a.data_ = all
    BY ElementsAre
  <2> HIDE DEF all, each
  <2> QED BY <2>1, EachIs DEF each
<1>3. ASSUME NEW place \in all
      PROVE  ReadAt(Matrices!Copied(a), "original", PlaceByPlace(op, a.data_, a.data_), place, each[place]) = a.data_[place]
  <2> HIDE DEF each
  <2> QED BY <1>2, NotChangedYet
<1> HIDE DEF each
<1>4. Combines([a EXCEPT !.data_ = Matrices!Loop(op, Matrices!Copied(a), "original", each, each)],
               rows, columns, op, a.data_, a.data_)
  BY <1>1, <1>2, <1>3, CopiesCombine
<1> QED BY <1>4, Zenon DEF Matrices!CompoundSelf, each

\* The operand at each place of m @= m[k]: the loop has changed m[k] once it is past k.
OperandAt(a, op, k) ==
  [place \in DOMAIN a.data_ |-> IF place <= k THEN a.data_[k] ELSE Matrices!Applied(op, a.data_[k], a.data_[k])]

\* Combined with an element of itself: those before it and itself with what it is at
\* the call, those after it with what it has become.
LEMMA CombinedWithElement ==
  ASSUME NEW rows \in Nat \ {0}, NEW columns \in Nat \ {0}, NEW a \in MatricesOf(rows, columns, Element),
         NEW op \in Matrices!Operators, NEW k \in 0 .. rows * columns - 1, Matrices!Defined(op, {a.data_[k]})
  PROVE  Combines(Matrices!CompoundAliased(op, a, k), rows, columns, op, a.data_, OperandAt(a, op, k))
<1> DEFINE all == 0 .. rows * columns - 1
           data == a.data_
           own == Matrices!Applied(op, data[k], data[k])
           y == OperandAt(a, op, k)
           each == Matrices!Each(a, "original")
           one == Matrices!One(a, "original", k)
<1>1. data \in [all -> Element] /\ DOMAIN data = all /\ data[k] \in Element /\ (op = "/" => data[k] # 0)
  BY ElementsAre
<1>2. own \in Element /\ (op = "/" => own # 0)
  <2>1. own \in Element
    <3> HIDE DEF data
    <3> QED BY <1>1, AppliedInT
  <2>2. ASSUME op = "/" PROVE own # 0
    <3>1. own = data[k] \div data[k]
      BY <2>2 DEF Matrices!Applied
    <3> DEFINE x == data[k]
    <3>2. x \in Nat \ {0}
      BY <1>1, <2>2, ElementsOfT DEF Element
    <3> HIDE DEF x
    <3>3. x \div x # 0
      <4>1. x \div x \in Int /\ x = x * (x \div x) + (x % x) /\ x % x < x /\ x % x \in Int
        BY <3>2
      <4> DEFINE q == x \div x
                 r == x % x
      <4>2. x = x * q + r /\ r < x /\ r \in Int
        BY <4>1
      <4> HIDE DEF q, r
      <4>3. ASSUME q = 0 PROVE FALSE
        <5>1. x * q = 0
          BY <3>2, <4>3
        <5> QED BY <3>2, <4>2, <5>1
      <4> QED BY <4>3 DEF q
    <3> QED BY <3>1, <3>3 DEF x
  <2> QED BY <2>1, <2>2
<1>3. y = [place \in all |-> IF place <= k THEN data[k] ELSE own]
  <2> HIDE DEF all
  <2> QED BY <1>1, Zenon DEF OperandAt
<1>4. /\ each \in [all -> {"original", "copy"} \X all] /\ one \in [all -> {"original", "copy"} \X all]
      /\ \A place \in all : each[place] = <<"original", place>> /\ one[place] = <<"original", k>>
  <2>1. each \in [all -> {"original", "copy"} \X all] /\ \A place \in all : each[place] = <<"original", place>>
    <3> HIDE DEF all, each
    <3> QED BY <1>1, EachIs DEF each
  <2>2. one \in [all -> {"original", "copy"} \X all] /\ \A place \in all : one[place] = <<"original", k>>
    <3>1. k \in all
      OBVIOUS
    <3> HIDE DEF all, one
    <3> QED BY <1>1, <3>1, OneIs DEF one
  <2> QED BY <2>1, <2>2, Zenon
<1> HIDE DEF y, each, one, own
<1>5. y \in [all -> Element] /\ (op = "/" => \A place \in all : y[place] # 0)
  <2> HIDE DEF data, all
  <2> QED BY <1>1, <1>2, <1>3
<1>6. \A place \in all : y[place] = IF place <= k THEN data[k] ELSE own
  <2> HIDE DEF data, all
  <2> QED BY <1>3
<1> DEFINE done == PlaceByPlace(op, data, y)
<1>7. done[k] = own
  <2>1. k \in all /\ y[k] = data[k]
    BY <1>6
  <2> HIDE DEF data, all
  <2> QED BY <1>1, <2>1, Zenon DEF PlaceByPlace, own
<1> HIDE DEF done
<1>8. ASSUME NEW place \in all
      PROVE  /\ ReadAt(Matrices!Copied(a), "original", done, place, each[place]) = data[place]
             /\ ReadAt(Matrices!Copied(a), "original", done, place, one[place]) = y[place]
  <2>1. ReadAt(Matrices!Copied(a), "original", done, place, each[place]) = data[place]
    BY <1>4, NotChangedYet
  <2>2. CASE place <= k
    <3>1. ReadAt(Matrices!Copied(a), "original", done, place, <<"original", k>>) = data[k]
      <4>1. place \in Int /\ k \in Int
        OBVIOUS
      <4> HIDE DEF all
      <4> QED BY <2>2, <4>1, NotChangedYet
    <3>2. one[place] = <<"original", k>> /\ y[place] = data[k]
      BY <1>4, <1>6, <2>2, Zenon
    <3> QED BY <2>1, <3>1, <3>2, Zenon
  <2>3. CASE ~(place <= k)
    <3>1. k < place /\ one[place] = <<"original", k>>
      <4>1. k < place
        BY <2>3
      <4> QED BY <1>4, <4>1, Zenon
    <3>2. ReadAt(Matrices!Copied(a), "original", done, place, one[place]) = done[k]
      <4> HIDE DEF all, data
      <4>1. <<"original", k>>[1] = "original" /\ <<"original", k>>[2] = k
        OBVIOUS
      <4> QED BY <3>1, <4>1, Zenon DEF ReadAt
    <3>3. y[place] = own
      BY <1>6, <2>3, Zenon
    <3> QED BY <1>7, <2>1, <3>2, <3>3, Zenon
  <2> QED BY <2>1, <2>2, <2>3
<1>9. Combines([a EXCEPT !.data_ = Matrices!Loop(op, Matrices!Copied(a), "original", each, one)],
               rows, columns, op, data, y)
  BY <1>1, <1>4, <1>5, <1>8, CopiesCombine DEF done
<1> QED BY <1>9, Zenon DEF Matrices!CompoundAliased, each, one, y

Everywhere(a, k) == [place \in DOMAIN a.data_ |-> a.data_[k]]

\* A copy combined with an element of the matrix, and the element with the copy.
LEMMA CombinedOnACopy ==
  ASSUME NEW rows \in Nat \ {0}, NEW columns \in Nat \ {0}, NEW a \in MatricesOf(rows, columns, Element),
         NEW op \in Matrices!Operators, NEW k \in 0 .. rows * columns - 1
  PROVE  /\ Matrices!Defined(op, {a.data_[k]}) =>
              Combines(Matrices!BinaryAliased(op, a, k), rows, columns, op, a.data_, Everywhere(a, k))
         /\ Matrices!Defined(op, Matrices!Values(a)) =>
              Combines(Matrices!BinaryReversed(op, a, k), rows, columns, op, Everywhere(a, k), a.data_)
<1> DEFINE all == 0 .. rows * columns - 1
           data == a.data_
           same == Everywhere(a, k)
           each == Matrices!Each(a, "copy")
           one == Matrices!One(a, "original", k)
<1>1. data \in [all -> Element] /\ DOMAIN data = all /\ data[k] \in Element /\ data[k] \in Matrices!Values(a)
  BY ElementsAre DEF Matrices!Values
<1>2. same \in [all -> Element] /\ \A place \in all : same[place] = data[k]
  <2>1. same = [place \in all |-> data[k]]
    <3> HIDE DEF all
    <3> QED BY <1>1, Zenon DEF Everywhere
  <2> HIDE DEF data, all, same
  <2> QED BY <1>1, <2>1
<1>3. /\ each \in [all -> {"original", "copy"} \X all] /\ one \in [all -> {"original", "copy"} \X all]
      /\ \A place \in all : each[place] = <<"copy", place>> /\ one[place] = <<"original", k>>
  <2>1. each \in [all -> {"original", "copy"} \X all] /\ \A place \in all : each[place] = <<"copy", place>>
    <3> HIDE DEF all, each
    <3> QED BY <1>1, EachIs DEF each
  <2>2. one \in [all -> {"original", "copy"} \X all] /\ \A place \in all : one[place] = <<"original", k>>
    <3>1. k \in all
      OBVIOUS
    <3> HIDE DEF all, one
    <3> QED BY <1>1, <3>1, OneIs DEF one
  <2> QED BY <2>1, <2>2, Zenon
<1> HIDE DEF same, each, one
<1>4. ASSUME NEW done, NEW place \in all
      PROVE  /\ ReadAt(Matrices!Copied(a), "copy", done, place, each[place]) = data[place]
             /\ ReadAt(Matrices!Copied(a), "copy", done, place, one[place]) = same[place]
  <2>1. place \in Int /\ k \in Int /\ "copy" \in {"original", "copy"} /\ "original" \in {"original", "copy"}
    OBVIOUS
  <2>2. /\ ReadAt(Matrices!Copied(a), "copy", done, place, <<"copy", place>>) = data[place]
        /\ ReadAt(Matrices!Copied(a), "copy", done, place, <<"original", k>>) = data[k]
    <3> HIDE DEF all
    <3> QED BY <2>1, NotChangedYet
  <2> QED BY <1>2, <1>3, <2>2, Zenon
<1>5. ASSUME Matrices!Defined(op, {a.data_[k]})
      PROVE  Combines(Matrices!BinaryAliased(op, a, k), rows, columns, op, data, same)
  <2>1. op = "/" => \A place \in all : same[place] # 0
    BY <1>2, <1>5, Zenon DEF Matrices!Defined
  <2>2. Combines([a EXCEPT !.data_ = Matrices!Loop(op, Matrices!Copied(a), "copy", each, one)],
                 rows, columns, op, data, same)
    BY <1>1, <1>2, <1>3, <1>4, <2>1, CopiesCombine
  <2> QED BY <2>2, Zenon DEF Matrices!BinaryAliased, each, one
<1>6. ASSUME Matrices!Defined(op, Matrices!Values(a))
      PROVE  Combines(Matrices!BinaryReversed(op, a, k), rows, columns, op, same, data)
  <2>1. op = "/" => \A place \in all : data[place] # 0
    BY <1>6, ElementsAre
  <2>2. CASE op \in {"+", "*"}
    <3>1. Combines(Matrices!BinaryReversed(op, a, k), rows, columns, op, data, same)
      <4>1. Matrices!Defined(op, {a.data_[k]})
        BY <2>2 DEF Matrices!Defined
      <4> QED BY <1>5, <2>2, <4>1, Zenon DEF Matrices!BinaryReversed
    <3>2. ASSUME NEW p \in Element, NEW q \in Element PROVE Matrices!Applied(op, p, q) = Matrices!Applied(op, q, p)
      <4>1. p \in Int /\ q \in Int
        BY ElementsOfT DEF Element
      <4>2. p + q = q + p /\ p * q = q * p
        BY <4>1
      <4> QED BY <2>2, <4>2, Zenon DEF Matrices!Applied
    <3>3. \A place \in all : data[place] \in Element /\ same[place] \in Element
      BY <1>1, <1>2
    <3> HIDE DEF data, all
    <3> QED BY <3>1, <3>2, <3>3 DEF Combines, all
  <2>3. CASE op \notin {"+", "*"}
    <3>1. Combines([a EXCEPT !.data_ = Matrices!Loop(op, Matrices!Copied(a), "copy", one, each)],
                   rows, columns, op, same, data)
      <4>1. \A place \in all :
              /\ ReadAt(Matrices!Copied(a), "copy", PlaceByPlace(op, same, data), place, one[place]) = same[place]
              /\ ReadAt(Matrices!Copied(a), "copy", PlaceByPlace(op, same, data), place, each[place]) = data[place]
        BY <1>4, Zenon
      <4> QED BY <1>1, <1>2, <1>3, <2>1, <4>1, CopiesCombine
    <3> QED BY <2>3, <3>1, Zenon DEF Matrices!BinaryReversed, each, one
  <2> QED BY <2>2, <2>3
<1> QED BY <1>5, <1>6 DEF same

-----------------------------------------------------------------------------
(* The operands stay matrices over T, and combine as they are read.        *)

OnePlace(row, column, y) == [place \in {<<row, column>>} |-> y]

\* An element, and lines of elements, stored in a matrix.
LEMMA OnePlacedIn ==
  ASSUME NEW rows \in Nat \ {0}, NEW columns \in Nat \ {0}, NEW a \in MatricesOf(rows, columns, Element),
         NEW row \in 0 .. rows - 1, NEW column \in 0 .. columns - 1, NEW y \in Element
  PROVE  Matrices!Put(a, OnePlace(row, column, y)) \in MatricesOf(rows, columns, Element)
<1> DEFINE places == {<<row, column>>}
           cells == [place \in places |-> y]
<1>1. places \in SUBSET ((0 .. rows - 1) \X (0 .. columns - 1)) /\ cells \in [places -> Element]
  OBVIOUS
<1>2. Matrices!Put(a, cells) \in MatricesOf(rows, columns, Element)
  <2> HIDE DEF places, cells
  <2> QED BY <1>1, Stored, Zenon DEF HoldsOver
<1> QED BY <1>2 DEF OnePlace

\* SetRow, SetColumn and the other assignments leave a matrix of its shape.
LEMMA PlacedIn ==
  ASSUME NEW rows \in Nat \ {0}, NEW columns \in Nat \ {0}, NEW a \in MatricesOf(rows, columns, Element)
  PROVE  /\ \A row \in 0 .. rows - 1, values \in [0 .. columns - 1 -> Element] :
              Matrices!SetRow(a, row, values) \in MatricesOf(rows, columns, Element)
         /\ \A column \in 0 .. columns - 1, values \in [0 .. rows - 1 -> Element] :
              Matrices!SetColumn(a, column, values) \in MatricesOf(rows, columns, Element)
<1>0. a.rows = rows /\ a.columns = columns
  BY MatrixOfShape
<1>1. ASSUME NEW places \in SUBSET ((0 .. rows - 1) \X (0 .. columns - 1)), NEW cells \in [places -> Element]
      PROVE  Matrices!Put(a, cells) \in MatricesOf(rows, columns, Element)
  BY Stored DEF HoldsOver
<1>3. ASSUME NEW row \in 0 .. rows - 1, NEW values \in [0 .. columns - 1 -> Element]
      PROVE  Matrices!SetRow(a, row, values) \in MatricesOf(rows, columns, Element)
  <2> DEFINE places == {row} \X (0 .. columns - 1)
             cells == [p \in {row} \X (0 .. columns - 1) |-> values[p[2]]]
  <2>1. places \in SUBSET ((0 .. rows - 1) \X (0 .. columns - 1)) /\ cells \in [places -> Element]
    OBVIOUS
  <2>2. Matrices!SetRow(a, row, values) = Matrices!Put(a, cells)
    BY <1>0, Zenon DEF Matrices!SetRow, Matrices!ColumnIndices
  <2>3. Matrices!Put(a, cells) \in MatricesOf(rows, columns, Element)
    <3> HIDE DEF places, cells
    <3> QED BY <1>1, <2>1, Zenon
  <2> QED BY <2>2, <2>3
<1>4. ASSUME NEW column \in 0 .. columns - 1, NEW values \in [0 .. rows - 1 -> Element]
      PROVE  Matrices!SetColumn(a, column, values) \in MatricesOf(rows, columns, Element)
  <2> DEFINE places == (0 .. rows - 1) \X {column}
             cells == [p \in (0 .. rows - 1) \X {column} |-> values[p[1]]]
  <2>1. places \in SUBSET ((0 .. rows - 1) \X (0 .. columns - 1)) /\ cells \in [places -> Element]
    OBVIOUS
  <2>2. Matrices!SetColumn(a, column, values) = Matrices!Put(a, cells)
    BY <1>0, Zenon DEF Matrices!SetColumn, Matrices!RowIndices
  <2>3. Matrices!Put(a, cells) \in MatricesOf(rows, columns, Element)
    <3> HIDE DEF places, cells
    <3> QED BY <1>1, <2>1, Zenon
  <2> QED BY <2>2, <2>3
<1> QED BY <1>3, <1>4

\* The identity.
LEMMA IdentityIs ==
  ASSUME NEW rows \in Nat \ {0}, NEW columns \in Nat \ {0}
  PROVE  /\ Matrices!Identity(rows, columns) \in MatricesOf(rows, columns, Element)
         /\ \A r \in 0 .. rows - 1, c \in 0 .. columns - 1 :
              Matrices!At(Matrices!Identity(rows, columns), r, c) = IF r = c THEN 1 ELSE 0
<1> DEFINE cells == [p \in Matrices!Cells(rows, columns) |-> IF p[1] = p[2] THEN 1 ELSE 0]
<1>1. 0 \in Element /\ 1 \in Element
  BY ElementsOfT DEF Element
<1>2. cells \in [Matrices!Cells(rows, columns) -> Element]
  BY <1>1
<1>3. Matrices!Identity(rows, columns) = Matrices!Tabulate(rows, columns, cells)
  BY Zenon DEF Matrices!Identity
<1>4. \A r \in 0 .. rows - 1, c \in 0 .. columns - 1 : cells[<<r, c>>] = IF r = c THEN 1 ELSE 0
  BY DEF Matrices!Cells
<1> HIDE DEF cells
<1>5. /\ Matrices!Tabulate(rows, columns, cells) \in MatricesOf(rows, columns, Element)
      /\ \A r \in 0 .. rows - 1, c \in 0 .. columns - 1 :
           Matrices!At(Matrices!Tabulate(rows, columns, cells), r, c) = cells[<<r, c>>]
  <2>1. Holds(Matrices!Tabulate(rows, columns, cells), rows, columns, Element, cells)
    BY <1>1, <1>2, Tabulated
  <2> QED BY <2>1 DEF Holds
<1>6. ASSUME NEW r \in 0 .. rows - 1, NEW c \in 0 .. columns - 1
      PROVE  Matrices!At(Matrices!Identity(rows, columns), r, c) = IF r = c THEN 1 ELSE 0
  <2>1. Matrices!At(Matrices!Identity(rows, columns), r, c) = cells[<<r, c>>]
    BY <1>3, <1>5, Zenon
  <2>2. cells[<<r, c>>] = IF r = c THEN 1 ELSE 0
    BY <1>4
  <2> QED BY <2>1, <2>2, Zenon
<1> QED BY <1>3, <1>5, <1>6

\* The matrix keeps its shape, and its elements are of T.
MatrixTyped == \E shape \in Shapes : m \in MatricesOf(shape[1], shape[2], Element)

MatrixInv == component = "Matrix" => MatrixTyped

\* Only the operations of Matrix change its variables.
LEMMA MatrixStep == [Next]_vars => [component' = component /\ component = "Matrix" /\ Matrices!Next]_<<component, m>>
BY Zenon DEF Next, SortStep, NumbersStep, GeometryStep, vars, geometry

\* Every operation keeps the operands matrices of their shapes over T.
LEMMA MatrixKeeps == MatrixTyped /\ Matrices!Next => MatrixTyped'
<1> SUFFICES ASSUME MatrixTyped, Matrices!Next PROVE MatrixTyped'
  OBVIOUS
<1>0. PICK shape \in Shapes : m \in MatricesOf(shape[1], shape[2], Element)
  BY DEF MatrixTyped
<1> DEFINE rows == shape[1]
           columns == shape[2]
           all == 0 .. rows * columns - 1
<1>1. rows \in Nat \ {0} /\ columns \in Nat \ {0}
  BY ShapesAre
<1>2. m.rows = rows /\ m.columns = columns /\ DOMAIN m.data_ = all /\ m.data_ \in [all -> Element]
      /\ Matrices!RowIndices(m) = 0 .. rows - 1 /\ Matrices!ColumnIndices(m) = 0 .. columns - 1
  <2>1. m.rows = rows /\ m.columns = columns /\ m.data_ \in [0 .. rows * columns - 1 -> Element]
    BY <1>0, MatrixOfShape
  <2> QED BY <2>1 DEF Matrices!RowIndices, Matrices!ColumnIndices
<1> HIDE DEF all
<1> DEFINE Shaped == MatricesOf(rows, columns, Element)
<1>3. m' \in Shaped => MatrixTyped'
  BY DEF MatrixTyped
<1>4. m \in Shaped
  BY <1>0
<1> HIDE DEF rows, columns
<1>5. Samples \subseteq Element
  BY ElementsOfT
<1>6. ASSUME NEW op \in Matrices!Operators, NEW y \in Samples, Matrices!CombineValue(op, y) PROVE m' \in Shaped
  BY <1>1, <1>4, <1>5, <1>6, CombinedWithValue, Zenon DEF Matrices!CombineValue
<1>7. ASSUME NEW op \in Matrices!Operators, Matrices!CombineSelf(op) PROVE m' \in Shaped
  BY <1>1, <1>4, <1>7, CombinedWithItself DEF Matrices!CombineSelf, Combines
<1>8. ASSUME NEW op \in Matrices!Operators, NEW k \in all, Matrices!CombineOwnElement(op, k) PROVE m' \in Shaped
  BY <1>1, <1>4, <1>8, CombinedWithElement DEF Matrices!CombineOwnElement, Combines, all
<1>9. ASSUME NEW op \in Matrices!Operators, NEW k \in all, Matrices!AssignOperand(op, k) PROVE m' \in Shaped
  BY <1>1, <1>4, <1>9, CombinedOnACopy DEF Matrices!AssignOperand, Combines, all
<1>10. ASSUME NEW op \in Matrices!Operators, NEW k \in all, Matrices!AssignReversed(op, k) PROVE m' \in Shaped
  BY <1>1, <1>4, <1>10, CombinedOnACopy DEF Matrices!AssignReversed, Combines, all
<1>11. ASSUME NEW row \in 0 .. rows - 1, NEW column \in 0 .. columns - 1, NEW y \in Samples,
              m' = Matrices!Put(m, OnePlace(row, column, y))
       PROVE  m' \in Shaped
  <2>1. y \in Element
    BY <1>5
  <2>2. Matrices!Put(m, OnePlace(row, column, y)) \in MatricesOf(rows, columns, Element)
    BY <1>1, <1>4, <2>1, OnePlacedIn
  <2> QED BY <1>11, <2>2, Zenon
<1>12. ASSUME NEW row \in 0 .. rows - 1, NEW values \in [0 .. columns - 1 -> Samples], m' = Matrices!SetRow(m, row, values)
       PROVE  m' \in Shaped
  <2>1. values \in [0 .. columns - 1 -> Element]
    BY <1>5
  <2> QED BY <1>1, <1>4, <1>12, <2>1, PlacedIn
<1>13. ASSUME NEW column \in 0 .. columns - 1, NEW values \in [0 .. rows - 1 -> Samples],
              m' = Matrices!SetColumn(m, column, values)
       PROVE  m' \in Shaped
  <2>1. values \in [0 .. rows - 1 -> Element]
    BY <1>5
  <2> QED BY <1>1, <1>4, <1>13, <2>1, PlacedIn
<1> HIDE DEF Shaped
<1>14. m' \in Shaped
  <2>1. CASE \E op \in Matrices!Operators, y \in Samples : Matrices!CombineValue(op, y)
    BY <1>6, <2>1
  <2>2. CASE \E op \in Matrices!Operators : Matrices!CombineSelf(op)
    BY <1>7, <2>2
  <2>3. CASE \E op \in Matrices!Operators, k \in DOMAIN m.data_ : Matrices!CombineOwnElement(op, k)
    BY <1>2, <1>8, <2>3
  <2>4. CASE \E op \in Matrices!Operators, k \in DOMAIN m.data_ : Matrices!AssignOperand(op, k)
    BY <1>2, <1>9, <2>4
  <2>5. CASE \E op \in Matrices!Operators, k \in DOMAIN m.data_ : Matrices!AssignReversed(op, k)
    BY <1>2, <1>10, <2>5
  <2>6. CASE \E row \in Matrices!RowIndices(m), column \in Matrices!ColumnIndices(m), y \in Samples :
               m' = Matrices!Put(m, OnePlace(row, column, y))
    BY <1>2, <1>11, <2>6
  <2>7. CASE \E row \in Matrices!RowIndices(m), values \in Matrices!Lines(Matrices!ColumnIndices(m)) :
               m' = Matrices!SetRow(m, row, values)
    BY <1>2, <1>12, <2>7 DEF Matrices!Lines
  <2>8. CASE \E column \in Matrices!ColumnIndices(m), values \in Matrices!Lines(Matrices!RowIndices(m)) :
               m' = Matrices!SetColumn(m, column, values)
    BY <1>2, <1>13, <2>8 DEF Matrices!Lines
  <2> QED BY <2>1, <2>2, <2>3, <2>4, <2>5, <2>6, <2>7, <2>8, Zenon DEF Matrices!Next, OnePlace
<1> QED BY <1>3, <1>14

\* The operands are matrices of their shapes over T in every state.
LEMMA MatrixInvHolds == Spec => []MatrixInv
<1>1. Init => MatrixInv
  <2> SUFFICES ASSUME Init, component = "Matrix" PROVE MatrixTyped
    BY DEF MatrixInv
  <2>1. Matrices!Init
    BY DEF Init
  <2>2. PICK shape \in Shapes : m = Matrices!Identity(shape[1], shape[2])
    BY <2>1 DEF Matrices!Init
  <2>3. m \in MatricesOf(shape[1], shape[2], Element)
    BY <2>2, ShapesAre, IdentityIs
  <2> QED BY <2>3 DEF MatrixTyped
<1>2. MatrixInv /\ [Next]_vars => MatrixInv'
  <2> SUFFICES ASSUME MatrixInv, [Next]_vars PROVE MatrixInv'
    OBVIOUS
  <2>1. [component' = component /\ component = "Matrix" /\ Matrices!Next]_<<component, m>>
    BY MatrixStep
  <2>2. CASE component' = component /\ component = "Matrix" /\ Matrices!Next
    BY <2>2, MatrixKeeps DEF MatrixInv
  <2>3. CASE UNCHANGED <<component, m>>
    BY <2>3 DEF MatrixInv, MatrixTyped
  <2> QED BY <2>1, <2>2, <2>3
<1> QED BY <1>1, <1>2, PTL DEF Spec

\* Whatever operators were applied before, in whatever order, to matrices of any shape
\* over unsigned integers of any width: though operator@= takes its operand by reference
\* and reads it again after each element it has changed, m @ m[k], m[k] @ m and m @= m
\* combine with what it was at the call; m @= m[k] does so up to k, and after k with what
\* the loop has made of m[k].
THEOREM AliasedOperandsCombine == Spec => []AliasedOperands
<1>1. MatrixInv => AliasedOperands
  <2> SUFFICES ASSUME MatrixTyped PROVE Matrices!AliasedOperands
    BY DEF MatrixInv, AliasedOperands
  <2>0. PICK shape \in Shapes : m \in MatricesOf(shape[1], shape[2], Element)
    BY DEF MatrixTyped
  <2> DEFINE rows == shape[1]
             columns == shape[2]
             own == m.data_
  <2>1. rows \in Nat \ {0} /\ columns \in Nat \ {0} /\ m \in MatricesOf(rows, columns, Element)
    BY <2>0, ShapesAre
  <2> HIDE DEF rows, columns
  <2>2. DOMAIN own = 0 .. rows * columns - 1
    BY <2>1, ElementsAre
  <2>3. ASSUME NEW op, NEW made, NEW x, NEW y, Combines(made, rows, columns, op, x, y)
        PROVE  Matrices!ElementWise(op, made, x, y)
    BY <2>2, <2>3, Zenon DEF Combines, Matrices!ElementWise
  <2>4. ASSUME NEW op \in Matrices!Operators, NEW k \in DOMAIN own, Matrices!Defined(op, {own[k]})
        PROVE  /\ Matrices!ElementWise(op, Matrices!BinaryAliased(op, m, k), own, [place \in DOMAIN own |-> own[k]])
               /\ Matrices!ElementWise(op, Matrices!CompoundAliased(op, m, k), own,
                    [place \in DOMAIN own |-> IF place <= k THEN own[k] ELSE Matrices!Applied(op, own[k], own[k])])
    <3>1. k \in 0 .. rows * columns - 1
      BY <2>2
    <3>2. Combines(Matrices!BinaryAliased(op, m, k), rows, columns, op, own, Everywhere(m, k))
      BY <2>1, <2>4, <3>1, CombinedOnACopy
    <3>3. Combines(Matrices!CompoundAliased(op, m, k), rows, columns, op, own, OperandAt(m, op, k))
      BY <2>1, <2>4, <3>1, CombinedWithElement
    <3> QED BY <2>3, <3>2, <3>3, Zenon DEF Everywhere, OperandAt
  <2>5. ASSUME NEW op \in Matrices!Operators, Matrices!Defined(op, Matrices!Values(m))
        PROVE  /\ Matrices!ElementWise(op, Matrices!CompoundSelf(op, m), own, own)
               /\ \A k \in DOMAIN own :
                    Matrices!ElementWise(op, Matrices!BinaryReversed(op, m, k), [place \in DOMAIN own |-> own[k]], own)
    <3>1. Combines(Matrices!CompoundSelf(op, m), rows, columns, op, own, own)
      BY <2>1, <2>5, CombinedWithItself
    <3>2. ASSUME NEW k \in 0 .. rows * columns - 1
          PROVE  Combines(Matrices!BinaryReversed(op, m, k), rows, columns, op, Everywhere(m, k), own)
      BY <2>1, <2>5, CombinedOnACopy
    <3> QED BY <2>2, <2>3, <3>1, <3>2, Zenon DEF Everywhere
  <2> QED BY <2>4, <2>5, Zenon DEF Matrices!AliasedOperands
<1> QED BY <1>1, MatrixInvHolds, PTL

-----------------------------------------------------------------------------
(* Sums of residues.                                                       *)

\* Integers with the same residue.
SameMod(N, x, y) == x \in Int /\ y \in Int /\ x % N = y % N

\* Sums, differences and products of congruent numbers are congruent.
LEMMA SameModCombines ==
  ASSUME NEW N \in Nat \ {0}, NEW x, NEW y, NEW u, NEW v, SameMod(N, x, y), SameMod(N, u, v)
  PROVE  SameMod(N, x + u, y + v) /\ SameMod(N, x - u, y - v) /\ SameMod(N, x * u, y * v)
<1>1. x \in Int /\ y \in Int /\ u \in Int /\ v \in Int
  BY DEF SameMod
<1>2. PICK p \in Int : x = y + p * N
  <2>1. x % N = y % N
    BY DEF SameMod
  <2>2. \E q \in Int : x = y + q * N
    BY <1>1, <2>1, SameResidue, Zenon
  <2> QED BY <2>2
<1>3. PICK q \in Int : u = v + q * N
  <2>1. u % N = v % N
    BY DEF SameMod
  <2>2. \E k \in Int : u = v + k * N
    BY <1>1, <2>1, SameResidue, Zenon
  <2> QED BY <2>2
<1>4. ASSUME NEW a \in Int, NEW b \in Int, NEW k \in Int, a = b + k * N PROVE SameMod(N, a, b)
  <2>1. \E l \in Int : a = b + l * N
    BY <1>4
  <2>2. a % N = b % N
    BY <2>1, SameResidue, Zenon
  <2> QED BY <2>2 DEF SameMod
<1>5. SameMod(N, x + u, y + v)
  <2>1. x + u = (y + v) + (p + q) * N /\ x + u \in Int /\ y + v \in Int /\ p + q \in Int
    BY <1>1, <1>2, <1>3
  <2> QED BY <1>4, <2>1, Zenon
<1>6. SameMod(N, x - u, y - v)
  <2>1. x - u = (y - v) + (p - q) * N /\ x - u \in Int /\ y - v \in Int /\ p - q \in Int
    BY <1>1, <1>2, <1>3
  <2> QED BY <1>4, <2>1, Zenon
<1>7. SameMod(N, x * u, y * v)
  <2> DEFINE k == y * q + p * v + p * q * N
  <2>1. x * u = y * v + k * N
    BY <1>1, <1>2, <1>3
  <2>2. x * u \in Int /\ y * v \in Int /\ k \in Int
    BY <1>1
  <2> HIDE DEF k
  <2> QED BY <1>4, <2>1, <2>2, Zenon
<1> QED BY <1>5, <1>6, <1>7

\* A number and its residue, and the residue for a multiple of the modulus.
LEMMA SameModResidue ==
  ASSUME NEW N \in Nat \ {0}, NEW x \in Int
  PROVE  SameMod(N, x, x) /\ SameMod(N, x % N, x) /\ SameMod(N, x, x % N)
<1>1. x % N \in 0 .. N - 1
  BY Residue
<1> DEFINE r == x % N
<1> HIDE DEF r
<1>2. r \in 0 .. N - 1
  BY <1>1 DEF r
<1>3. r % N = r
  BY <1>2, SmallResidue
<1> QED BY <1>2, <1>3 DEF SameMod, r

\* A residue of a multiple of N is congruent as well.
LEMMA SameModOfMultiple ==
  ASSUME NEW N \in Nat \ {0}, NEW L \in Nat \ {0}, L % N = 0, NEW x \in Int
  PROVE  SameMod(N, x % L, x)
<1>1. PICK q \in Int : x = q * L + (x % L)
  BY Residue, Zenon
<1>2. PICK p \in Int : L = p * N + (L % N)
  <2>1. L \in Int
    OBVIOUS
  <2> QED BY <2>1, Residue, Zenon
<1> DEFINE r == x % L
<1>3. r \in Int /\ x = q * L + r /\ L = p * N
  <2>1. r \in Int
    BY Residue
  <2> QED BY <1>1, <1>2, <2>1
<1> HIDE DEF r
<1>4. r = x + (-(q * p)) * N /\ -(q * p) \in Int
  BY <1>3
<1>5. \E k \in Int : r = x + k * N
  BY <1>4
<1>6. r % N = x % N
  BY <1>3, <1>5, SameResidue, Zenon
<1> QED BY <1>3, <1>6 DEF SameMod, r

\* Sums of numbers with the same residues.
LEMMA SumsSameMod ==
  ASSUME NEW N \in Nat \ {0}, NEW f, NEW g, NEW S, IsFiniteSet(S), \A x \in S : SameMod(N, f[x], g[x])
  PROVE  SameMod(N, SumOf(f, S), SumOf(g, S))
<1> DEFINE B == {t \in SUBSET S : ~SameMod(N, SumOf(f, t), SumOf(g, t))}
<1>1. B # {} => FALSE
  <2> SUFFICES ASSUME B # {} PROVE FALSE
    OBVIOUS
  <2>1. \A t \in B : IsFiniteSet(t)
    BY FS_Subset
  <2>2. PICK t \in B : \A u \in B : Cardinality(t) <= Cardinality(u)
    <3> HIDE DEF B
    <3> QED BY <2>1, Smallest
  <2>3. SumOf(f, t) = (IF t = {} THEN 0 ELSE f[Pick(t)] + SumOf(f, t \ {Pick(t)}))
        /\ SumOf(g, t) = (IF t = {} THEN 0 ELSE g[Pick(t)] + SumOf(g, t \ {Pick(t)}))
    BY <2>1, SumUnfolds
  <2>4. t # {} /\ t \subseteq S /\ ~SameMod(N, SumOf(f, t), SumOf(g, t))
    <3>1. SameMod(N, 0, 0)
      BY SameModResidue
    <3> QED BY <2>3, <3>1
  <2>5. Pick(t) \in t /\ SameMod(N, f[Pick(t)], g[Pick(t)])
    BY <2>4, Picked
  <2> DEFINE w == t \ {Pick(t)}
  <2>6. IsFiniteSet(w) /\ Cardinality(w) < Cardinality(t)
    BY <2>1, <2>4, <2>5, Without
  <2>7. Cardinality(t) \in Nat /\ Cardinality(w) \in Nat
    BY <2>1, <2>6, FS_CardinalityType
  <2>8. w \notin B
    BY <2>2, <2>6, <2>7
  <2>9. SameMod(N, SumOf(f, w), SumOf(g, w))
    BY <2>4, <2>8
  <2>10. SameMod(N, f[Pick(t)] + SumOf(f, w), g[Pick(t)] + SumOf(g, w))
    <3> HIDE DEF w
    <3> QED BY <2>5, <2>9, SameModCombines, Zenon
  <2> HIDE DEF w
  <2> QED BY <2>3, <2>4, <2>10 DEF w
<1> QED BY <1>1

\* A sum with one term that is not zero.
LEMMA SumOfZeros ==
  ASSUME NEW f, NEW S, IsFiniteSet(S), \A x \in S : f[x] = 0
  PROVE  SumOf(f, S) = 0
<1> DEFINE B == {t \in SUBSET S : SumOf(f, t) # 0}
<1>1. B # {} => FALSE
  <2> SUFFICES ASSUME B # {} PROVE FALSE
    OBVIOUS
  <2>1. \A t \in B : IsFiniteSet(t)
    BY FS_Subset
  <2>2. PICK t \in B : \A u \in B : Cardinality(t) <= Cardinality(u)
    <3> HIDE DEF B
    <3> QED BY <2>1, Smallest
  <2>3. SumOf(f, t) = IF t = {} THEN 0 ELSE f[Pick(t)] + SumOf(f, t \ {Pick(t)})
    BY <2>1, SumUnfolds, Zenon
  <2>4. t # {} /\ t \subseteq S /\ SumOf(f, t) # 0
    BY <2>3
  <2>5. Pick(t) \in t /\ f[Pick(t)] = 0
    BY <2>4, Picked
  <2>6. IsFiniteSet(t \ {Pick(t)}) /\ Cardinality(t \ {Pick(t)}) < Cardinality(t)
    BY <2>1, <2>4, <2>5, Without
  <2>7. Cardinality(t) \in Nat /\ Cardinality(t \ {Pick(t)}) \in Nat
    BY <2>1, <2>6, FS_CardinalityType
  <2>8. t \ {Pick(t)} \notin B
    BY <2>2, <2>6, <2>7
  <2>9. SumOf(f, t \ {Pick(t)}) = 0
    BY <2>4, <2>8
  <2> QED BY <2>3, <2>4, <2>5, <2>9
<1> QED BY <1>1

\* A sum of zeros but one is that one.
LEMMA SumOfOne ==
  ASSUME NEW f, NEW S, IsFiniteSet(S), NEW x \in S, f[x] \in Int, \A y \in S : y # x => f[y] = 0
  PROVE  SumOf(f, S) = f[x]
<1>1. \A y \in S : f[y] \in Int
  OBVIOUS
<1>2. SumOf(f, S) = f[x] + SumOf(f, S \ {x})
  BY <1>1, SumTakesOne
<1>3. IsFiniteSet(S \ {x}) /\ \A y \in S \ {x} : f[y] = 0
  BY FS_Subset
<1>4. SumOf(f, S \ {x}) = 0
  BY <1>3, SumOfZeros
<1> QED BY <1>2, <1>4

\* The sum that MatMul and Dot compute, wrapping around at each addition.
LEMMA SumOverIs == ASSUME NEW terms PROVE Matrices!SumOver(terms) = SumOf(terms, DOMAIN terms) % Modulus
<1>1. Matrices!FoldFunction(LAMBDA x, y : x + y, 0, terms) = SumOf(terms, DOMAIN terms)
  BY Zenon DEF Matrices!FoldFunction, Matrices!FoldFunctionOnSet, Matrices!MapThenFoldSet, SumOf, Adds, Pick
<1> QED BY <1>1 DEF Matrices!SumOver

-----------------------------------------------------------------------------
(* Products, transposes, rows and columns of matrices.                     *)

\* A product has the sum of the products of a row's and a column's elements in each cell.
Terms(a, b, inner, r, c) == [k \in 0 .. inner - 1 |-> Matrices!At(a, r, k) * Matrices!At(b, k, c)]

IsProduct(p, a, b, rows, inner, columns) ==
  /\ p \in MatricesOf(rows, columns, Element)
  /\ \A r \in 0 .. rows - 1, c \in 0 .. columns - 1 :
       /\ SumOf(Terms(a, b, inner, r, c), 0 .. inner - 1) \in Int
       /\ Matrices!At(p, r, c) = SumOf(Terms(a, b, inner, r, c), 0 .. inner - 1) % Modulus

\* The numbers below n are finitely many.
LEMMA FiniteBelow == ASSUME NEW n \in Nat \ {0} PROVE IsFiniteSet(0 .. n - 1)
<1>1. n - 1 \in Int /\ 0 \in Int
  OBVIOUS
<1> QED BY <1>1, FS_Interval

\* The terms of an element of a product are products of elements.
LEMMA TermsAreNumbers ==
  ASSUME NEW rows \in Nat \ {0}, NEW inner \in Nat \ {0}, NEW columns \in Nat \ {0},
         NEW a \in MatricesOf(rows, inner, Element), NEW b \in MatricesOf(inner, columns, Element),
         NEW r \in 0 .. rows - 1, NEW c \in 0 .. columns - 1
  PROVE  /\ \A k \in 0 .. inner - 1 : Terms(a, b, inner, r, c)[k] = Matrices!At(a, r, k) * Matrices!At(b, k, c)
         /\ \A k \in 0 .. inner - 1 : Terms(a, b, inner, r, c)[k] \in Int
         /\ SumOf(Terms(a, b, inner, r, c), 0 .. inner - 1) \in Int
<1> DEFINE all == 0 .. inner - 1
           f == Terms(a, b, inner, r, c)
<1>1. ASSUME NEW k \in all PROVE f[k] = Matrices!At(a, r, k) * Matrices!At(b, k, c) /\ f[k] \in Int
  <2>1. Matrices!At(a, r, k) \in Element /\ Matrices!At(b, k, c) \in Element
    BY ElementAt
  <2>2. Matrices!At(a, r, k) \in Int /\ Matrices!At(b, k, c) \in Int
    BY <2>1, ElementsOfT DEF Element
  <2>3. f[k] = Matrices!At(a, r, k) * Matrices!At(b, k, c)
    BY DEF Terms
  <2> QED BY <2>2, <2>3
<1>2. IsFiniteSet(all)
  BY FiniteBelow
<1> HIDE DEF f
<1>3. SumOf(f, all) \in Int
  <2> HIDE DEF all
  <2> QED BY <1>1, <1>2, SumIsInteger
<1> QED BY <1>1, <1>3 DEF f

\* MatMul computes the product of matrices over the residues.
LEMMA ProductIs ==
  ASSUME NEW rows \in Nat \ {0}, NEW inner \in Nat \ {0}, NEW columns \in Nat \ {0},
         NEW a \in MatricesOf(rows, inner, Element), NEW b \in MatricesOf(inner, columns, Element)
  PROVE  IsProduct(Matrices!MatMul(a, b), a, b, rows, inner, columns)
<1> DEFINE sum(r, c) == Matrices!SumOver(Terms(a, b, inner, r, c))
           cells == [p \in Matrices!Cells(rows, columns) |-> sum(p[1], p[2])]
<1>1. a.rows = rows /\ a.columns = inner /\ b.columns = columns
  BY MatrixOfShape
<1>2. Matrices!MatMul(a, b) = Matrices!Tabulate(rows, columns, cells)
  BY <1>1, Zenon DEF Matrices!MatMul, Matrices!ColumnIndices, Terms
<1>3. ASSUME NEW r \in 0 .. rows - 1, NEW c \in 0 .. columns - 1
      PROVE  /\ sum(r, c) = SumOf(Terms(a, b, inner, r, c), 0 .. inner - 1) % Modulus
             /\ SumOf(Terms(a, b, inner, r, c), 0 .. inner - 1) \in Int
             /\ sum(r, c) \in Element
  <2> DEFINE f == Terms(a, b, inner, r, c)
  <2>1. DOMAIN f = 0 .. inner - 1
    BY DEF Terms
  <2>2. SumOf(f, 0 .. inner - 1) \in Int
    BY TermsAreNumbers
  <2> HIDE DEF f
  <2>3. Matrices!SumOver(f) = SumOf(f, 0 .. inner - 1) % Modulus
    BY <2>1, SumOverIs
  <2> DEFINE s == SumOf(f, 0 .. inner - 1)
  <2> HIDE DEF s
  <2>4. s % Modulus \in Element
    <3>1. s \in Int
      BY <2>2 DEF s
    <3> QED BY <3>1, Residue, ElementsOfT, Zenon DEF Element
  <2> QED BY <2>2, <2>3, <2>4 DEF s, f
<1>4. cells \in [Matrices!Cells(rows, columns) -> Element]
  <2>1. ASSUME NEW p \in Matrices!Cells(rows, columns) PROVE sum(p[1], p[2]) \in Element
    <3>1. p[1] \in 0 .. rows - 1 /\ p[2] \in 0 .. columns - 1
      BY DEF Matrices!Cells
    <3> HIDE DEF sum
    <3> QED BY <1>3, <3>1, Zenon
  <2> HIDE DEF sum
  <2> QED BY <2>1
<1>5. \A r \in 0 .. rows - 1, c \in 0 .. columns - 1 : cells[<<r, c>>] = sum(r, c)
  <2> HIDE DEF sum
  <2> QED BY DEF Matrices!Cells
<1> HIDE DEF cells, sum
<1>6. 0 \in Element
  BY ElementsOfT DEF Element
<1>7. Holds(Matrices!Tabulate(rows, columns, cells), rows, columns, Element, cells)
  BY <1>4, <1>6, Tabulated
<1>8. Holds(Matrices!MatMul(a, b), rows, columns, Element, cells)
  BY <1>2, <1>7
<1> QED BY <1>3, <1>5, <1>8, Zenon DEF Holds, IsProduct

\* Transposition, rows, columns and sub-matrices, element by element.
LEMMA TransposedIs ==
  ASSUME NEW rows \in Nat \ {0}, NEW columns \in Nat \ {0}, NEW a \in MatricesOf(rows, columns, Element)
  PROVE  /\ Matrices!Transposed(a) \in MatricesOf(columns, rows, Element)
         /\ \A r \in 0 .. columns - 1, c \in 0 .. rows - 1 :
              Matrices!At(Matrices!Transposed(a), r, c) = Matrices!At(a, c, r)
<1> DEFINE cells == [p \in Matrices!Cells(columns, rows) |-> Matrices!At(a, p[2], p[1])]
<1>1. a.rows = rows /\ a.columns = columns
  BY MatrixOfShape
<1>2. Matrices!Transposed(a) = Matrices!Tabulate(columns, rows, cells)
  BY <1>1, Zenon DEF Matrices!Transposed
<1>3. cells \in [Matrices!Cells(columns, rows) -> Element]
  <2>1. ASSUME NEW p \in Matrices!Cells(columns, rows) PROVE Matrices!At(a, p[2], p[1]) \in Element
    <3>1. p[1] \in 0 .. columns - 1 /\ p[2] \in 0 .. rows - 1
      BY DEF Matrices!Cells
    <3> QED BY <3>1, ElementAt
  <2> QED BY <2>1
<1>4. \A r \in 0 .. columns - 1, c \in 0 .. rows - 1 : cells[<<r, c>>] = Matrices!At(a, c, r)
  BY DEF Matrices!Cells
<1>5. 0 \in Element
  BY ElementsOfT DEF Element
<1> HIDE DEF cells
<1>6. Holds(Matrices!Tabulate(columns, rows, cells), columns, rows, Element, cells)
  BY <1>3, <1>5, Tabulated
<1>7. Holds(Matrices!Transposed(a), columns, rows, Element, cells)
  BY <1>2, <1>6
<1> QED BY <1>4, <1>7, Zenon DEF Holds

\* One row.
LEMMA RowIs ==
  ASSUME NEW rows \in Nat \ {0}, NEW columns \in Nat \ {0}, NEW a \in MatricesOf(rows, columns, Element),
         NEW row \in 0 .. rows - 1
  PROVE  /\ Matrices!GetRow(a, row) \in MatricesOf(1, columns, Element)
         /\ \A r \in 0 .. 1 - 1, c \in 0 .. columns - 1 :
              Matrices!At(Matrices!GetRow(a, row), r, c) = Matrices!At(a, row, c)
<1> DEFINE cells == [p \in Matrices!Cells(1, columns) |-> Matrices!At(a, row, p[2])]
<1>1. a.rows = rows /\ a.columns = columns
  BY MatrixOfShape
<1>2. Matrices!GetRow(a, row) = Matrices!Tabulate(1, columns, cells)
  BY <1>1, Zenon DEF Matrices!GetRow
<1>3. cells \in [Matrices!Cells(1, columns) -> Element]
  <2>1. ASSUME NEW p \in Matrices!Cells(1, columns) PROVE Matrices!At(a, row, p[2]) \in Element
    <3>1. p[1] \in 0 .. 1 - 1 /\ p[2] \in 0 .. columns - 1
      BY DEF Matrices!Cells
    <3> QED BY <3>1, ElementAt
  <2> QED BY <2>1
<1>4. \A r \in 0 .. 1 - 1, c \in 0 .. columns - 1 : cells[<<r, c>>] = Matrices!At(a, row, c)
  BY DEF Matrices!Cells
<1>5. 0 \in Element
  BY ElementsOfT DEF Element
<1> HIDE DEF cells
<1>6. Holds(Matrices!Tabulate(1, columns, cells), 1, columns, Element, cells)
  BY <1>3, <1>5, Tabulated
<1>7. Holds(Matrices!GetRow(a, row), 1, columns, Element, cells)
  BY <1>2, <1>6
<1> QED BY <1>4, <1>7, Zenon DEF Holds

\* One column.
LEMMA ColumnIs ==
  ASSUME NEW rows \in Nat \ {0}, NEW columns \in Nat \ {0}, NEW a \in MatricesOf(rows, columns, Element),
         NEW column \in 0 .. columns - 1
  PROVE  /\ Matrices!GetColumn(a, column) \in MatricesOf(rows, 1, Element)
         /\ \A r \in 0 .. rows - 1, c \in 0 .. 1 - 1 :
              Matrices!At(Matrices!GetColumn(a, column), r, c) = Matrices!At(a, r, column)
<1> DEFINE cells == [p \in Matrices!Cells(rows, 1) |-> Matrices!At(a, p[1], column)]
<1>1. a.rows = rows /\ a.columns = columns
  BY MatrixOfShape
<1>2. Matrices!GetColumn(a, column) = Matrices!Tabulate(rows, 1, cells)
  BY <1>1, Zenon DEF Matrices!GetColumn
<1>3. cells \in [Matrices!Cells(rows, 1) -> Element]
  <2>1. ASSUME NEW p \in Matrices!Cells(rows, 1) PROVE Matrices!At(a, p[1], column) \in Element
    <3>1. p[1] \in 0 .. rows - 1 /\ p[2] \in 0 .. 1 - 1
      BY DEF Matrices!Cells
    <3> QED BY <3>1, ElementAt
  <2> QED BY <2>1
<1>4. \A r \in 0 .. rows - 1, c \in 0 .. 1 - 1 : cells[<<r, c>>] = Matrices!At(a, r, column)
  BY DEF Matrices!Cells
<1>5. 0 \in Element
  BY ElementsOfT DEF Element
<1> HIDE DEF cells
<1>6. Holds(Matrices!Tabulate(rows, 1, cells), rows, 1, Element, cells)
  BY <1>3, <1>5, Tabulated
<1>7. Holds(Matrices!GetColumn(a, column), rows, 1, Element, cells)
  BY <1>2, <1>6
<1> QED BY <1>4, <1>7, Zenon DEF Holds

\* The first row.
LEMMA FirstRowIs ==
  ASSUME NEW rows \in Nat \ {0}, NEW columns \in Nat \ {0}, NEW a \in MatricesOf(rows, columns, Element)
  PROVE  /\ Matrices!Sub(a, 1, columns) \in MatricesOf(1, columns, Element)
         /\ \A r \in 0 .. 1 - 1, c \in 0 .. columns - 1 :
              Matrices!At(Matrices!Sub(a, 1, columns), r, c) = Matrices!At(a, r, c)
<1> DEFINE cells == [p \in Matrices!Cells(1, columns) |-> Matrices!At(a, p[1], p[2])]
<1>1. a.rows = rows /\ a.columns = columns
  BY MatrixOfShape
<1>2. Matrices!Sub(a, 1, columns) = Matrices!Tabulate(1, columns, cells)
  BY <1>1, Zenon DEF Matrices!Sub
<1>3. cells \in [Matrices!Cells(1, columns) -> Element]
  <2>1. ASSUME NEW p \in Matrices!Cells(1, columns) PROVE Matrices!At(a, p[1], p[2]) \in Element
    <3>1. p[1] \in 0 .. 1 - 1 /\ p[2] \in 0 .. columns - 1
      BY DEF Matrices!Cells
    <3> QED BY <3>1, ElementAt
  <2> QED BY <2>1
<1>4. \A r \in 0 .. 1 - 1, c \in 0 .. columns - 1 : cells[<<r, c>>] = Matrices!At(a, r, c)
  BY DEF Matrices!Cells
<1>5. 0 \in Element
  BY ElementsOfT DEF Element
<1> HIDE DEF cells
<1>6. Holds(Matrices!Tabulate(1, columns, cells), 1, columns, Element, cells)
  BY <1>3, <1>5, Tabulated
<1>7. Holds(Matrices!Sub(a, 1, columns), 1, columns, Element, cells)
  BY <1>2, <1>6
<1> QED BY <1>4, <1>7, Zenon DEF Holds

-----------------------------------------------------------------------------
(* The laws of products and transposes.                                    *)

\* Two cells with the same products have the same sum.
LEMMA SameTerms ==
  ASSUME NEW inner \in Nat \ {0}, NEW a, NEW b, NEW p, NEW q, NEW r, NEW c, NEW s, NEW d,
         \A k \in 0 .. inner - 1 :
           Matrices!At(a, r, k) * Matrices!At(b, k, c) = Matrices!At(p, s, k) * Matrices!At(q, k, d)
  PROVE  SumOf(Terms(a, b, inner, r, c), 0 .. inner - 1) = SumOf(Terms(p, q, inner, s, d), 0 .. inner - 1)
<1> DEFINE all == 0 .. inner - 1
           f == Terms(a, b, inner, r, c)
           g == Terms(p, q, inner, s, d)
<1>1. \A k \in all : f[k] = g[k]
  BY DEF Terms
<1>2. IsFiniteSet(all)
  BY FiniteBelow
<1> HIDE DEF all, f, g
<1>3. SumOf(f, all) = SumOf(g, all)
  BY <1>1, <1>2, SumOfSame
<1> QED BY <1>3 DEF all, f, g

\* Transposition twice.
LEMMA TransposedTwice ==
  ASSUME NEW rows \in Nat \ {0}, NEW columns \in Nat \ {0}, NEW a \in MatricesOf(rows, columns, Element)
  PROVE  Matrices!Transposed(Matrices!Transposed(a)) = a
<1> DEFINE t == Matrices!Transposed(a)
           u == Matrices!Transposed(t)
<1>1. /\ t \in MatricesOf(columns, rows, Element)
      /\ \A r \in 0 .. columns - 1, c \in 0 .. rows - 1 : Matrices!At(t, r, c) = Matrices!At(a, c, r)
  BY TransposedIs
<1> HIDE DEF t
<1>2. /\ u \in MatricesOf(rows, columns, Element)
      /\ \A r \in 0 .. rows - 1, c \in 0 .. columns - 1 : Matrices!At(u, r, c) = Matrices!At(t, c, r)
  BY <1>1, TransposedIs
<1> HIDE DEF u
<1>3. \A r \in 0 .. rows - 1, c \in 0 .. columns - 1 : Matrices!At(u, r, c) = Matrices!At(a, r, c)
  BY <1>1, <1>2
<1>4. u = a
  BY <1>2, <1>3, SameElements
<1> QED BY <1>4 DEF u, t

\* The product of a matrix and its transpose.
LEMMA ProductOfTransposed ==
  ASSUME NEW rows \in Nat \ {0}, NEW columns \in Nat \ {0}, NEW a \in MatricesOf(rows, columns, Element)
  PROVE  Matrices!Transposed(Matrices!MatMul(a, Matrices!Transposed(a))) = Matrices!MatMul(a, Matrices!Transposed(a))
<1> DEFINE t == Matrices!Transposed(a)
           product == Matrices!MatMul(a, t)
           u == Matrices!Transposed(product)
<1>1. /\ t \in MatricesOf(columns, rows, Element)
      /\ \A r \in 0 .. columns - 1, c \in 0 .. rows - 1 : Matrices!At(t, r, c) = Matrices!At(a, c, r)
  BY TransposedIs
<1> HIDE DEF t
<1>2. IsProduct(product, a, t, rows, columns, rows)
  BY <1>1, ProductIs
<1> HIDE DEF product
<1>3. product \in MatricesOf(rows, rows, Element)
  BY <1>2 DEF IsProduct
<1>4. /\ u \in MatricesOf(rows, rows, Element)
      /\ \A r \in 0 .. rows - 1, c \in 0 .. rows - 1 : Matrices!At(u, r, c) = Matrices!At(product, c, r)
  BY <1>3, TransposedIs
<1> HIDE DEF u
<1>5. ASSUME NEW r \in 0 .. rows - 1, NEW c \in 0 .. rows - 1
      PROVE  Matrices!At(product, c, r) = Matrices!At(product, r, c)
  <2>1. ASSUME NEW k \in 0 .. columns - 1
        PROVE  Matrices!At(a, c, k) * Matrices!At(t, k, r) = Matrices!At(a, r, k) * Matrices!At(t, k, c)
    <3>1. Matrices!At(t, k, r) = Matrices!At(a, r, k) /\ Matrices!At(t, k, c) = Matrices!At(a, c, k)
      BY <1>1
    <3>2. Matrices!At(a, r, k) \in Element /\ Matrices!At(a, c, k) \in Element
      BY ElementAt
    <3>3. Matrices!At(a, r, k) \in Int /\ Matrices!At(a, c, k) \in Int
      BY <3>2, ElementsOfT DEF Element
    <3> QED BY <3>1, <3>3
  <2>2. SumOf(Terms(a, t, columns, c, r), 0 .. columns - 1) = SumOf(Terms(a, t, columns, r, c), 0 .. columns - 1)
    BY <2>1, SameTerms
  <2> QED BY <1>2, <2>2 DEF IsProduct
<1>6. u = product
  <2>1. \A r \in 0 .. rows - 1, c \in 0 .. rows - 1 : Matrices!At(u, r, c) = Matrices!At(product, r, c)
    BY <1>4, <1>5
  <2> QED BY <1>3, <1>4, <2>1, SameElements
<1> QED BY <1>6 DEF u, product, t

\* The identity is one of products, on either side.
LEMMA ProductsWithIdentity ==
  ASSUME NEW rows \in Nat \ {0}, NEW columns \in Nat \ {0}, NEW a \in MatricesOf(rows, columns, Element)
  PROVE  /\ Matrices!MatMul(Matrices!Identity(rows, rows), a) = a
         /\ Matrices!MatMul(a, Matrices!Identity(columns, columns)) = a
<1>0. ASSUME NEW r \in 0 .. rows - 1, NEW c \in 0 .. columns - 1
      PROVE  Matrices!At(a, r, c) \in Int /\ Matrices!At(a, r, c) % Modulus = Matrices!At(a, r, c)
  <2>1. Matrices!At(a, r, c) \in Element
    BY ElementAt
  <2> DEFINE x == Matrices!At(a, r, c)
  <2> HIDE DEF x
  <2>2. x \in 0 .. Modulus - 1 /\ Modulus \in Nat \ {0}
    BY <2>1, ElementsOfT DEF x, Element
  <2>3. x \in Int /\ x % Modulus = x
    BY <2>2, SmallResidue
  <2> QED BY <2>3 DEF x
<1>1. Matrices!MatMul(Matrices!Identity(rows, rows), a) = a
  <2> DEFINE one == Matrices!Identity(rows, rows)
             product == Matrices!MatMul(one, a)
  <2>1. /\ one \in MatricesOf(rows, rows, Element)
        /\ \A r \in 0 .. rows - 1, c \in 0 .. rows - 1 : Matrices!At(one, r, c) = IF r = c THEN 1 ELSE 0
    BY IdentityIs
  <2> HIDE DEF one
  <2>2. IsProduct(product, one, a, rows, rows, columns)
    BY <2>1, ProductIs
  <2> HIDE DEF product
  <2>3. ASSUME NEW r \in 0 .. rows - 1, NEW c \in 0 .. columns - 1
        PROVE  Matrices!At(product, r, c) = Matrices!At(a, r, c)
    <3> DEFINE f == Terms(one, a, rows, r, c)
               all == 0 .. rows - 1
    <3>1. ASSUME NEW k \in all PROVE f[k] = IF k = r THEN Matrices!At(a, r, c) ELSE 0
      <4>1. f[k] = Matrices!At(one, r, k) * Matrices!At(a, k, c)
        BY DEF Terms
      <4>2. Matrices!At(one, r, k) = (IF r = k THEN 1 ELSE 0) /\ Matrices!At(a, k, c) \in Int
        BY <1>0, <2>1
      <4>3. CASE k = r
        <5>1. Matrices!At(one, r, k) = 1
          BY <4>2, <4>3
        <5>2. 1 * Matrices!At(a, k, c) = Matrices!At(a, k, c)
          BY <4>2
        <5> QED BY <4>1, <4>3, <5>1, <5>2
      <4>4. CASE k # r
        <5>1. Matrices!At(one, r, k) = 0
          BY <4>2, <4>4
        <5>2. 0 * Matrices!At(a, k, c) = 0
          BY <4>2
        <5> QED BY <4>1, <4>4, <5>1, <5>2
      <4> QED BY <4>3, <4>4
    <3>2. IsFiniteSet(all)
      BY FiniteBelow
    <3> HIDE DEF f
    <3>3. SumOf(f, all) = Matrices!At(a, r, c)
      <4>1. f[r] \in Int /\ f[r] = Matrices!At(a, r, c) /\ \A y \in all : y # r => f[y] = 0
        BY <1>0, <3>1
      <4>2. r \in all
        OBVIOUS
      <4> HIDE DEF all
      <4>3. SumOf(f, all) = f[r]
        BY <3>2, <4>1, <4>2, SumOfOne, Zenon
      <4> QED BY <4>1, <4>3
    <3>4. Matrices!At(product, r, c) = SumOf(f, all) % Modulus
      BY <2>2 DEF IsProduct, f
    <3> HIDE DEF all
    <3> QED BY <1>0, <3>3, <3>4
  <2>4. product \in MatricesOf(rows, columns, Element)
    BY <2>2 DEF IsProduct
  <2>5. product = a
    BY <2>3, <2>4, SameElements
  <2> QED BY <2>5 DEF product, one
<1>2. Matrices!MatMul(a, Matrices!Identity(columns, columns)) = a
  <2> DEFINE one == Matrices!Identity(columns, columns)
             product == Matrices!MatMul(a, one)
  <2>1. /\ one \in MatricesOf(columns, columns, Element)
        /\ \A r \in 0 .. columns - 1, c \in 0 .. columns - 1 : Matrices!At(one, r, c) = IF r = c THEN 1 ELSE 0
    BY IdentityIs
  <2> HIDE DEF one
  <2>2. IsProduct(product, a, one, rows, columns, columns)
    BY <2>1, ProductIs
  <2> HIDE DEF product
  <2>3. ASSUME NEW r \in 0 .. rows - 1, NEW c \in 0 .. columns - 1
        PROVE  Matrices!At(product, r, c) = Matrices!At(a, r, c)
    <3> DEFINE f == Terms(a, one, columns, r, c)
               all == 0 .. columns - 1
    <3>1. ASSUME NEW k \in all PROVE f[k] = IF k = c THEN Matrices!At(a, r, c) ELSE 0
      <4>1. f[k] = Matrices!At(a, r, k) * Matrices!At(one, k, c)
        BY DEF Terms
      <4>2. Matrices!At(one, k, c) = (IF k = c THEN 1 ELSE 0) /\ Matrices!At(a, r, k) \in Int
        BY <1>0, <2>1
      <4>3. CASE k = c
        <5>1. Matrices!At(one, k, c) = 1
          BY <4>2, <4>3
        <5>2. Matrices!At(a, r, k) * 1 = Matrices!At(a, r, k)
          BY <4>2
        <5> QED BY <4>1, <4>3, <5>1, <5>2
      <4>4. CASE k # c
        <5>1. Matrices!At(one, k, c) = 0
          BY <4>2, <4>4
        <5>2. Matrices!At(a, r, k) * 0 = 0
          BY <4>2
        <5> QED BY <4>1, <4>4, <5>1, <5>2
      <4> QED BY <4>3, <4>4
    <3>2. IsFiniteSet(all)
      BY FiniteBelow
    <3> HIDE DEF f
    <3>3. SumOf(f, all) = Matrices!At(a, r, c)
      <4>1. f[c] \in Int /\ f[c] = Matrices!At(a, r, c) /\ \A y \in all : y # c => f[y] = 0
        BY <1>0, <3>1
      <4>2. c \in all
        OBVIOUS
      <4> HIDE DEF all
      <4>3. SumOf(f, all) = f[c]
        BY <3>2, <4>1, <4>2, SumOfOne, Zenon
      <4> QED BY <4>1, <4>3
    <3>4. Matrices!At(product, r, c) = SumOf(f, all) % Modulus
      BY <2>2 DEF IsProduct, f
    <3> HIDE DEF all
    <3> QED BY <1>0, <3>3, <3>4
  <2>4. product \in MatricesOf(rows, columns, Element)
    BY <2>2 DEF IsProduct
  <2>5. product = a
    BY <2>3, <2>4, SameElements
  <2> QED BY <2>5 DEF product, one
<1> QED BY <1>1, <1>2

\* The first row of a product is that of the first row.
LEMMA FirstRowOfProduct ==
  ASSUME NEW rows \in Nat \ {0}, NEW inner \in Nat \ {0}, NEW columns \in Nat \ {0},
         NEW a \in MatricesOf(rows, inner, Element), NEW b \in MatricesOf(inner, columns, Element)
  PROVE  Matrices!Sub(Matrices!MatMul(a, b), 1, columns) = Matrices!MatMul(Matrices!GetRow(a, 0), b)
<1> DEFINE product == Matrices!MatMul(a, b)
           first == Matrices!Sub(product, 1, columns)
           row == Matrices!GetRow(a, 0)
           one == Matrices!MatMul(row, b)
<1>0. 0 \in 0 .. rows - 1 /\ 0 \in 0 .. 1 - 1 /\ 1 \in Nat \ {0} /\ \A r \in 0 .. 1 - 1 : r = 0
  OBVIOUS
<1>1. IsProduct(product, a, b, rows, inner, columns)
  BY ProductIs
<1> HIDE DEF product
<1>2. product \in MatricesOf(rows, columns, Element)
  BY <1>1 DEF IsProduct
<1>3. /\ first \in MatricesOf(1, columns, Element)
      /\ \A r \in 0 .. 1 - 1, c \in 0 .. columns - 1 : Matrices!At(first, r, c) = Matrices!At(product, r, c)
  BY <1>2, FirstRowIs
<1> HIDE DEF first
<1>4. /\ row \in MatricesOf(1, inner, Element)
      /\ \A r \in 0 .. 1 - 1, k \in 0 .. inner - 1 : Matrices!At(row, r, k) = Matrices!At(a, 0, k)
  BY <1>0, RowIs
<1> HIDE DEF row
<1>5. IsProduct(one, row, b, 1, inner, columns)
  BY <1>0, <1>4, ProductIs
<1> HIDE DEF one
<1>6. ASSUME NEW r \in 0 .. 1 - 1, NEW c \in 0 .. columns - 1
      PROVE  Matrices!At(first, r, c) = Matrices!At(one, r, c)
  <2>1. SumOf(Terms(a, b, inner, 0, c), 0 .. inner - 1) = SumOf(Terms(row, b, inner, 0, c), 0 .. inner - 1)
    <3>1. \A k \in 0 .. inner - 1 :
            Matrices!At(a, 0, k) * Matrices!At(b, k, c) = Matrices!At(row, 0, k) * Matrices!At(b, k, c)
      BY <1>0, <1>4
    <3> QED BY <3>1, SameTerms
  <2>2. r = 0 /\ Matrices!At(first, 0, c) = Matrices!At(product, 0, c)
    BY <1>0, <1>3
  <2>3. Matrices!At(product, 0, c) = SumOf(Terms(a, b, inner, 0, c), 0 .. inner - 1) % Modulus
    BY <1>0, <1>1 DEF IsProduct
  <2>4. Matrices!At(one, 0, c) = SumOf(Terms(row, b, inner, 0, c), 0 .. inner - 1) % Modulus
    BY <1>0, <1>5 DEF IsProduct
  <2> QED BY <2>1, <2>2, <2>3, <2>4
<1>7. one \in MatricesOf(1, columns, Element)
  BY <1>5 DEF IsProduct
<1>8. first = one
  BY <1>0, <1>3, <1>6, <1>7, SameElements
<1> QED BY <1>8 DEF first, one, product, row

-----------------------------------------------------------------------------
(* Dot products.                                                           *)

\* The dot product of two vectors, whichever way they lie.
Products(a, b, n) == [k \in 0 .. n - 1 |-> a.data_[k] * b.data_[k]]

VectorOf(a, n) == DOMAIN a.data_ = 0 .. n - 1 /\ \A k \in 0 .. n - 1 : a.data_[k] \in Int

\* Dot is the sum of the products of the elements.
LEMMA DotIs ==
  ASSUME NEW n \in Nat \ {0}, NEW a, NEW b, VectorOf(a, n), VectorOf(b, n)
  PROVE  Matrices!Dot(a, b) = SumOf(Products(a, b, n), 0 .. n - 1) % Modulus
<1>1. Matrices!Dot(a, b) = Matrices!SumOver(Products(a, b, n))
  <2>1. DOMAIN a.data_ = 0 .. n - 1
    BY DEF VectorOf
  <2> QED BY <2>1, Zenon DEF Matrices!Dot, Matrices!Coordinate, Products
<1>2. DOMAIN Products(a, b, n) = 0 .. n - 1
  BY DEF Products
<1> QED BY <1>1, <1>2, SumOverIs

\* Rows and columns are vectors.
LEMMA LinesAreVectors ==
  ASSUME NEW n \in Nat \ {0}, NEW a, a \in MatricesOf(1, n, Element) \/ a \in MatricesOf(n, 1, Element)
  PROVE  VectorOf(a, n)
<1>1. a.data_ \in [0 .. n - 1 -> Element]
  <2>1. CASE a \in MatricesOf(1, n, Element)
    <3>1. a.data_ \in [0 .. 1 * n - 1 -> Element]
      BY <2>1, MatrixOfShape
    <3>2. 1 * n = n
      OBVIOUS
    <3> QED BY <3>1, <3>2
  <2>2. CASE a \in MatricesOf(n, 1, Element)
    <3>1. a.data_ \in [0 .. n * 1 - 1 -> Element]
      BY <2>2, MatrixOfShape
    <3>2. n * 1 = n
      OBVIOUS
    <3> QED BY <3>1, <3>2
  <2> QED BY <2>1, <2>2
<1>2. Element \subseteq Int
  BY ElementsOfT DEF Element
<1> QED BY <1>1, <1>2, Zenon DEF VectorOf

\* Each cell of a product is the dot product of a row and a column.
LEMMA CellsAreDots ==
  ASSUME NEW rows \in Nat \ {0}, NEW inner \in Nat \ {0}, NEW columns \in Nat \ {0},
         NEW a \in MatricesOf(rows, inner, Element), NEW b \in MatricesOf(inner, columns, Element),
         NEW r \in 0 .. rows - 1, NEW c \in 0 .. columns - 1
  PROVE  Matrices!At(Matrices!MatMul(a, b), r, c) = Matrices!Dot(Matrices!GetRow(a, r), Matrices!GetColumn(b, c))
<1> DEFINE row == Matrices!GetRow(a, r)
           column == Matrices!GetColumn(b, c)
<1>0. 0 \in 0 .. 1 - 1 /\ 1 \in Nat \ {0}
  OBVIOUS
<1>1. /\ row \in MatricesOf(1, inner, Element)
      /\ \A s \in 0 .. 1 - 1, k \in 0 .. inner - 1 : Matrices!At(row, s, k) = Matrices!At(a, r, k)
  BY RowIs
<1>2. /\ column \in MatricesOf(inner, 1, Element)
      /\ \A k \in 0 .. inner - 1, d \in 0 .. 1 - 1 : Matrices!At(column, k, d) = Matrices!At(b, k, c)
  BY ColumnIs
<1> HIDE DEF row, column
<1>3. VectorOf(row, inner) /\ VectorOf(column, inner)
  BY <1>1, <1>2, LinesAreVectors
<1>4. Matrices!Dot(row, column) = SumOf(Products(row, column, inner), 0 .. inner - 1) % Modulus
  BY <1>3, DotIs
<1>5. ASSUME NEW k \in 0 .. inner - 1
      PROVE  row.data_[k] = Matrices!At(a, r, k) /\ column.data_[k] = Matrices!At(b, k, c)
  <2>1. Matrices!At(row, 0, k) = row.data_[0 * inner + k] /\ Matrices!At(row, 0, k) = Matrices!At(a, r, k)
    BY <1>0, <1>1, ElementAt
  <2>2. Matrices!At(column, k, 0) = column.data_[k * 1 + 0] /\ Matrices!At(column, k, 0) = Matrices!At(b, k, c)
    BY <1>0, <1>2, ElementAt
  <2>3. 0 * inner + k = k /\ k * 1 + 0 = k
    OBVIOUS
  <2> QED BY <2>1, <2>2, <2>3
<1> DEFINE all == 0 .. inner - 1
           f == Products(row, column, inner)
           g == Terms(a, b, inner, r, c)
<1>6. \A k \in all : f[k] = g[k]
  BY <1>5 DEF Products, Terms
<1>7. IsFiniteSet(all)
  BY FiniteBelow
<1>8. SumOf(f, all) = SumOf(g, all)
  <2> HIDE DEF f, g, all
  <2> QED BY <1>6, <1>7, SumOfSame
<1>9. Matrices!At(Matrices!MatMul(a, b), r, c) = SumOf(g, all) % Modulus
  <2>1. IsProduct(Matrices!MatMul(a, b), a, b, rows, inner, columns)
    BY ProductIs
  <2> QED BY <2>1 DEF IsProduct
<1> QED BY <1>4, <1>8, <1>9 DEF row, column

\* Sums of two and of three terms.
LEMMA SumsOfFew ==
  ASSUME NEW f
  PROVE  /\ (\A k \in 0 .. 1 : f[k] \in Int) => SumOf(f, 0 .. 1) = f[0] + f[1]
         /\ (\A k \in 0 .. 2 : f[k] \in Int) => SumOf(f, 0 .. 2) = f[0] + f[1] + f[2]
<1>1. IsFiniteSet({}) /\ \A last \in 1 .. 2 : IsFiniteSet(0 .. last)
  <2>1. ASSUME NEW last \in 1 .. 2 PROVE IsFiniteSet(0 .. last)
    <3>1. last \in Int /\ 0 \in Int
      OBVIOUS
    <3> QED BY <3>1, FS_Interval
  <2> QED BY <2>1, FS_EmptySet
<1>2. SumOf(f, {}) = 0
  BY <1>1, SumOfZeros
<1>3. ASSUME NEW last \in 1 .. 2, \A k \in 0 .. last : f[k] \in Int
      PROVE  SumOf(f, 0 .. last) = IF last = 1 THEN f[0] + f[1] ELSE f[0] + f[1] + f[2]
  <2> DEFINE s == 0 .. last
             s1 == s \ {0}
             s2 == s1 \ {1}
             s3 == s2 \ {2}
  <2>1. 0 \in s /\ 1 \in s1 /\ (last = 2 => 2 \in s2) /\ s3 = {} /\ (last = 1 => s2 = {}) /\ 1 \in s
    OBVIOUS
  <2>2. IsFiniteSet(s) /\ IsFiniteSet(s1) /\ IsFiniteSet(s2)
    <3>1. IsFiniteSet(s)
      BY <1>1, Zenon
    <3> HIDE DEF s
    <3> QED BY <3>1, FS_Subset
  <2>3. (\A k \in s : f[k] \in Int) /\ (\A k \in s1 : f[k] \in Int) /\ \A k \in s2 : f[k] \in Int
    BY <1>3
  <2> HIDE DEF s
  <2>4. SumOf(f, s) = f[0] + SumOf(f, s1)
    BY <2>1, <2>2, <2>3, SumTakesOne
  <2> HIDE DEF s1
  <2>5. SumOf(f, s1) = f[1] + SumOf(f, s2)
    BY <2>1, <2>2, <2>3, SumTakesOne
  <2> HIDE DEF s2
  <2>6. last = 2 => SumOf(f, s2) = f[2] + SumOf(f, s3)
    BY <2>1, <2>2, <2>3, SumTakesOne
  <2> HIDE DEF s3
  <2>7. f[0] \in Int /\ f[1] \in Int /\ (last = 2 => f[2] \in Int)
    BY <1>3
  <2>8. CASE last = 1
    <3>1. SumOf(f, s2) = 0
      BY <1>2, <2>1, <2>8
    <3> QED BY <2>4, <2>5, <2>7, <2>8, <3>1 DEF s
  <2>9. CASE last = 2
    <3>1. SumOf(f, s3) = 0
      BY <1>2, <2>1
    <3> QED BY <2>4, <2>5, <2>6, <2>7, <2>9, <3>1 DEF s
  <2> QED BY <2>8, <2>9
<1> QED BY <1>3

\* The dot products of vectors of two and of three elements, written out.
LEMMA DotsOfFew ==
  ASSUME NEW a, NEW b
  PROVE  /\ VectorOf(a, 2) /\ VectorOf(b, 2) =>
              Matrices!Dot(a, b) = (a.data_[0] * b.data_[0] + a.data_[1] * b.data_[1]) % Modulus
         /\ VectorOf(a, 3) /\ VectorOf(b, 3) =>
              Matrices!Dot(a, b) = (a.data_[0] * b.data_[0] + a.data_[1] * b.data_[1] + a.data_[2] * b.data_[2]) % Modulus
<1>1. ASSUME NEW n \in {2, 3}, VectorOf(a, n), VectorOf(b, n)
      PROVE  /\ Matrices!Dot(a, b) = SumOf(Products(a, b, n), 0 .. n - 1) % Modulus
             /\ \A k \in 0 .. n - 1 : Products(a, b, n)[k] = a.data_[k] * b.data_[k] /\ Products(a, b, n)[k] \in Int
  <2>1. Matrices!Dot(a, b) = SumOf(Products(a, b, n), 0 .. n - 1) % Modulus
    <3>1. n \in Nat \ {0}
      OBVIOUS
    <3> QED BY <1>1, <3>1, DotIs
  <2>2. ASSUME NEW k \in 0 .. n - 1
        PROVE  Products(a, b, n)[k] = a.data_[k] * b.data_[k] /\ Products(a, b, n)[k] \in Int
    <3>1. Products(a, b, n)[k] = a.data_[k] * b.data_[k]
      BY DEF Products
    <3>2. a.data_[k] \in Int /\ b.data_[k] \in Int
      BY <1>1 DEF VectorOf
    <3> QED BY <3>1, <3>2
  <2> QED BY <2>1, <2>2
<1>2. ASSUME VectorOf(a, 2), VectorOf(b, 2)
      PROVE  Matrices!Dot(a, b) = (a.data_[0] * b.data_[0] + a.data_[1] * b.data_[1]) % Modulus
  <2> DEFINE f == Products(a, b, 2)
  <2>1. Matrices!Dot(a, b) = SumOf(f, 0 .. 1) % Modulus /\ \A k \in 0 .. 1 : f[k] = a.data_[k] * b.data_[k] /\ f[k] \in Int
    BY <1>1, <1>2
  <2> HIDE DEF f
  <2>2. SumOf(f, 0 .. 1) = f[0] + f[1]
    BY <2>1, SumsOfFew
  <2> QED BY <2>1, <2>2
<1>3. ASSUME VectorOf(a, 3), VectorOf(b, 3)
      PROVE  Matrices!Dot(a, b) = (a.data_[0] * b.data_[0] + a.data_[1] * b.data_[1] + a.data_[2] * b.data_[2]) % Modulus
  <2> DEFINE f == Products(a, b, 3)
  <2>1. Matrices!Dot(a, b) = SumOf(f, 0 .. 2) % Modulus /\ \A k \in 0 .. 2 : f[k] = a.data_[k] * b.data_[k] /\ f[k] \in Int
    BY <1>1, <1>3
  <2> HIDE DEF f
  <2>2. SumOf(f, 0 .. 2) = f[0] + f[1] + f[2]
    BY <2>1, SumsOfFew
  <2> QED BY <2>1, <2>2
<1> QED BY <1>2, <1>3

-----------------------------------------------------------------------------
(* Cross products.                                                         *)

\* The elements of a cross product before they wrap, and Lagrange's identity.
LEMMA CrossIdentities ==
  ASSUME NEW x0 \in Int, NEW x1 \in Int, NEW x2 \in Int, NEW y0 \in Int, NEW y1 \in Int, NEW y2 \in Int
  PROVE  /\ (x1 * y2 - x2 * y1) * x0 + (x2 * y0 - x0 * y2) * x1 + (x0 * y1 - x1 * y0) * x2 = 0
         /\ (x1 * y2 - x2 * y1) * y0 + (x2 * y0 - x0 * y2) * y1 + (x0 * y1 - x1 * y0) * y2 = 0
         /\ (x1 * y2 - x2 * y1) * (x1 * y2 - x2 * y1) + (x2 * y0 - x0 * y2) * (x2 * y0 - x0 * y2)
              + (x0 * y1 - x1 * y0) * (x0 * y1 - x1 * y0) =
              (x0 * x0 + x1 * x1 + x2 * x2) * (y0 * y0 + y1 * y1 + y2 * y2)
                - (x0 * y0 + x1 * y1 + x2 * y2) * (x0 * y0 + x1 * y1 + x2 * y2)
         /\ (x0 * y1 - x1 * y0) * (x0 * y1 - x1 * y0) =
              (x0 * x0 + x1 * x1) * (y0 * y0 + y1 * y1) - (x0 * y0 + x1 * y1) * (x0 * y0 + x1 * y1)
<1>1. (x1 * y2 - x2 * y1) * x0 + (x2 * y0 - x0 * y2) * x1 + (x0 * y1 - x1 * y0) * x2 = 0
  OBVIOUS
<1>2. (x1 * y2 - x2 * y1) * y0 + (x2 * y0 - x0 * y2) * y1 + (x0 * y1 - x1 * y0) * y2 = 0
  OBVIOUS
<1>3. (x1 * y2 - x2 * y1) * (x1 * y2 - x2 * y1) + (x2 * y0 - x0 * y2) * (x2 * y0 - x0 * y2)
        + (x0 * y1 - x1 * y0) * (x0 * y1 - x1 * y0) =
        (x0 * x0 + x1 * x1 + x2 * x2) * (y0 * y0 + y1 * y1 + y2 * y2)
          - (x0 * y0 + x1 * y1 + x2 * y2) * (x0 * y0 + x1 * y1 + x2 * y2)
  OBVIOUS
<1>4. (x0 * y1 - x1 * y0) * (x0 * y1 - x1 * y0) =
        (x0 * x0 + x1 * x1) * (y0 * y0 + y1 * y1) - (x0 * y0 + x1 * y1) * (x0 * y0 + x1 * y1)
  OBVIOUS
<1> QED BY <1>1, <1>2, <1>3, <1>4

\* Congruent vectors of three have congruent dot products.
LEMMA SameModOfThree ==
  ASSUME NEW N \in Nat \ {0},
         NEW u0, NEW u1, NEW u2, NEW p0, NEW p1, NEW p2, SameMod(N, u0, p0), SameMod(N, u1, p1), SameMod(N, u2, p2),
         NEW v0, NEW v1, NEW v2, NEW q0, NEW q1, NEW q2, SameMod(N, v0, q0), SameMod(N, v1, q1), SameMod(N, v2, q2)
  PROVE  SameMod(N, u0 * v0 + u1 * v1 + u2 * v2, p0 * q0 + p1 * q1 + p2 * q2)
<1>1. SameMod(N, u0 * v0, p0 * q0) /\ SameMod(N, u1 * v1, p1 * q1) /\ SameMod(N, u2 * v2, p2 * q2)
  BY SameModCombines, Zenon
<1>2. SameMod(N, u0 * v0 + u1 * v1, p0 * q0 + p1 * q1)
  BY <1>1, SameModCombines, Zenon
<1> QED BY <1>1, <1>2, SameModCombines, Zenon

\* The cross product in space is orthogonal to its factors and as long as it should be.
LEMMA CrossInSpace ==
  ASSUME NEW a \in MatricesOf(1, 3, Element), NEW b \in MatricesOf(1, 3, Element)
  PROVE  /\ Matrices!Dot(Matrices!Cross(a, b), a) = 0 /\ Matrices!Dot(Matrices!Cross(a, b), b) = 0
         /\ Matrices!Magnitude(Matrices!Cross(a, b)) =
              (Matrices!Magnitude(a) * Matrices!Magnitude(b) - Matrices!Dot(a, b) * Matrices!Dot(a, b)) % Modulus
<1> DEFINE N == Modulus
           x0 == a.data_[0]
           x1 == a.data_[1]
           x2 == a.data_[2]
           y0 == b.data_[0]
           y1 == b.data_[1]
           y2 == b.data_[2]
           p0 == x1 * y2 - x2 * y1
           p1 == x2 * y0 - x0 * y2
           p2 == x0 * y1 - x1 * y0
           u0 == p0 % N
           u1 == p1 % N
           u2 == p2 % N
           c == Matrices!Cross(a, b)
<1>1. VectorOf(a, 3) /\ VectorOf(b, 3)
  BY LinesAreVectors
<1>2. x0 \in Int /\ x1 \in Int /\ x2 \in Int /\ y0 \in Int /\ y1 \in Int /\ y2 \in Int
  BY <1>1 DEF VectorOf
<1>3. c.data_ = [place \in 0 .. 2 |-> IF place = 0 THEN u0 ELSE IF place = 1 THEN u1 ELSE u2]
  BY DEF Matrices!Cross, Matrices!Make, Matrices!Coordinate
<1>4. N \in Nat \ {0}
  BY ElementsOfT
<1> HIDE DEF x0, x1, x2, y0, y1, y2, c, N
<1>5. p0 \in Int /\ p1 \in Int /\ p2 \in Int
  BY <1>2
<1>6. /\ p0 * x0 + p1 * x1 + p2 * x2 = 0 /\ p0 * y0 + p1 * y1 + p2 * y2 = 0
      /\ p0 * p0 + p1 * p1 + p2 * p2 =
           (x0 * x0 + x1 * x1 + x2 * x2) * (y0 * y0 + y1 * y1 + y2 * y2)
             - (x0 * y0 + x1 * y1 + x2 * y2) * (x0 * y0 + x1 * y1 + x2 * y2)
  BY <1>2, CrossIdentities
<1> HIDE DEF p0, p1, p2
<1>7. SameMod(N, u0, p0) /\ SameMod(N, u1, p1) /\ SameMod(N, u2, p2)
  BY <1>4, <1>5, SameModResidue, Zenon
<1>8. u0 \in Int /\ u1 \in Int /\ u2 \in Int
  BY <1>7 DEF SameMod
<1> HIDE DEF u0, u1, u2
<1>9. c.data_[0] = u0 /\ c.data_[1] = u1 /\ c.data_[2] = u2 /\ VectorOf(c, 3)
  BY <1>3, <1>8 DEF VectorOf
<1>10. /\ SameMod(N, x0, x0) /\ SameMod(N, x1, x1) /\ SameMod(N, x2, x2)
       /\ SameMod(N, y0, y0) /\ SameMod(N, y1, y1) /\ SameMod(N, y2, y2)
  BY <1>2, <1>4, SameModResidue, Zenon
<1>11. 0 % N = 0
  <2>1. 0 \in 0 .. N - 1
    BY <1>4
  <2> QED BY <1>4, <2>1, SmallResidue
<1>12. Matrices!Dot(c, a) = 0
  <2>1. Matrices!Dot(c, a) = (u0 * x0 + u1 * x1 + u2 * x2) % N
    BY <1>1, <1>9, DotsOfFew DEF x0, x1, x2, N
  <2>2. SameMod(N, u0 * x0 + u1 * x1 + u2 * x2, p0 * x0 + p1 * x1 + p2 * x2)
    BY <1>4, <1>7, <1>10, SameModOfThree, Zenon
  <2> QED BY <1>6, <1>11, <2>1, <2>2 DEF SameMod
<1>13. Matrices!Dot(c, b) = 0
  <2>1. Matrices!Dot(c, b) = (u0 * y0 + u1 * y1 + u2 * y2) % N
    BY <1>1, <1>9, DotsOfFew DEF y0, y1, y2, N
  <2>2. SameMod(N, u0 * y0 + u1 * y1 + u2 * y2, p0 * y0 + p1 * y1 + p2 * y2)
    BY <1>4, <1>7, <1>10, SameModOfThree, Zenon
  <2> QED BY <1>6, <1>11, <2>1, <2>2 DEF SameMod
<1>14. Matrices!Magnitude(c) = (Matrices!Magnitude(a) * Matrices!Magnitude(b) - Matrices!Dot(a, b) * Matrices!Dot(a, b)) % N
  <2> DEFINE A == x0 * x0 + x1 * x1 + x2 * x2
             B == y0 * y0 + y1 * y1 + y2 * y2
             D == x0 * y0 + x1 * y1 + x2 * y2
  <2>1. /\ Matrices!Magnitude(c) = (u0 * u0 + u1 * u1 + u2 * u2) % N
        /\ Matrices!Magnitude(a) = A % N /\ Matrices!Magnitude(b) = B % N /\ Matrices!Dot(a, b) = D % N
    BY <1>1, <1>9, DotsOfFew DEF Matrices!Magnitude, x0, x1, x2, y0, y1, y2, N
  <2>2. SameMod(N, u0 * u0 + u1 * u1 + u2 * u2, p0 * p0 + p1 * p1 + p2 * p2)
    BY <1>4, <1>7, SameModOfThree, Zenon
  <2>3. A \in Int /\ B \in Int /\ D \in Int
    BY <1>2
  <2>4. p0 * p0 + p1 * p1 + p2 * p2 = A * B - D * D
    BY <1>6
  <2> HIDE DEF A, B, D
  <2>5. SameMod(N, A % N, A) /\ SameMod(N, B % N, B) /\ SameMod(N, D % N, D)
    BY <1>4, <2>3, SameModResidue, Zenon
  <2>6. SameMod(N, (A % N) * (B % N), A * B) /\ SameMod(N, (D % N) * (D % N), D * D)
    BY <1>4, <2>5, SameModCombines, Zenon
  <2>7. SameMod(N, (A % N) * (B % N) - (D % N) * (D % N), A * B - D * D)
    BY <1>4, <2>6, SameModCombines
  <2> QED BY <2>1, <2>2, <2>4, <2>7 DEF SameMod
<1> QED BY <1>12, <1>13, <1>14 DEF c, N

\* So is the one in the plane.
LEMMA CrossInThePlane ==
  ASSUME NEW a \in MatricesOf(1, 2, Element), NEW b \in MatricesOf(1, 2, Element)
  PROVE  (Matrices!CrossInPlane(a, b) * Matrices!CrossInPlane(a, b)) % Modulus =
           (Matrices!Magnitude(a) * Matrices!Magnitude(b) - Matrices!Dot(a, b) * Matrices!Dot(a, b)) % Modulus
<1> DEFINE N == Modulus
           x0 == a.data_[0]
           x1 == a.data_[1]
           y0 == b.data_[0]
           y1 == b.data_[1]
           p == x0 * y1 - x1 * y0
           A == x0 * x0 + x1 * x1
           B == y0 * y0 + y1 * y1
           D == x0 * y0 + x1 * y1
<1>1. VectorOf(a, 2) /\ VectorOf(b, 2)
  BY LinesAreVectors
<1>2. x0 \in Int /\ x1 \in Int /\ y0 \in Int /\ y1 \in Int
  BY <1>1 DEF VectorOf
<1>3. Matrices!CrossInPlane(a, b) = p % N
  BY DEF Matrices!CrossInPlane, Matrices!Coordinate
<1>4. N \in Nat \ {0}
  BY ElementsOfT
<1>5. Matrices!Magnitude(a) = A % N /\ Matrices!Magnitude(b) = B % N /\ Matrices!Dot(a, b) = D % N
  BY <1>1, DotsOfFew DEF Matrices!Magnitude
<1> HIDE DEF x0, x1, y0, y1, N
<1>6. p * p = A * B - D * D
  BY <1>2, CrossIdentities
<1>7. A \in Int /\ B \in Int /\ D \in Int /\ p \in Int
  BY <1>2
<1> HIDE DEF A, B, D, p
<1>8. SameMod(N, A % N, A) /\ SameMod(N, B % N, B) /\ SameMod(N, D % N, D) /\ SameMod(N, p % N, p)
  BY <1>4, <1>7, SameModResidue, Zenon
<1>9. /\ SameMod(N, (A % N) * (B % N), A * B) /\ SameMod(N, (D % N) * (D % N), D * D)
      /\ SameMod(N, (p % N) * (p % N), p * p)
  BY <1>4, <1>8, SameModCombines, Zenon
<1>10. SameMod(N, (A % N) * (B % N) - (D % N) * (D % N), A * B - D * D)
  BY <1>4, <1>9, SameModCombines, Zenon
<1>11. ((p % N) * (p % N)) % N = ((A % N) * (B % N) - (D % N) * (D % N)) % N
  BY <1>6, <1>9, <1>10 DEF SameMod
<1> QED BY <1>3, <1>5, <1>11 DEF N

-----------------------------------------------------------------------------
(* Products obey; transformed and cast matrices.                           *)

\* The laws of products.
LEMMA ProductsObey == MatrixTyped => Matrices!ProductLaws
<1> SUFFICES ASSUME MatrixTyped PROVE Matrices!ProductLaws
  OBVIOUS
<1>0. PICK shape \in Shapes : m \in MatricesOf(shape[1], shape[2], Element)
  BY DEF MatrixTyped
<1> DEFINE rows == shape[1]
           columns == shape[2]
           t == Matrices!Transposed(m)
           product == Matrices!MatMul(m, t)
<1>1. rows \in Nat \ {0} /\ columns \in Nat \ {0} /\ m \in MatricesOf(rows, columns, Element)
  BY <1>0, ShapesAre
<1> HIDE DEF rows, columns
<1>2. m.rows = rows /\ m.columns = columns /\ Matrices!RowIndices(m) = 0 .. rows - 1
  <2>1. m.rows = rows /\ m.columns = columns
    BY <1>1, MatrixOfShape
  <2> QED BY <2>1 DEF Matrices!RowIndices
<1>3. t \in MatricesOf(columns, rows, Element)
  BY <1>1, TransposedIs
<1>4. Matrices!Transposed(t) = m
  BY <1>1, TransposedTwice
<1>5. Matrices!Transposed(product) = product
  BY <1>1, ProductOfTransposed
<1>6. Matrices!MatMul(Matrices!Identity(rows, rows), m) = m /\ Matrices!MatMul(m, Matrices!Identity(columns, columns)) = m
  BY <1>1, ProductsWithIdentity
<1> HIDE DEF t
<1>7. Matrices!Sub(product, 1, rows) = Matrices!MatMul(Matrices!GetRow(m, 0), t)
  BY <1>1, <1>3, FirstRowOfProduct
<1>8. ASSUME NEW r \in 0 .. rows - 1, NEW c \in 0 .. rows - 1
      PROVE  Matrices!At(product, r, c) = Matrices!Dot(Matrices!GetRow(m, r), Matrices!GetColumn(t, c))
  BY <1>1, <1>3, CellsAreDots
<1>9. ASSUME NEW r \in 0 .. rows - 1 PROVE Matrices!GetRow(m, r) \in MatricesOf(1, columns, Element)
  BY <1>1, RowIs
<1>10. ASSUME columns = 3, NEW r \in 0 .. rows - 1, NEW s \in 0 .. rows - 1
       PROVE  LET a == Matrices!GetRow(m, r) b == Matrices!GetRow(m, s) IN
              /\ Matrices!Dot(Matrices!Cross(a, b), a) = 0 /\ Matrices!Dot(Matrices!Cross(a, b), b) = 0
              /\ Matrices!Magnitude(Matrices!Cross(a, b)) =
                   (Matrices!Magnitude(a) * Matrices!Magnitude(b) - Matrices!Dot(a, b) * Matrices!Dot(a, b)) % Modulus
  <2> DEFINE a == Matrices!GetRow(m, r)
             b == Matrices!GetRow(m, s)
  <2>1. a \in MatricesOf(1, 3, Element) /\ b \in MatricesOf(1, 3, Element)
    BY <1>9, <1>10
  <2> HIDE DEF a, b
  <2>2. /\ Matrices!Dot(Matrices!Cross(a, b), a) = 0 /\ Matrices!Dot(Matrices!Cross(a, b), b) = 0
        /\ Matrices!Magnitude(Matrices!Cross(a, b)) =
             (Matrices!Magnitude(a) * Matrices!Magnitude(b) - Matrices!Dot(a, b) * Matrices!Dot(a, b)) % Modulus
    BY <2>1, CrossInSpace
  <2> QED BY <2>2, Zenon DEF a, b
<1>11. ASSUME columns = 2, NEW r \in 0 .. rows - 1, NEW s \in 0 .. rows - 1
       PROVE  LET a == Matrices!GetRow(m, r) b == Matrices!GetRow(m, s) IN
              (Matrices!CrossInPlane(a, b) * Matrices!CrossInPlane(a, b)) % Modulus =
                (Matrices!Magnitude(a) * Matrices!Magnitude(b) - Matrices!Dot(a, b) * Matrices!Dot(a, b)) % Modulus
  <2> DEFINE a == Matrices!GetRow(m, r)
             b == Matrices!GetRow(m, s)
  <2>1. a \in MatricesOf(1, 2, Element) /\ b \in MatricesOf(1, 2, Element)
    BY <1>9, <1>11
  <2> HIDE DEF a, b
  <2>2. (Matrices!CrossInPlane(a, b) * Matrices!CrossInPlane(a, b)) % Modulus =
          (Matrices!Magnitude(a) * Matrices!Magnitude(b) - Matrices!Dot(a, b) * Matrices!Dot(a, b)) % Modulus
    BY <2>1, CrossInThePlane
  <2> QED BY <2>2, Zenon DEF a, b
<1> QED BY <1>2, <1>4, <1>5, <1>6, <1>7, <1>8, <1>10, <1>11, Zenon DEF Matrices!ProductLaws, t

\* Matrices of one shape are the same if their data are.
LEMMA SameData ==
  ASSUME NEW rows, NEW columns, NEW S, NEW R, NEW a \in MatricesOf(rows, columns, S), NEW b \in MatricesOf(rows, columns, R),
         \A place \in 0 .. rows * columns - 1 : a.data_[place] = b.data_[place]
  PROVE  a = b
<1>1. /\ a = Matrices!Make(rows, columns, a.data_) /\ b = Matrices!Make(rows, columns, b.data_)
      /\ a.data_ \in [0 .. rows * columns - 1 -> S] /\ b.data_ \in [0 .. rows * columns - 1 -> R]
  BY MatrixOfShape
<1> DEFINE all == 0 .. rows * columns - 1
           x == a.data_
           y == b.data_
<1>2. x \in [all -> S] /\ y \in [all -> R] /\ \A place \in all : x[place] = y[place]
  BY <1>1
<1> HIDE DEF all, x, y
<1>3. x = y
  BY ONLY <1>2
<1>4. a.data_ = b.data_
  BY <1>3 DEF x, y
<1> QED BY <1>1, <1>4

\* A matrix whose elements have each been mapped.
LEMMA TransformIs ==
  ASSUME NEW rows, NEW columns, NEW a \in MatricesOf(rows, columns, Element), NEW R, NEW F \in [Element -> R]
  PROVE  /\ Matrices!Transform(a, F) \in MatricesOf(rows, columns, R)
         /\ \A place \in 0 .. rows * columns - 1 : Matrices!Transform(a, F).data_[place] = F[a.data_[place]]
         /\ a.columns = Matrices!Transform(a, F).columns
<1> DEFINE all == 0 .. rows * columns - 1
           new == [place \in all |-> F[a.data_[place]]]
<1>1. a.data_ \in [all -> Element] /\ DOMAIN a.data_ = all /\ a.columns = columns
  <2>1. a.data_ \in [0 .. rows * columns - 1 -> Element] /\ a.columns = columns
    BY MatrixOfShape
  <2> QED BY <2>1
<1>2. Matrices!Transform(a, F) = [a EXCEPT !.data_ = new]
  BY <1>1, Zenon DEF Matrices!Transform
<1>3. new \in [all -> R]
  <2> HIDE DEF all
  <2> QED BY <1>1
<1>4. \A place \in all : new[place] = F[a.data_[place]]
  OBVIOUS
<1> HIDE DEF new
<1>5. [a EXCEPT !.data_ = new] \in MatricesOf(rows, columns, R) /\ [a EXCEPT !.data_ = new].data_ = new
  BY <1>3, Redone
<1>6. Matrices!Transform(a, F).columns = columns
  BY <1>2, <1>5, MatrixOfShape
<1> QED BY <1>1, <1>2, <1>4, <1>5, <1>6

\* Conversion to as many values, if there are not more of them.
LEMMA CastIs ==
  ASSUME NEW rows \in Nat \ {0}, NEW columns \in Nat \ {0}, NEW a \in MatricesOf(rows, columns, Element),
         NEW values \in 1 .. Modulus
  PROVE  /\ Matrices!Cast(a, values) \in MatricesOf(rows, columns, Element)
         /\ \A r \in 0 .. rows - 1, c \in 0 .. columns - 1 :
              Matrices!At(Matrices!Cast(a, values), r, c) = Matrices!At(a, r, c) % values
<1> DEFINE F == [x \in Matrices!T |-> x % values]
           b == Matrices!Transform(a, F)
<1>0. Modulus \in Nat \ {0} /\ values \in Nat \ {0} /\ Element = Matrices!T
  BY ElementsOfT
<1>1. F \in [Element -> Element]
  <2>1. ASSUME NEW x \in Element PROVE x % values \in Element
    <3>1. x \in Int
      BY <1>0 DEF Element
    <3>2. x % values \in 0 .. values - 1
      BY <1>0, <3>1, Residue, Zenon
    <3> DEFINE y == x % values
    <3> HIDE DEF y
    <3>3. y \in Element
      <4>1. y \in 0 .. values - 1
        BY <3>2 DEF y
      <4> QED BY <1>0, <4>1 DEF Element
    <3> QED BY <3>3 DEF y
  <2> QED BY <1>0, <2>1
<1>2. \A x \in Element : F[x] = x % values
  BY <1>0
<1>3. Matrices!Cast(a, values) = b
  BY Zenon DEF Matrices!Cast
<1> HIDE DEF F
<1>4. /\ b \in MatricesOf(rows, columns, Element)
      /\ \A place \in 0 .. rows * columns - 1 : b.data_[place] = F[a.data_[place]]
  BY <1>1, TransformIs
<1> HIDE DEF b
<1>5. ASSUME NEW r \in 0 .. rows - 1, NEW c \in 0 .. columns - 1
      PROVE  Matrices!At(b, r, c) = Matrices!At(a, r, c) % values
  <2>1. /\ Matrices!At(a, r, c) = a.data_[r * columns + c] /\ Matrices!At(a, r, c) \in Element
        /\ r * columns + c \in 0 .. rows * columns - 1
    BY ElementAt
  <2>2. Matrices!At(b, r, c) = b.data_[r * columns + c]
    BY <1>4, ElementAt
  <2> DEFINE place == r * columns + c
  <2> HIDE DEF place
  <2>3. Matrices!At(a, r, c) = a.data_[place] /\ Matrices!At(b, r, c) = b.data_[place] /\ b.data_[place] = F[a.data_[place]]
    BY <1>4, <2>1, <2>2 DEF place
  <2> QED BY <1>2, <2>1, <2>3
<1> QED BY <1>3, <1>4, <1>5

\* Conversion to a type of fewer values commutes with a product.
LEMMA CastOfProduct ==
  ASSUME NEW rows \in Nat \ {0}, NEW inner \in Nat \ {0}, NEW columns \in Nat \ {0},
         NEW a \in MatricesOf(rows, inner, Element), NEW b \in MatricesOf(inner, columns, Element),
         NEW values \in 1 .. Modulus, Modulus % values = 0
  PROVE  Matrices!Cast(Matrices!MatMul(a, b), values) =
           Matrices!Cast(Matrices!MatMul(Matrices!Cast(a, values), Matrices!Cast(b, values)), values)
<1> DEFINE u == Matrices!Cast(a, values)
           v == Matrices!Cast(b, values)
           p == Matrices!MatMul(a, b)
           q == Matrices!MatMul(u, v)
           left == Matrices!Cast(p, values)
           right == Matrices!Cast(q, values)
<1>0. Modulus \in Nat \ {0} /\ values \in Nat \ {0} /\ Element \subseteq Int
  BY ElementsOfT DEF Element
<1>1. /\ u \in MatricesOf(rows, inner, Element)
      /\ \A r \in 0 .. rows - 1, c \in 0 .. inner - 1 : Matrices!At(u, r, c) = Matrices!At(a, r, c) % values
  BY CastIs
<1>2. /\ v \in MatricesOf(inner, columns, Element)
      /\ \A r \in 0 .. inner - 1, c \in 0 .. columns - 1 : Matrices!At(v, r, c) = Matrices!At(b, r, c) % values
  BY CastIs
<1> HIDE DEF u, v
<1>3. IsProduct(p, a, b, rows, inner, columns) /\ IsProduct(q, u, v, rows, inner, columns)
  BY <1>1, <1>2, ProductIs
<1> HIDE DEF p, q
<1>4. p \in MatricesOf(rows, columns, Element) /\ q \in MatricesOf(rows, columns, Element)
  BY <1>3 DEF IsProduct
<1>5. /\ left \in MatricesOf(rows, columns, Element)
      /\ \A r \in 0 .. rows - 1, c \in 0 .. columns - 1 : Matrices!At(left, r, c) = Matrices!At(p, r, c) % values
  BY <1>4, CastIs
<1>6. /\ right \in MatricesOf(rows, columns, Element)
      /\ \A r \in 0 .. rows - 1, c \in 0 .. columns - 1 : Matrices!At(right, r, c) = Matrices!At(q, r, c) % values
  BY <1>4, CastIs
<1> HIDE DEF left, right
<1>7. ASSUME NEW r \in 0 .. rows - 1, NEW c \in 0 .. columns - 1
      PROVE  Matrices!At(left, r, c) = Matrices!At(right, r, c)
  <2> DEFINE all == 0 .. inner - 1
             f == Terms(a, b, inner, r, c)
             g == Terms(u, v, inner, r, c)
  <2>1. /\ SumOf(f, all) \in Int /\ Matrices!At(p, r, c) = SumOf(f, all) % Modulus
        /\ SumOf(g, all) \in Int /\ Matrices!At(q, r, c) = SumOf(g, all) % Modulus
    BY <1>3 DEF IsProduct
  <2>2. ASSUME NEW k \in all PROVE SameMod(values, f[k], g[k])
    <3> DEFINE x == Matrices!At(a, r, k)
               y == Matrices!At(b, k, c)
    <3>1. x \in Int /\ y \in Int
      <4>1. x \in Element /\ y \in Element
        BY ElementAt
      <4> QED BY <1>0, <4>1, Zenon
    <3>2. f[k] = x * y /\ g[k] = (x % values) * (y % values)
      <4>1. Matrices!At(u, r, k) = x % values /\ Matrices!At(v, k, c) = y % values
        BY <1>1, <1>2
      <4> HIDE DEF x, y
      <4> QED BY <4>1 DEF Terms, x, y
    <3> HIDE DEF x, y, f, g
    <3>3. SameMod(values, x, x % values) /\ SameMod(values, y, y % values)
      BY <1>0, <3>1, SameModResidue, Zenon
    <3>4. SameMod(values, x * y, (x % values) * (y % values))
      BY <1>0, <3>3, SameModCombines
    <3> QED BY <3>2, <3>4
  <2>3. IsFiniteSet(all)
    BY FiniteBelow
  <2> HIDE DEF f, g, all
  <2>4. SameMod(values, SumOf(f, all), SumOf(g, all))
    BY <1>0, <2>2, <2>3, SumsSameMod
  <2> DEFINE x == SumOf(f, all)
             y == SumOf(g, all)
  <2> HIDE DEF x, y
  <2>5. x \in Int /\ y \in Int
    BY <2>1 DEF x, y
  <2>6. SameMod(values, x % Modulus, x) /\ SameMod(values, y % Modulus, y)
    BY <1>0, <2>5, SameModOfMultiple, Zenon
  <2>7. (x % Modulus) % values = (y % Modulus) % values
    BY <2>4, <2>6 DEF SameMod, x, y
  <2> QED BY <1>5, <1>6, <2>1, <2>7 DEF x, y
<1>8. left = right
  BY <1>5, <1>6, <1>7, SameElements
<1> QED BY <1>8 DEF left, right, p, q, u, v

-----------------------------------------------------------------------------
(* Min, Max, Clamp and Lerp.                                               *)

\* Min and Max.
LEMMA MinAndMaxOf ==
  ASSUME NEW rows \in Nat \ {0}, NEW columns \in Nat \ {0}, NEW a \in MatricesOf(rows, columns, Element)
  PROVE  /\ Matrices!MinOf(a) \in Element /\ Matrices!MaxOf(a) \in Element
         /\ \A place \in 0 .. rows * columns - 1 :
              Matrices!MinOf(a) <= a.data_[place] /\ a.data_[place] <= Matrices!MaxOf(a)
<1> DEFINE all == 0 .. rows * columns - 1
           data == a.data_
           V == {data[place] : place \in all}
<1>0. data \in [all -> Element] /\ DOMAIN data = all /\ 0 \in all
  <2>1. a.data_ \in [0 .. rows * columns - 1 -> Element]
    BY MatrixOfShape
  <2>2. rows * columns \in Nat \ {0}
    BY Offsets
  <2> DEFINE size == rows * columns
  <2>3. 0 \in 0 .. size - 1
    <3> HIDE DEF size
    <3>1. size \in Nat \ {0}
      BY <2>2 DEF size
    <3> QED BY <3>1
  <2> QED BY <2>1, <2>3
<1>1. Element \subseteq Nat /\ Modulus \in Nat \ {0} /\ Element = 0 .. Modulus - 1
  BY ElementsOfT DEF Element
<1> HIDE DEF all, data
<1>2. V # {} /\ V \subseteq Element
  BY <1>0
<1>3. \E x \in V : \A place \in DOMAIN data : x <= data[place]
  <2>1. V # {} /\ V \subseteq Nat
    BY <1>1, <1>2
  <2>2. PICK x \in V : \A y \in V : x <= y
    <3> HIDE DEF V
    <3> QED BY <2>1, LeastNumber, Zenon
  <2>3. \A place \in all : x <= data[place]
    BY <2>2
  <2> HIDE DEF V
  <2> QED BY <1>0, <2>3
<1>4. \E x \in V : \A place \in DOMAIN data : x >= data[place]
  <2> DEFINE W == {Modulus - data[place] : place \in all}
  <2>1. W # {} /\ W \subseteq Nat
    <3>1. ASSUME NEW place \in all PROVE Modulus - data[place] \in Nat
      <4>1. data[place] \in 0 .. Modulus - 1
        BY <1>0, <1>1
      <4> QED BY <1>1, <4>1
    <3> QED BY <1>0, <3>1
  <2>2. PICK w \in W : \A y \in W : w <= y
    <3> HIDE DEF W
    <3> QED BY <2>1, LeastNumber, Zenon
  <2>3. PICK here \in all : w = Modulus - data[here]
    OBVIOUS
  <2>4. ASSUME NEW place \in all PROVE data[here] >= data[place]
    <3>1. Modulus - data[place] \in W
      OBVIOUS
    <3> HIDE DEF W
    <3>2. Modulus - data[here] <= Modulus - data[place]
      BY <2>2, <2>3, <3>1, Zenon
    <3>3. data[here] \in Nat /\ data[place] \in Nat /\ Modulus \in Nat
      BY <1>0, <1>1
    <3> QED BY <3>2, <3>3
  <2>5. data[here] \in V
    OBVIOUS
  <2> HIDE DEF V, W
  <2> QED BY <1>0, <2>4, <2>5
<1> DEFINE min == CHOOSE x \in V : \A place \in DOMAIN data : x <= data[place]
           max == CHOOSE x \in V : \A place \in DOMAIN data : x >= data[place]
<1>5. Matrices!MinOf(a) = min /\ Matrices!MaxOf(a) = max
  <2>1. V = {data[place] : place \in DOMAIN data}
    BY <1>0
  <2>2. Matrices!MinOf(a) = CHOOSE x \in {data[place] : place \in DOMAIN data} : \A place \in DOMAIN data : x <= data[place]
    BY Zenon DEF Matrices!MinOf, data
  <2>3. Matrices!MaxOf(a) = CHOOSE x \in {data[place] : place \in DOMAIN data} : \A place \in DOMAIN data : x >= data[place]
    BY Zenon DEF Matrices!MaxOf, data
  <2> HIDE DEF V
  <2> QED BY ONLY <2>1, <2>2, <2>3, Zenon
<1> HIDE DEF V
<1>6. min \in V /\ \A place \in DOMAIN data : min <= data[place]
  <2> DEFINE P(x) == x \in V /\ \A place \in DOMAIN data : x <= data[place]
  <2>1. \E x : P(x)
    BY <1>3
  <2>2. P(CHOOSE x : P(x))
    BY ONLY <2>1, Zenon
  <2>3. min = CHOOSE x : P(x)
    BY Zenon
  <2> QED BY <2>2, <2>3
<1>7. max \in V /\ \A place \in DOMAIN data : max >= data[place]
  <2> DEFINE P(x) == x \in V /\ \A place \in DOMAIN data : x >= data[place]
  <2>1. \E x : P(x)
    BY <1>4
  <2>2. P(CHOOSE x : P(x))
    BY ONLY <2>1, Zenon
  <2>3. max = CHOOSE x : P(x)
    BY Zenon
  <2> QED BY <2>2, <2>3
<1> HIDE DEF min, max
<1>8. /\ Matrices!MinOf(a) \in Element /\ Matrices!MaxOf(a) \in Element
      /\ \A place \in all : Matrices!MinOf(a) <= data[place] /\ Matrices!MaxOf(a) >= data[place]
  BY <1>0, <1>2, <1>5, <1>6, <1>7
<1>9. \A place \in all : data[place] \in Nat /\ Matrices!MaxOf(a) \in Nat
  BY <1>0, <1>1, <1>8
<1>10. \A place \in all : data[place] <= Matrices!MaxOf(a)
  BY <1>8, <1>9
<1> QED BY <1>8, <1>10 DEF all, data

\* Clamping to values, to matrices, and interpolation, element by element.
LEMMA ClampToValuesIs ==
  ASSUME NEW rows, NEW columns, NEW a \in MatricesOf(rows, columns, Element), NEW min \in Element, NEW max \in Element
  PROVE  /\ Matrices!ClampToValues(a, min, max) \in MatricesOf(rows, columns, Element)
         /\ \A place \in 0 .. rows * columns - 1 :
              Matrices!ClampToValues(a, min, max).data_[place] =
                IF a.data_[place] < min THEN min ELSE IF max < a.data_[place] THEN max ELSE a.data_[place]
<1> DEFINE F == [x \in Matrices!T |-> IF x < min THEN min ELSE IF max < x THEN max ELSE x]
           all == 0 .. rows * columns - 1
<1>0. Element = Matrices!T
  BY ElementsOfT
<1>1. F \in [Element -> Element] /\ \A x \in Element : F[x] = IF x < min THEN min ELSE IF max < x THEN max ELSE x
  BY <1>0
<1>2. Matrices!ClampToValues(a, min, max) = Matrices!Transform(a, F)
  BY Zenon DEF Matrices!ClampToValues
<1> HIDE DEF F
<1>3. /\ Matrices!Transform(a, F) \in MatricesOf(rows, columns, Element)
      /\ \A place \in all : Matrices!Transform(a, F).data_[place] = F[a.data_[place]]
  BY <1>1, TransformIs
<1>4. a.data_ \in [all -> Element]
  BY MatrixOfShape
<1> HIDE DEF all
<1>5. \A place \in all : F[a.data_[place]] = IF a.data_[place] < min THEN min ELSE IF max < a.data_[place] THEN max ELSE a.data_[place]
  BY <1>1, <1>4
<1> QED BY <1>2, <1>3, <1>5 DEF all

\* Clamp goes element by element.
LEMMA ClampIs ==
  ASSUME NEW rows, NEW columns, NEW a \in MatricesOf(rows, columns, Element),
         NEW b \in MatricesOf(rows, columns, Element), NEW d \in MatricesOf(rows, columns, Element)
  PROVE  /\ Matrices!Clamp(a, b, d) \in MatricesOf(rows, columns, Element)
         /\ \A place \in 0 .. rows * columns - 1 :
              Matrices!Clamp(a, b, d).data_[place] =
                IF a.data_[place] < b.data_[place] THEN b.data_[place]
                ELSE IF d.data_[place] < a.data_[place] THEN d.data_[place] ELSE a.data_[place]
<1> DEFINE all == 0 .. rows * columns - 1
           new == [place \in all |-> IF a.data_[place] < b.data_[place] THEN b.data_[place]
                                     ELSE IF d.data_[place] < a.data_[place] THEN d.data_[place] ELSE a.data_[place]]
<1>1. a.data_ \in [all -> Element] /\ b.data_ \in [all -> Element] /\ d.data_ \in [all -> Element] /\ DOMAIN a.data_ = all
  <2>1. a.data_ \in [0 .. rows * columns - 1 -> Element] /\ b.data_ \in [0 .. rows * columns - 1 -> Element]
        /\ d.data_ \in [0 .. rows * columns - 1 -> Element]
    BY MatrixOfShape
  <2> QED BY <2>1
<1>2. Matrices!Clamp(a, b, d) = [a EXCEPT !.data_ = new]
  <2> HIDE DEF all
  <2> QED BY <1>1, Zenon DEF Matrices!Clamp
<1>3. new \in [all -> Element]
  <2> HIDE DEF all
  <2> QED BY <1>1
<1>4. \A place \in all : new[place] = IF a.data_[place] < b.data_[place] THEN b.data_[place]
                                      ELSE IF d.data_[place] < a.data_[place] THEN d.data_[place] ELSE a.data_[place]
  <2> HIDE DEF all
  <2> QED OBVIOUS
<1> HIDE DEF new
<1>5. [a EXCEPT !.data_ = new] \in MatricesOf(rows, columns, Element) /\ [a EXCEPT !.data_ = new].data_ = new
  BY <1>3, Redone
<1> QED BY <1>2, <1>4, <1>5

\* Lerp goes element by element.
LEMMA LerpIs ==
  ASSUME NEW rows, NEW columns, NEW a \in MatricesOf(rows, columns, Element), NEW b \in MatricesOf(rows, columns, Element),
         NEW k \in Int
  PROVE  /\ Matrices!Lerp(a, b, k) \in MatricesOf(rows, columns, Element)
         /\ \A place \in 0 .. rows * columns - 1 :
              /\ a.data_[place] \in Element /\ b.data_[place] \in Element
              /\ Matrices!Lerp(a, b, k).data_[place] = (a.data_[place] + k * (b.data_[place] - a.data_[place])) % Modulus
<1> DEFINE all == 0 .. rows * columns - 1
           new == [place \in all |-> (a.data_[place] + k * (b.data_[place] - a.data_[place])) % Modulus]
<1>1. a.data_ \in [all -> Element] /\ b.data_ \in [all -> Element] /\ DOMAIN a.data_ = all
  <2>1. a.data_ \in [0 .. rows * columns - 1 -> Element] /\ b.data_ \in [0 .. rows * columns - 1 -> Element]
    BY MatrixOfShape
  <2> QED BY <2>1
<1>2. Matrices!Lerp(a, b, k) = [a EXCEPT !.data_ = new]
  <2> HIDE DEF all
  <2> QED BY <1>1, Zenon DEF Matrices!Lerp
<1>3. ASSUME NEW place \in all PROVE (a.data_[place] + k * (b.data_[place] - a.data_[place])) % Modulus \in Element
  <2> DEFINE x == a.data_[place]
             y == b.data_[place]
             z == x + k * (y - x)
  <2>1. x \in Int /\ y \in Int /\ Modulus \in Nat \ {0}
    <3>1. Element \subseteq Int
      BY ElementsOfT DEF Element
    <3> HIDE DEF all
    <3> QED BY <1>1, <3>1, ElementsOfT, Zenon
  <2> HIDE DEF x, y
  <2>2. z \in Int
    BY <2>1
  <2> HIDE DEF z
  <2>3. z % Modulus \in Element
    BY <2>1, <2>2, Residue, Zenon DEF Element
  <2> QED BY <2>3 DEF x, y, z
<1>4. new \in [all -> Element]
  <2> HIDE DEF all
  <2> QED BY <1>3
<1>5. \A place \in all : new[place] = (a.data_[place] + k * (b.data_[place] - a.data_[place])) % Modulus
  <2> HIDE DEF all
  <2> QED OBVIOUS
<1> HIDE DEF new
<1>6. [a EXCEPT !.data_ = new] \in MatricesOf(rows, columns, Element) /\ [a EXCEPT !.data_ = new].data_ = new
  BY <1>4, Redone
<1>7. \A place \in all : a.data_[place] \in Element /\ b.data_[place] \in Element
  <2> HIDE DEF all
  <2> QED BY <1>1
<1> QED BY <1>2, <1>5, <1>6, <1>7

-----------------------------------------------------------------------------
(* The laws of elements.                                                   *)

\* The laws of element-wise operations.
LEMMA ElementsObey == MatrixTyped => Matrices!ElementLaws
<1> SUFFICES ASSUME MatrixTyped PROVE Matrices!ElementLaws
  OBVIOUS
<1>0. PICK shape \in Shapes : m \in MatricesOf(shape[1], shape[2], Element)
  BY DEF MatrixTyped
<1> DEFINE rows == shape[1]
           columns == shape[2]
           all == 0 .. rows * columns - 1
           Shaped == MatricesOf(rows, columns, Element)
           min == Matrices!MinOf(m)
           max == Matrices!MaxOf(m)
           t == Matrices!Transposed(m)
           lowest == Matrices!Transform(m, [x \in Matrices!T |-> min])
           r == Matrices!Negated(m)
<1>1. rows \in Nat \ {0} /\ columns \in Nat \ {0} /\ m \in MatricesOf(rows, columns, Element)
  BY <1>0, ShapesAre
<1> HIDE DEF rows, columns
<1>2. Modulus \in Nat \ {0, 1} /\ Element = Matrices!T /\ Element = 0 .. Modulus - 1
  BY ElementsOfT DEF Element
<1>3. \A place \in all : m.data_[place] \in Element
  <2>1. m.data_ \in [0 .. rows * columns - 1 -> Element]
    BY <1>1, MatrixOfShape
  <2> QED BY <2>1, Zenon
<1>4. min \in Element /\ max \in Element /\ \A place \in all : min <= m.data_[place] /\ m.data_[place] <= max
  BY <1>1, MinAndMaxOf
<1> HIDE DEF min, max
<1>5. lowest \in Shaped /\ \A place \in all : lowest.data_[place] = min
  <2> DEFINE F == [x \in Matrices!T |-> min]
  <2>1. F \in [Element -> Element] /\ \A x \in Element : F[x] = min
    BY <1>2, <1>4
  <2> HIDE DEF F
  <2>2. /\ Matrices!Transform(m, F) \in MatricesOf(rows, columns, Element)
        /\ \A place \in 0 .. rows * columns - 1 : Matrices!Transform(m, F).data_[place] = F[m.data_[place]]
    BY <1>1, <2>1, TransformIs
  <2> QED BY <1>3, <2>1, <2>2 DEF F
<1>6. r \in Shaped
  <2> DEFINE F == [x \in Matrices!T |-> (-x) % Modulus]
  <2>1. F \in [Element -> Element]
    <3>1. ASSUME NEW x \in Element PROVE (-x) % Modulus \in Element
      <4>1. -x \in Int
        BY <1>2
      <4> DEFINE y == -x
      <4> HIDE DEF y
      <4>2. y % Modulus \in 0 .. Modulus - 1
        BY <1>2, <4>1, Residue, Zenon DEF y
      <4> QED BY <1>2, <4>2 DEF y
    <3> QED BY <1>2, <3>1
  <2>2. r = Matrices!Transform(m, F)
    BY Zenon DEF Matrices!Negated
  <2> HIDE DEF F
  <2> QED BY <1>1, <2>1, <2>2, TransformIs
<1> HIDE DEF lowest, r
<1>7. ASSUME NEW b \in Shaped, NEW d \in Shaped, \A place \in all : b.data_[place] = d.data_[place] PROVE b = d
  BY <1>7, SameData
<1>8. ASSUME NEW values \in {v \in 1 .. Modulus : Modulus % v = 0}
      PROVE  Matrices!Cast(Matrices!MatMul(m, t), values) =
               Matrices!Cast(Matrices!MatMul(Matrices!Cast(m, values), Matrices!Cast(t, values)), values)
  <2>1. t \in MatricesOf(columns, rows, Element)
    BY <1>1, TransposedIs
  <2>2. values \in 1 .. Modulus /\ Modulus % values = 0
    OBVIOUS
  <2> HIDE DEF t
  <2> QED BY <1>1, <2>1, <2>2, CastOfProduct
<1>9. Matrices!ClampToValues(m, min, max) = m
  <2> DEFINE b == Matrices!ClampToValues(m, min, max)
  <2>1. /\ b \in Shaped
        /\ \A place \in all : b.data_[place] =
             IF m.data_[place] < min THEN min ELSE IF max < m.data_[place] THEN max ELSE m.data_[place]
    BY <1>1, <1>4, ClampToValuesIs
  <2> HIDE DEF b
  <2>2. ASSUME NEW place \in all PROVE b.data_[place] = m.data_[place]
    <3>1. m.data_[place] \in Int /\ min \in Int /\ max \in Int /\ min <= m.data_[place] /\ m.data_[place] <= max
      BY <1>2, <1>3, <1>4
    <3>2. ~(m.data_[place] < min) /\ ~(max < m.data_[place])
      BY <3>1
    <3> QED BY <2>1, <3>2
  <2>3. b = m
    <3> HIDE DEF all, Shaped
    <3>1. m \in Shaped
      BY <1>1 DEF Shaped
    <3> QED BY <1>7, <2>1, <2>2, <3>1
  <2> QED BY <2>3 DEF b
<1>10. Matrices!ClampToValues(m, min, min) = lowest
  <2> DEFINE b == Matrices!ClampToValues(m, min, min)
  <2>1. /\ b \in Shaped
        /\ \A place \in all : b.data_[place] =
             IF m.data_[place] < min THEN min ELSE IF min < m.data_[place] THEN min ELSE m.data_[place]
    BY <1>1, <1>4, ClampToValuesIs
  <2> HIDE DEF b
  <2>2. ASSUME NEW place \in all PROVE b.data_[place] = lowest.data_[place]
    <3>1. m.data_[place] \in Int /\ min \in Int /\ min <= m.data_[place]
      BY <1>2, <1>3, <1>4
    <3>2. b.data_[place] = IF m.data_[place] < min THEN min ELSE IF min < m.data_[place] THEN min ELSE m.data_[place]
      BY <2>1
    <3>3. b.data_[place] = min
      BY <3>1, <3>2
    <3> QED BY <1>5, <3>3
  <2>3. b = lowest
    <3> HIDE DEF all, Shaped
    <3> QED BY <1>5, <1>7, <2>1, <2>2
  <2> QED BY <2>3 DEF b
<1>11. Matrices!Clamp(m, lowest, lowest) = lowest
  <2> DEFINE b == Matrices!Clamp(m, lowest, lowest)
  <2>1. /\ b \in Shaped
        /\ \A place \in all : b.data_[place] =
             IF m.data_[place] < lowest.data_[place] THEN lowest.data_[place]
             ELSE IF lowest.data_[place] < m.data_[place] THEN lowest.data_[place] ELSE m.data_[place]
    BY <1>1, <1>5, ClampIs
  <2> HIDE DEF b
  <2>2. ASSUME NEW place \in all PROVE b.data_[place] = lowest.data_[place]
    <3>1. m.data_[place] \in Int /\ min \in Int /\ lowest.data_[place] = min
      BY <1>2, <1>3, <1>4, <1>5
    <3>2. b.data_[place] = IF m.data_[place] < min THEN min ELSE IF min < m.data_[place] THEN min ELSE m.data_[place]
      BY <2>1, <3>1
    <3>3. b.data_[place] = min
      BY <3>1, <3>2
    <3> QED BY <3>1, <3>3
  <2>3. b = lowest
    <3> HIDE DEF all, Shaped
    <3> QED BY <1>5, <1>7, <2>1, <2>2
  <2> QED BY <2>3 DEF b
<1>12. ASSUME NEW a \in Shaped, NEW b \in Shaped, NEW k \in Int
       PROVE  /\ Matrices!Lerp(a, b, k) \in Shaped
              /\ \A place \in all :
                   /\ a.data_[place] \in Element /\ b.data_[place] \in Element
                   /\ Matrices!Lerp(a, b, k).data_[place] = (a.data_[place] + k * (b.data_[place] - a.data_[place])) % Modulus
  BY LerpIs
<1>13. m \in Shaped
  BY <1>1
<1>14. Element \subseteq Int /\ \A x \in Element : x % Modulus = x
  BY <1>2, SmallResidue
<1> HIDE DEF all, Shaped, t
<1>15. Matrices!Lerp(m, r, 0) = m
  <2> DEFINE b == Matrices!Lerp(m, r, 0)
  <2>1. /\ b \in Shaped
        /\ \A place \in all : /\ m.data_[place] \in Element /\ r.data_[place] \in Element
                              /\ b.data_[place] = (m.data_[place] + 0 * (r.data_[place] - m.data_[place])) % Modulus
    BY <1>6, <1>12, <1>13
  <2> HIDE DEF b
  <2>2. ASSUME NEW place \in all PROVE b.data_[place] = m.data_[place]
    <3> DEFINE x == m.data_[place]
               y == r.data_[place]
    <3>1. x \in Int /\ y \in Int /\ x % Modulus = x /\ b.data_[place] = (x + 0 * (y - x)) % Modulus
      BY <1>14, <2>1, Zenon
    <3> HIDE DEF x, y
    <3>2. x + 0 * (y - x) = x
      BY <3>1
    <3> QED BY <3>1, <3>2 DEF x
  <2>3. b = m
    BY <1>7, <1>13, <2>1, <2>2
  <2> QED BY <2>3 DEF b
<1>16. Matrices!Lerp(m, r, 1) = r
  <2> DEFINE b == Matrices!Lerp(m, r, 1)
  <2>1. /\ b \in Shaped
        /\ \A place \in all : /\ m.data_[place] \in Element /\ r.data_[place] \in Element
                              /\ b.data_[place] = (m.data_[place] + 1 * (r.data_[place] - m.data_[place])) % Modulus
    BY <1>6, <1>12, <1>13
  <2> HIDE DEF b
  <2>2. ASSUME NEW place \in all PROVE b.data_[place] = r.data_[place]
    <3> DEFINE x == m.data_[place]
               y == r.data_[place]
    <3>1. x \in Int /\ y \in Int /\ y % Modulus = y /\ b.data_[place] = (x + 1 * (y - x)) % Modulus
      BY <1>14, <2>1, Zenon
    <3> HIDE DEF x, y
    <3>2. x + 1 * (y - x) = y
      BY <3>1
    <3> QED BY <3>1, <3>2 DEF y
  <2>3. b = r
    BY <1>6, <1>7, <2>1, <2>2
  <2> QED BY <2>3 DEF b
<1>17. ASSUME NEW k \in Matrices!T PROVE Matrices!Lerp(m, r, k) = Matrices!Lerp(r, m, 1 - k)
  <2> DEFINE b == Matrices!Lerp(m, r, k)
             l == 1 - k
             d == Matrices!Lerp(r, m, l)
  <2>0. k \in Int /\ l \in Int
    BY <1>2
  <2>1. /\ b \in Shaped
        /\ \A place \in all : /\ m.data_[place] \in Element /\ r.data_[place] \in Element
                              /\ b.data_[place] = (m.data_[place] + k * (r.data_[place] - m.data_[place])) % Modulus
    BY <1>6, <1>12, <1>13, <2>0
  <2> HIDE DEF l
  <2>2. /\ d \in Shaped
        /\ \A place \in all : d.data_[place] = (r.data_[place] + l * (m.data_[place] - r.data_[place])) % Modulus
    BY <1>6, <1>12, <1>13, <2>0, Zenon
  <2> HIDE DEF b, d
  <2>3. ASSUME NEW place \in all PROVE b.data_[place] = d.data_[place]
    <3> DEFINE x == m.data_[place]
               y == r.data_[place]
    <3>1. x \in Int /\ y \in Int /\ b.data_[place] = (x + k * (y - x)) % Modulus
      BY <1>14, <2>1, Zenon
    <3>2. d.data_[place] = (y + l * (x - y)) % Modulus
      BY <2>2
    <3> HIDE DEF x, y
    <3>3. x + k * (y - x) = y + l * (x - y)
      BY <2>0, <3>1 DEF l
    <3> QED BY <3>1, <3>2, <3>3
  <2>4. b = d
    BY <1>7, <2>1, <2>2, <2>3
  <2> QED BY <2>4 DEF b, d, l
<1> QED BY <1>8, <1>9, <1>10, <1>11, <1>15, <1>16, <1>17, Zenon DEF Matrices!ElementLaws, lowest, r, t, min, max

\* On every matrix the operators lead to, of any shape and over unsigned integers of any
\* width: transposition is its own inverse and reverses the order of a product, a product
\* has the dot products of rows and columns in its cells and the identity for its one,
\* cross products are orthogonal to their factors and as long as Lagrange's identity says,
\* and conversions, clamping and interpolation are as their names promise, wherever the
\* arithmetic of the elements wraps.
THEOREM ProductsAndElements == Spec => []ProductLaws
<1>1. MatrixInv => ProductLaws
  BY ProductsObey, ElementsObey DEF MatrixInv, ProductLaws
<1> QED BY <1>1, MatrixInvHolds, PTL

-----------------------------------------------------------------------------
(* GUID: the digits of a text and the nibbles they are.                    *)

Nibbles == [0 .. 15 -> 0 .. 15]
AllGuids == [part1 : Nibbles, part2 : Nibbles]

\* The k-th nibble of a GUID, of the low part first, and the digits that spell a nibble.
Nibble(g, k) == IF k >= 16 THEN g.part2[k - 16] ELSE g.part1[k]
UpperDigit(v) == IF v < 10 THEN 48 + v ELSE 55 + v
Spells(c, v) == c = UpperDigit(v) \/ c = Guids!ToLower(UpperDigit(v))

\* Which nibble each character is; -1 for the dashes.
Place(spot) == Guids!shifts[spot + 1]

\* A character spells what ToCharArray writes at that spot, in either case, and a text
\* the whole GUID.
SpelledAt(c, spot, g) == IF Place(spot) < 0 THEN c = 45 ELSE Spells(c, Nibble(g, Place(spot)))
SpellsAll(str, g) == \A spot \in 0 .. 35 : SpelledAt(str[spot + 1], spot, g)

\* A digit is read as the nibble it spells, in either case.
LEMMA DigitIsRead ==
  ASSUME NEW v \in 0 .. 15, NEW c, Spells(c, v)
  PROVE  /\ c \in Int /\ c # 123 /\ Guids!HexToDec(c) = v
         /\ Spells(Guids!ToLower(c), v) /\ Spells(Guids!ToUpper(c), v)
<1> USE DEF Guids!ToLower, Guids!ToUpper, Guids!UpperA, Guids!LowerA, UpperDigit
<1>1. c = UpperDigit(v) \/ c = Guids!ToLower(UpperDigit(v))
  BY DEF Spells
<1>2. CASE v < 10
  <2>1. c = 48 + v
    BY <1>1, <1>2
  <2>2. Guids!ToLower(c) = c /\ Guids!ToUpper(c) = c
    BY <1>2, <2>1
  <2>3. Guids!HexToDec(c) = v
    BY <1>2, <2>1, <2>2 DEF Guids!HexToDec, Guids!Zero
  <2> QED BY <1>2, <2>1, <2>2, <2>3 DEF Spells
<1>3. CASE ~(v < 10)
  <2>1. UpperDigit(v) = 55 + v /\ Guids!ToLower(55 + v) = 87 + v
    BY <1>3
  <2>2. c = 55 + v \/ c = 87 + v
    BY <1>1, <2>1
  <2>3. Guids!ToLower(c) = 87 + v /\ Guids!ToUpper(c) = 55 + v
    BY <1>3, <2>2
  <2>4. Guids!HexToDec(c) = v
    BY <1>3, <2>3 DEF Guids!HexToDec, Guids!Zero
  <2> QED BY <1>3, <2>1, <2>2, <2>3, <2>4 DEF Spells
<1> QED BY <1>2, <1>3

\* Both tables are of the same places: the digit read as the high or the low nibble
\* of a byte is where that nibble was written.
LEMMA TablesAgree ==
  /\ \A spot \in 0 .. 35 : Place(spot) \in -1 .. 31
  /\ \A n \in 0 .. 15 :
       LET first == Guids!part1_index[n \div 2 + 1] second == Guids!part2_index[n \div 2 + 1]
           low == IF n % 2 = 0 THEN 1 ELSE 0
       IN /\ first + low \in 0 .. 35 /\ first \in 0 .. 35 /\ first + 1 \in 0 .. 35 /\ Place(first + low) = n
          /\ second + low \in 0 .. 35 /\ second \in 0 .. 35 /\ second + 1 \in 0 .. 35 /\ Place(second + low) = 16 + n
          /\ Place(first) >= 0 /\ Place(first + 1) >= 0 /\ Place(second) >= 0 /\ Place(second + 1) >= 0
<1>1. \A spot \in 0 .. 35 : Place(spot) \in -1 .. 31
  BY DEF Place, Guids!shifts
<1> DEFINE places == Guids!shifts
           first == Guids!part1_index
           second == Guids!part2_index
<1>2. /\ places[1] = 7 /\ places[2] = 6 /\ places[3] = 5 /\ places[4] = 4 /\ places[5] = 3 /\ places[6] = 2
      /\ places[7] = 1 /\ places[8] = 0 /\ places[10] = 11 /\ places[11] = 10 /\ places[12] = 9 /\ places[13] = 8
      /\ places[15] = 15 /\ places[16] = 14 /\ places[17] = 13 /\ places[18] = 12
  BY DEF Guids!shifts
<1>3. /\ places[20] = 17 /\ places[21] = 16 /\ places[22] = 19 /\ places[23] = 18 /\ places[25] = 21 /\ places[26] = 20
      /\ places[27] = 23 /\ places[28] = 22 /\ places[29] = 25 /\ places[30] = 24 /\ places[31] = 27 /\ places[32] = 26
      /\ places[33] = 29 /\ places[34] = 28 /\ places[35] = 31 /\ places[36] = 30
  BY DEF Guids!shifts
<1>4. /\ first[1] = 6 /\ first[2] = 4 /\ first[3] = 2 /\ first[4] = 0 /\ first[5] = 11 /\ first[6] = 9 /\ first[7] = 16 /\ first[8] = 14
      /\ second[1] = 19 /\ second[2] = 21 /\ second[3] = 24 /\ second[4] = 26 /\ second[5] = 28 /\ second[6] = 30
      /\ second[7] = 32 /\ second[8] = 34
  BY DEF Guids!part1_index, Guids!part2_index
<1> HIDE DEF places, first, second
<1>5. ASSUME NEW n \in 0 .. 15
      PROVE  \E k \in 1 .. 8 : n \div 2 + 1 = k /\ ((n = 2 * k - 2 /\ n % 2 = 0) \/ (n = 2 * k - 1 /\ n % 2 = 1))
  OBVIOUS
<1>6. ASSUME NEW n \in 0 .. 15, NEW k \in 1 .. 8, NEW low \in 0 .. 1, n = 2 * k - 1 - low
      PROVE  /\ first[k] + low \in 0 .. 35 /\ first[k] \in 0 .. 35 /\ first[k] + 1 \in 0 .. 35
             /\ places[first[k] + low + 1] = n /\ places[first[k] + 1] >= 0 /\ places[first[k] + 1 + 1] >= 0
             /\ second[k] + low \in 0 .. 35 /\ second[k] \in 0 .. 35 /\ second[k] + 1 \in 0 .. 35
             /\ places[second[k] + low + 1] = 16 + n /\ places[second[k] + 1] >= 0 /\ places[second[k] + 1 + 1] >= 0
  <2>1. k = 1 \/ k = 2 \/ k = 3 \/ k = 4 \/ k = 5 \/ k = 6 \/ k = 7 \/ k = 8
    OBVIOUS
  <2>2. low = 0 \/ low = 1
    OBVIOUS
  <2> QED BY <1>2, <1>3, <1>4, <1>6, <2>1, <2>2
<1>7. ASSUME NEW n \in 0 .. 15
      PROVE  LET a == Guids!part1_index[n \div 2 + 1] b == Guids!part2_index[n \div 2 + 1]
                 low == IF n % 2 = 0 THEN 1 ELSE 0
             IN /\ a + low \in 0 .. 35 /\ a \in 0 .. 35 /\ a + 1 \in 0 .. 35 /\ Place(a + low) = n
                /\ b + low \in 0 .. 35 /\ b \in 0 .. 35 /\ b + 1 \in 0 .. 35 /\ Place(b + low) = 16 + n
                /\ Place(a) >= 0 /\ Place(a + 1) >= 0 /\ Place(b) >= 0 /\ Place(b + 1) >= 0
  <2>1. PICK k \in 1 .. 8 : n \div 2 + 1 = k /\ ((n = 2 * k - 2 /\ n % 2 = 0) \/ (n = 2 * k - 1 /\ n % 2 = 1))
    BY <1>5
  <2> DEFINE low == IF n % 2 = 0 THEN 1 ELSE 0
  <2>2. low \in 0 .. 1 /\ n = 2 * k - 1 - low
    BY <2>1
  <2> HIDE DEF low
  <2>3. /\ first[k] + low \in 0 .. 35 /\ first[k] \in 0 .. 35 /\ first[k] + 1 \in 0 .. 35
        /\ places[first[k] + low + 1] = n /\ places[first[k] + 1] >= 0 /\ places[first[k] + 1 + 1] >= 0
        /\ second[k] + low \in 0 .. 35 /\ second[k] \in 0 .. 35 /\ second[k] + 1 \in 0 .. 35
        /\ places[second[k] + low + 1] = 16 + n /\ places[second[k] + 1] >= 0 /\ places[second[k] + 1 + 1] >= 0
    BY <1>6, <2>2, Zenon
  <2> QED BY <2>1, <2>3, Zenon DEF Place, places, first, second, low
<1> QED BY <1>1, <1>7

\* Two nibbles of which one is zero, bit by bit.
LEMMA OrWithNone == ASSUME NEW v \in 0 .. 15 PROVE Guids!Or(v, 0) = v
<1>1. v = (v % 2) + 2 * ((v \div 2) % 2) + 4 * ((v \div 4) % 2) + 8 * ((v \div 8) % 2)
  OBVIOUS
<1>2. \A b \in {1, 2, 4, 8} : (0 \div b) % 2 = 0
  OBVIOUS
<1>3. \A b \in {1, 2, 4, 8} : (v \div b) % 2 \in {0, 1} /\ v \div 1 = v
  OBVIOUS
<1>4. Guids!Or(v, 0) = (IF (v \div 1) % 2 = 1 THEN 1 ELSE 0) + (IF (v \div 2) % 2 = 1 THEN 2 ELSE 0)
                         + (IF (v \div 4) % 2 = 1 THEN 4 ELSE 0) + (IF (v \div 8) % 2 = 1 THEN 8 ELSE 0)
  BY <1>2 DEF Guids!Or
<1> QED BY <1>1, <1>3, <1>4

\* The nibbles of a GUID are nibbles.
LEMMA NibblesAre ==
  ASSUME NEW g \in AllGuids
  PROVE  /\ \A k \in 0 .. 31 : Nibble(g, k) \in 0 .. 15
         /\ \A n \in 0 .. 15 : Nibble(g, n) = g.part1[n] /\ Nibble(g, 16 + n) = g.part2[n]
<1>1. \A k \in 0 .. 31 : k >= 16 => k - 16 \in 0 .. 15
  OBVIOUS
<1>2. \A k \in 0 .. 31 : ~(k >= 16) => k \in 0 .. 15
  OBVIOUS
<1>3. \A n \in 0 .. 15 : ~(n >= 16) /\ 16 + n >= 16 /\ (16 + n) - 16 = n
  OBVIOUS
<1> QED BY <1>1, <1>2, <1>3 DEF AllGuids, Nibbles, Nibble

\* What spells a GUID, in either case, is parsed as that GUID.
LEMMA SpelledIsParsed ==
  ASSUME NEW g \in AllGuids, NEW str, SpellsAll(str, g)
  PROVE  Guids!Parse(str) = g
<1>1. ASSUME NEW spot \in 0 .. 35, Place(spot) >= 0
      PROVE  Guids!HexToDec(str[spot + 1]) = Nibble(g, Place(spot)) /\ Nibble(g, Place(spot)) \in 0 .. 15
  <2>1. Place(spot) \in 0 .. 31
    <3>1. Place(spot) \in -1 .. 31
      BY TablesAgree, Zenon
    <3> QED BY <1>1, <3>1
  <2>2. Nibble(g, Place(spot)) \in 0 .. 15
    BY <2>1, NibblesAre
  <2>3. ~(Place(spot) < 0)
    BY <2>1
  <2>4. Spells(str[spot + 1], Nibble(g, Place(spot)))
    BY <2>3 DEF SpellsAll, SpelledAt
  <2> QED BY <2>2, <2>4, DigitIsRead
<1>2. ASSUME NEW map, NEW skipped, NEW part, part \in Nibbles,
             \A n \in 0 .. 15 :
               LET a == map[n \div 2 + 1] low == IF n % 2 = 0 THEN 1 ELSE 0
               IN /\ a + low \in 0 .. 35 /\ a \in 0 .. 35 /\ a + 1 \in 0 .. 35
                  /\ Place(a) >= 0 /\ Place(a + 1) >= 0 /\ Nibble(g, Place(a + low)) = part[n]
      PROVE  Guids!ParsePart(str, map) = part
  <2> DEFINE h(n) == Guids!HexToDec(str[map[n \div 2 + 1] + 1])
             l(n) == Guids!HexToDec(str[map[n \div 2 + 1] + 2])
             read == [n \in 0 .. 15 |-> IF n % 2 = 0 THEN l(n) % 16 ELSE Guids!Or(h(n) % 16, l(n) \div 16)]
  <2>1. Guids!ParsePart(str, map) = read
    BY Zenon DEF Guids!ParsePart
  <2>2. ASSUME NEW n \in 0 .. 15
        PROVE  (IF n % 2 = 0 THEN l(n) % 16 ELSE Guids!Or(h(n) % 16, l(n) \div 16)) = part[n]
    <3> DEFINE a == map[n \div 2 + 1]
    <3>1. a \in 0 .. 35 /\ a + 1 \in 0 .. 35 /\ Place(a) >= 0 /\ Place(a + 1) >= 0
      BY <1>2
    <3>2. Nibble(g, Place(a + IF n % 2 = 0 THEN 1 ELSE 0)) = part[n]
      BY <1>2
    <3> HIDE DEF a
    <3>3. h(n) = Nibble(g, Place(a)) /\ h(n) \in 0 .. 15
      BY <1>1, <3>1 DEF a
    <3>4. l(n) = Nibble(g, Place(a + 1)) /\ l(n) \in 0 .. 15
      <4>1. a + 1 + 1 = a + 2
        BY <3>1
      <4> QED BY <1>1, <3>1, <4>1 DEF a
    <3> HIDE DEF h, l
    <3>5. CASE n % 2 = 0
      <4>1. l(n) % 16 = l(n)
        BY <3>4
      <4> QED BY <3>2, <3>4, <3>5, <4>1
    <3>6. CASE n % 2 # 0
      <4>1. h(n) % 16 = h(n) /\ l(n) \div 16 = 0 /\ a + 0 = a
        BY <3>1, <3>3, <3>4
      <4>2. Guids!Or(h(n), 0) = h(n)
        BY <3>3, OrWithNone
      <4> QED BY <3>2, <3>3, <3>6, <4>1, <4>2
    <3> QED BY <3>5, <3>6
  <2> HIDE DEF h, l
  <2>3. read = [n \in 0 .. 15 |-> part[n]]
    BY <2>2, Zenon
  <2>4. part = [n \in 0 .. 15 |-> part[n]]
    BY <1>2 DEF Nibbles
  <2> QED BY <2>1, <2>3, <2>4, Zenon
<1>3. g.part1 \in Nibbles /\ g.part2 \in Nibbles /\ g = [part1 |-> g.part1, part2 |-> g.part2]
  BY DEF AllGuids
<1>4. Guids!ParsePart(str, Guids!part1_index) = g.part1
  <2>1. \A n \in 0 .. 15 :
          LET a == Guids!part1_index[n \div 2 + 1] low == IF n % 2 = 0 THEN 1 ELSE 0
          IN /\ a + low \in 0 .. 35 /\ a \in 0 .. 35 /\ a + 1 \in 0 .. 35
             /\ Place(a) >= 0 /\ Place(a + 1) >= 0 /\ Nibble(g, Place(a + low)) = g.part1[n]
    BY TablesAgree, NibblesAre, Zenon
  <2> QED BY <1>2, <1>3, <2>1
<1>5. Guids!ParsePart(str, Guids!part2_index) = g.part2
  <2>1. \A n \in 0 .. 15 :
          LET a == Guids!part2_index[n \div 2 + 1] low == IF n % 2 = 0 THEN 1 ELSE 0
          IN /\ a + low \in 0 .. 35 /\ a \in 0 .. 35 /\ a + 1 \in 0 .. 35
             /\ Place(a) >= 0 /\ Place(a + 1) >= 0 /\ Nibble(g, Place(a + low)) = g.part2[n]
    BY TablesAgree, NibblesAre, Zenon
  <2> QED BY <1>2, <1>3, <2>1
<1> QED BY <1>3, <1>4, <1>5, Zenon DEF Guids!Parse

\* Two ranges from one are the same if they end at the same number.
LEMMA SameEnds == ASSUME NEW a \in Nat, NEW b \in Nat, 1 .. a = 1 .. b PROVE a = b
<1>1. ASSUME NEW c \in Nat, NEW d \in Nat, c < d PROVE d \in 1 .. d /\ d \notin 1 .. c
  BY <1>1
<1>2. CASE a < b
  BY <1>1, <1>2
<1>3. CASE b < a
  BY <1>1, <1>3
<1> QED BY <1>2, <1>3


\* What ToCharArray writes at a spot.
WrittenAt(g, spot) == IF Place(spot) < 0 THEN 45 ELSE UpperDigit(Nibble(g, Place(spot)))

\* GetChar has that character.
LEMMA CharIs ==
  ASSUME NEW g \in AllGuids, NEW spot \in 0 .. 35
  PROVE  Guids!GetChar(g, spot) = WrittenAt(g, spot) /\ WrittenAt(g, spot) \in Int
<1> DEFINE p == Place(spot)
           v == IF p >= 16 THEN g.part2[p % 16] ELSE g.part1[p]
<1>1. p \in -1 .. 31
  BY TablesAgree, Zenon
<1>2. Guids!GetChar(g, spot) = IF p < 0 THEN 45 ELSE IF v < 10 THEN 48 + v ELSE 65 - 10 + v
  BY DEF Guids!GetChar, Guids!Dash, Guids!Zero, Guids!UpperA, Place
<1> HIDE DEF p
<1>3. ASSUME ~(p < 0) PROVE v = Nibble(g, p) /\ v \in 0 .. 15
  <2>1. p \in 0 .. 31 /\ (p >= 16 => p % 16 = p - 16)
    BY <1>1, <1>3
  <2>2. v = Nibble(g, p)
    BY <2>1 DEF Nibble
  <2> QED BY <2>1, <2>2, NibblesAre
<1> HIDE DEF v
<1>4. ASSUME ~(p < 0) PROVE (IF v < 10 THEN 48 + v ELSE 65 - 10 + v) = UpperDigit(Nibble(g, p))
  BY <1>3, <1>4 DEF UpperDigit
<1>5. ASSUME ~(p < 0) PROVE UpperDigit(Nibble(g, p)) \in Int
  <2>1. p \in 0 .. 31
    BY <1>1, <1>5
  <2>2. Nibble(g, p) \in 0 .. 15
    BY <2>1, NibblesAre
  <2> QED BY <2>2 DEF UpperDigit
<1> QED BY <1>1, <1>2, <1>4, <1>5 DEF p, WrittenAt

\* What ToCharArray writes spells the GUID.
LEMMA WrittenSpells ==
  ASSUME NEW g \in AllGuids
  PROVE  /\ SpellsAll(Guids!ToCharArray(g), g)
         /\ Guids!ToCharArray(g) \in [1 .. 36 -> Int]
<1> DEFINE str == Guids!ToCharArray(g)
<1>1. str = [n \in 1 .. 36 |-> Guids!GetChar(g, n - 1)]
  BY DEF Guids!ToCharArray, Guids!usualStringLength
<1>2. \A spot \in 0 .. 35 : Guids!GetChar(g, spot) = WrittenAt(g, spot)
  BY CharIs
<1>3. ASSUME NEW spot \in 0 .. 35 PROVE str[spot + 1] = Guids!GetChar(g, spot)
  <2>1. spot + 1 \in 1 .. 36 /\ (spot + 1) - 1 = spot
    OBVIOUS
  <2> HIDE DEF str
  <2> QED BY <1>1, <2>1
<1>4. SpellsAll(str, g)
  <2> HIDE DEF str
  <2> QED BY <1>2, <1>3 DEF SpellsAll, SpelledAt, Spells, WrittenAt
<1>5. \A spot \in 0 .. 35 : Guids!GetChar(g, spot) \in Int
  BY CharIs
<1>6. \A n \in 1 .. 36 : n - 1 \in 0 .. 35
  OBVIOUS
<1> QED BY <1>1, <1>4, <1>5, <1>6

-----------------------------------------------------------------------------
(* GUID: its text as it is passed on.                                      *)

\* A text without braces and one in braces, either of which may have been cut, and
\* been written in another case.
Bare(str, g) == Len(str) <= 36 /\ \A n \in 1 .. Len(str) : SpelledAt(str[n], n - 1, g)
InBraces(str, g) ==
  /\ Len(str) <= 38 /\ (Len(str) >= 1 => str[1] = 123)
  /\ \A n \in 2 .. Len(str) : n <= 37 => SpelledAt(str[n], n - 2, g)
TextOf(str, g) == str \in Seq(Int) /\ (Bare(str, g) \/ InBraces(str, g))

\* The places in a table are of nibbles, which are nibbles.
LEMMA PlaceIs ==
  ASSUME NEW g \in AllGuids, NEW spot \in 0 .. 35
  PROVE  Place(spot) < 0 \/ Nibble(g, Place(spot)) \in 0 .. 15
<1>1. Place(spot) \in -1 .. 31
  BY TablesAgree, Zenon
<1>2. Place(spot) < 0 \/ Place(spot) \in 0 .. 31
  BY <1>1
<1> QED BY <1>2, NibblesAre

\* What is written at a spot is a number other than the opening brace, and stays what it
\* is in another case.
LEMMA SpelledStays ==
  ASSUME NEW g \in AllGuids, NEW spot \in 0 .. 35, NEW c, SpelledAt(c, spot, g)
  PROVE  /\ c \in Int /\ c # 123
         /\ SpelledAt(Guids!ToLower(c), spot, g) /\ SpelledAt(Guids!ToUpper(c), spot, g)
<1>1. CASE Place(spot) < 0
  <2>1. c = 45
    BY <1>1 DEF SpelledAt
  <2>2. Guids!ToLower(45) = 45 /\ Guids!ToUpper(45) = 45
    BY DEF Guids!ToLower, Guids!ToUpper, Guids!UpperA, Guids!LowerA
  <2> QED BY <1>1, <2>1, <2>2 DEF SpelledAt
<1>2. CASE ~(Place(spot) < 0)
  <2>1. Nibble(g, Place(spot)) \in 0 .. 15
    BY <1>2, PlaceIs
  <2>2. Spells(c, Nibble(g, Place(spot)))
    BY <1>2 DEF SpelledAt
  <2> QED BY <1>2, <2>1, <2>2, DigitIsRead DEF SpelledAt
<1> QED BY <1>1, <1>2

\* A sequence over numbers is what a function on a range is.
LEMMA AsSequence ==
  ASSUME NEW length \in Nat, NEW new, new \in [1 .. length -> Int]
  PROVE  new \in Seq(Int) /\ Len(new) = length
<1>1. new \in Seq(Int)
  BY SeqDef
<1>2. DOMAIN new = 1 .. length /\ DOMAIN new = 1 .. Len(new) /\ Len(new) \in Nat
  BY <1>1, LenProperties
<1>3. 1 .. Len(new) = 1 .. length
  BY <1>2
<1>4. Len(new) = length
  BY <1>2, <1>3, SameEnds
<1> QED BY <1>1, <1>4

\* What ToCharArray writes is a text without braces.
LEMMA WrittenText ==
  ASSUME NEW g \in AllGuids
  PROVE  LET str == Guids!ToCharArray(g) IN str \in Seq(Int) /\ Len(str) = 36 /\ Bare(str, g)
<1> DEFINE str == Guids!ToCharArray(g)
<1>1. SpellsAll(str, g) /\ str \in [1 .. 36 -> Int]
  BY WrittenSpells
<1> HIDE DEF str
<1>2. str \in Seq(Int) /\ Len(str) = 36
  BY <1>1, AsSequence, Zenon
<1>3. ASSUME NEW n \in 1 .. 36 PROVE SpelledAt(str[n], n - 1, g)
  <2>1. n - 1 \in 0 .. 35 /\ (n - 1) + 1 = n
    OBVIOUS
  <2> QED BY <1>1, <2>1 DEF SpellsAll
<1> QED BY <1>2, <1>3 DEF Bare, str

\* The spots of the characters of a text.
LEMMA SpotsOf ==
  ASSUME NEW length \in Nat
  PROVE  /\ length <= 36 => \A n \in 1 .. length : n - 1 \in 0 .. 35
         /\ \A n \in 2 .. length : n \in 1 .. length /\ (n <= 37 => n - 2 \in 0 .. 35)
OBVIOUS

\* A text is one whatever case its characters are brought to.
LEMMA RecasedText ==
  ASSUME NEW g \in AllGuids, NEW str, TextOf(str, g), NEW new, new = [n \in DOMAIN str |-> new[n]],
         \A n \in DOMAIN str : new[n] = Guids!ToLower(str[n]) \/ new[n] = Guids!ToUpper(str[n])
  PROVE  TextOf(new, g) /\ Len(new) = Len(str)
<1>1. str \in Seq(Int) /\ DOMAIN str = 1 .. Len(str) /\ Len(str) \in Nat
  BY LenProperties DEF TextOf
<1>2. \A c \in Int : Guids!ToLower(c) \in Int /\ Guids!ToUpper(c) \in Int
  BY DEF Guids!ToLower, Guids!ToUpper, Guids!UpperA, Guids!LowerA
<1>3. Guids!ToLower(123) = 123 /\ Guids!ToUpper(123) = 123
  BY DEF Guids!ToLower, Guids!ToUpper, Guids!UpperA, Guids!LowerA
<1>4. \A n \in DOMAIN str : str[n] \in Int
  BY <1>1
<1>5. \A n \in DOMAIN str : new[n] \in Int
  BY <1>2, <1>4
<1>6. new \in [1 .. Len(str) -> Int]
  BY <1>1, <1>5
<1>7. new \in Seq(Int) /\ Len(new) = Len(str)
  BY <1>1, <1>6, AsSequence
<1>8. ASSUME NEW n \in DOMAIN str, NEW spot \in 0 .. 35, SpelledAt(str[n], spot, g)
      PROVE  SpelledAt(new[n], spot, g)
  BY <1>8, SpelledStays
<1>9. ASSUME NEW n \in 1 .. Len(str) PROVE n \in DOMAIN str
  BY <1>1
<1>10. CASE Bare(str, g)
  <2>1. ASSUME NEW n \in 1 .. Len(str) PROVE SpelledAt(new[n], n - 1, g)
    <3>1. n - 1 \in 0 .. 35
      BY <1>1, <1>10, SpotsOf, Zenon DEF Bare
    <3> QED BY <1>8, <1>9, <1>10, <3>1, Zenon DEF Bare
  <2> QED BY <1>7, <1>10, <2>1, Zenon DEF TextOf, Bare
<1>11. CASE InBraces(str, g)
  <2>1. ASSUME NEW n \in 2 .. Len(str), n <= 37 PROVE SpelledAt(new[n], n - 2, g)
    <3>1. n - 2 \in 0 .. 35 /\ n \in 1 .. Len(str)
      BY <1>1, <2>1, SpotsOf, Zenon
    <3> QED BY <1>8, <1>9, <1>11, <2>1, <3>1 DEF InBraces
  <2>2. Len(str) >= 1 => new[1] = 123
    <3>1. Len(str) >= 1 => 1 \in DOMAIN str
      BY <1>1
    <3>2. Len(str) >= 1 => str[1] = 123
      BY <1>11 DEF InBraces
    <3> QED BY <1>3, <3>1, <3>2
  <2> QED BY <1>7, <1>11, <2>1, <2>2, Zenon DEF TextOf, InBraces
<1> QED BY <1>7, <1>10, <1>11 DEF TextOf

\* A text behind another.
LEMMA Joined ==
  ASSUME NEW first \in Seq(Int), NEW second \in Seq(Int), NEW new, new = first \o second
  PROVE  /\ new \in Seq(Int) /\ Len(new) = Len(first) + Len(second)
         /\ \A n \in 1 .. Len(first) : new[n] = first[n]
         /\ \A n \in 1 .. Len(second) : new[Len(first) + n] = second[n]
<1>1. /\ first \o second \in Seq(Int) /\ Len(first \o second) = Len(first) + Len(second)
      /\ \A n \in 1 .. Len(first) + Len(second) :
           (first \o second)[n] = IF n <= Len(first) THEN first[n] ELSE second[n - Len(first)]
  BY ConcatProperties
<1> DEFINE k == Len(first)
           l == Len(second)
<1>2. k \in Nat /\ l \in Nat
  BY LenProperties
<1>3. /\ new \in Seq(Int) /\ Len(new) = k + l
      /\ \A n \in 1 .. k + l : new[n] = IF n <= k THEN first[n] ELSE second[n - k]
  BY <1>1
<1> HIDE DEF k, l
<1>4. \A n \in 1 .. k : n \in 1 .. k + l /\ n <= k
  BY <1>2
<1>5. \A n \in 1 .. l : k + n \in 1 .. k + l /\ ~(k + n <= k) /\ (k + n) - k = n
  BY <1>2
<1>6. \A n \in 1 .. k : new[n] = first[n]
  BY <1>3, <1>4
<1>7. \A n \in 1 .. l : new[k + n] = second[n]
  BY <1>3, <1>5, Zenon
<1> QED BY <1>3, <1>6, <1>7 DEF k, l

\* A text between two characters.
LEMMA Enclosed ==
  ASSUME NEW c \in Int, NEW d \in Int, NEW str \in Seq(Int), NEW new, new = <<c>> \o str \o <<d>>
  PROVE  new \in Seq(Int) /\ Len(new) = Len(str) + 2 /\ new[1] = c /\ \A n \in 1 .. Len(str) : new[n + 1] = str[n]
<1> DEFINE opening == <<c>>
           closing == <<d>>
           opened == opening \o str
<1>1. opening \in Seq(Int) /\ Len(opening) = 1 /\ opening[1] = c /\ closing \in Seq(Int) /\ Len(closing) = 1
  OBVIOUS
<1>2. opened = opening \o str /\ new = opened \o closing
  OBVIOUS
<1> HIDE DEF opening, closing, opened
<1>3. opening \in Seq(Int) /\ closing \in Seq(Int)
  BY <1>1
<1>4. opened \in Seq(Int) /\ Len(opened) = Len(opening) + Len(str)
  BY <1>2, <1>3, Joined
<1>5. \A n \in 1 .. Len(opening) : opened[n] = opening[n]
  BY <1>2, <1>3, Joined
<1>6. \A n \in 1 .. Len(str) : opened[Len(opening) + n] = str[n]
  BY <1>2, <1>3, Joined
<1>7. new \in Seq(Int) /\ Len(new) = Len(opened) + Len(closing)
  BY <1>2, <1>3, <1>4, Joined
<1>8. \A n \in 1 .. Len(opened) : new[n] = opened[n]
  <2>1. opened \in Seq(Int) /\ new = opened \o closing
    BY <1>2, <1>4, Zenon
  <2> QED BY <1>3, <2>1, Joined
<1> DEFINE length == Len(str)
<1>9. length \in Nat /\ Len(opened) = 1 + length /\ Len(new) = length + 2
  <2>1. length \in Nat
    BY LenProperties
  <2>2. Len(opened) = 1 + length /\ Len(new) = (1 + length) + 1
    BY <1>1, <1>4, <1>7
  <2> HIDE DEF length
  <2> QED BY <2>1, <2>2
<1> HIDE DEF length
<1>10. 1 \in 1 .. 1 /\ 1 \in 1 .. 1 + length /\ \A n \in 1 .. length : n + 1 = 1 + n /\ 1 + n \in 1 .. 1 + length
  BY <1>9
<1>11. new[1] = c
  BY <1>1, <1>5, <1>8, <1>9, <1>10
<1>12. \A n \in 1 .. length : opened[1 + n] = str[n]
  BY <1>1, <1>6, Zenon DEF length
<1>13. \A n \in 1 .. length : new[n + 1] = str[n]
  BY <1>8, <1>9, <1>10, <1>12
<1> QED BY <1>7, <1>9, <1>11, <1>13 DEF length

\* A text with all its characters, and braces around it.
WholeText(str, g) == Len(str) = 36 /\ Bare(str, g)

\* In braces, a whole text is one in braces.
LEMMA BracedText ==
  ASSUME NEW g \in AllGuids, NEW str \in Seq(Int), WholeText(str, g)
  PROVE  LET new == <<Guids!Braces[1]>> \o str \o <<Guids!Braces[2]>> IN
         new \in Seq(Int) /\ Len(new) = 38 /\ InBraces(new, g)
<1> DEFINE new == <<Guids!Braces[1]>> \o str \o <<Guids!Braces[2]>>
<1>1. Guids!Braces[1] \in Int /\ Guids!Braces[2] \in Int
  BY DEF Guids!Braces
<1>2. Guids!Braces[1] = 123
  BY DEF Guids!Braces
<1>3. new = <<Guids!Braces[1]>> \o str \o <<Guids!Braces[2]>>
  OBVIOUS
<1> HIDE DEF new
<1>4. new \in Seq(Int) /\ Len(new) = Len(str) + 2 /\ new[1] = Guids!Braces[1]
  BY <1>1, <1>3, Enclosed
<1>5. \A n \in 1 .. Len(str) : new[n + 1] = str[n]
  BY <1>1, <1>3, Enclosed
<1>6. Len(str) = 36 /\ Len(new) = 38
  BY <1>4 DEF WholeText
<1>7. ASSUME NEW n \in 2 .. 37 PROVE SpelledAt(new[n], n - 2, g)
  <2>1. n - 1 \in 1 .. 36 /\ (n - 1) - 1 = n - 2 /\ (n - 1) + 1 = n
    OBVIOUS
  <2>2. SpelledAt(str[n - 1], (n - 1) - 1, g)
    BY <1>6, <2>1, Zenon DEF WholeText, Bare
  <2>3. new[(n - 1) + 1] = str[n - 1]
    BY <1>5, <1>6, <2>1, Zenon
  <2> QED BY <2>1, <2>2, <2>3
<1>8. \A n \in 2 .. Len(new) : n <= 37 => n \in 2 .. 37
  BY <1>6
<1>9. Len(new) <= 38 /\ new[1] = 123
  BY <1>2, <1>4, <1>6
<1>10. InBraces(new, g)
  BY <1>7, <1>8, <1>9, Zenon DEF InBraces
<1> QED BY <1>4, <1>6, <1>10 DEF new

\* A text cut short.
LEMMA CutText ==
  ASSUME NEW g \in AllGuids, NEW str, TextOf(str, g), NEW length \in Nat, length < Len(str)
  PROVE  TextOf(SubSeq(str, 1, length), g)
<1> DEFINE new == SubSeq(str, 1, length)
<1>1. str \in Seq(Int) /\ Len(str) \in Nat /\ DOMAIN str = 1 .. Len(str)
  BY LenProperties DEF TextOf
<1>2. new = [n \in 1 .. (length - 1) + 1 |-> str[(1 + n) - 1]]
  OBVIOUS
<1>3. (length - 1) + 1 = length /\ \A n \in 1 .. length : (1 + n) - 1 = n /\ n \in 1 .. Len(str)
  BY <1>1
<1> HIDE DEF new
<1>4. \A n \in 1 .. length : new[n] = str[n]
  BY <1>2, <1>3
<1>5. \A n \in 1 .. length : new[n] \in Int
  <2>1. \A n \in 1 .. Len(str) : str[n] \in Int
    BY <1>1
  <2> QED BY <1>3, <1>4, <2>1
<1>6. new = [n \in 1 .. length |-> new[n]]
  BY <1>2, <1>3
<1>7. new \in Seq(Int) /\ Len(new) = length
  <2>1. new \in [1 .. length -> Int]
    BY <1>5, <1>6
  <2> QED BY <2>1, AsSequence
<1>8. CASE Bare(str, g)
  <2>1. \A n \in 1 .. length : SpelledAt(new[n], n - 1, g)
    BY <1>3, <1>4, <1>8 DEF Bare
  <2>2. length <= 36
    BY <1>1, <1>8 DEF Bare
  <2> QED BY <1>7, <2>1, <2>2 DEF TextOf, Bare, new
<1>9. CASE InBraces(str, g)
  <2>1. \A n \in 2 .. length : n \in 2 .. Len(str) /\ n \in 1 .. length
    BY <1>1
  <2>2. \A n \in 2 .. length : n <= 37 => SpelledAt(new[n], n - 2, g)
    BY <1>4, <1>9, <2>1 DEF InBraces
  <2>3. length <= 38
    BY <1>1, <1>9 DEF InBraces
  <2>4. length >= 1 => new[1] = 123
    <3>1. length >= 1 => 1 \in 1 .. length /\ Len(str) >= 1
      BY <1>1
    <3> QED BY <1>4, <1>9, <3>1 DEF InBraces
  <2> QED BY <1>7, <2>2, <2>3, <2>4 DEF TextOf, InBraces, new
<1> QED BY <1>8, <1>9 DEF TextOf, new

\* What Parse makes of a text with all its characters, and of the view of one in braces.
LEMMA WholeIsParsed ==
  ASSUME NEW g \in AllGuids, NEW str, WholeText(str, g)
  PROVE  Guids!Parse(str) = g /\ str[1] # 123
<1>1. ASSUME NEW spot \in 0 .. 35 PROVE SpelledAt(str[spot + 1], spot, g)
  <2>1. spot + 1 \in 1 .. 36 /\ (spot + 1) - 1 = spot
    OBVIOUS
  <2>2. SpelledAt(str[spot + 1], (spot + 1) - 1, g)
    BY <2>1 DEF WholeText, Bare
  <2> QED BY <2>1, <2>2
<1>2. Guids!Parse(str) = g
  BY <1>1, SpelledIsParsed DEF SpellsAll
<1>3. 0 \in 0 .. 35 /\ 0 + 1 = 1
  OBVIOUS
<1>4. SpelledAt(str[1], 0, g)
  BY <1>1, <1>3
<1>5. str[1] # 123
  BY <1>3, <1>4, SpelledStays
<1> QED BY <1>2, <1>5

\* The view of a text in braces that Create parses is a whole text.
LEMMA ViewIsParsed ==
  ASSUME NEW g \in AllGuids, NEW str, InBraces(str, g), Len(str) \in Nat, Len(str) > 36
  PROVE  Guids!Parse(SubSeq(str, 2, 37)) = g
<1> DEFINE view == SubSeq(str, 2, 37)
<1>1. view = [n \in 1 .. (37 - 2) + 1 |-> str[(2 + n) - 1]]
  OBVIOUS
<1> HIDE DEF view
<1>2. ASSUME NEW spot \in 0 .. 35 PROVE SpelledAt(view[spot + 1], spot, g)
  <2>1. spot + 1 \in 1 .. (37 - 2) + 1 /\ (2 + (spot + 1)) - 1 = spot + 2
        /\ spot + 2 \in 2 .. 37 /\ spot + 2 <= 37 /\ (spot + 2) - 2 = spot
    OBVIOUS
  <2>2. view[spot + 1] = str[spot + 2]
    BY <1>1, <2>1
  <2>3. spot + 2 \in 2 .. Len(str)
    OBVIOUS
  <2>4. SpelledAt(str[spot + 2], (spot + 2) - 2, g)
    BY <2>1, <2>3 DEF InBraces
  <2> QED BY <2>1, <2>2, <2>4
<1>3. Guids!Parse(view) = g
  BY <1>2, SpelledIsParsed, Zenon DEF SpellsAll
<1> QED BY <1>3 DEF view

\* What the opening brace and the dash are read as.
LEMMA OthersAreRead ==
  ASSUME NEW c \in Int
  PROVE  (c = 123 => Guids!HexToDec(c) % 16 = 4) /\ (c = 45 => Guids!HexToDec(c) % 16 = 13)
<1> USE DEF Guids!UpperA, Guids!LowerA, Guids!Zero
<1>1. ASSUME c = 123 PROVE Guids!HexToDec(c) = 36
  BY <1>1 DEF Guids!HexToDec, Guids!ToLower
<1>2. ASSUME c < 65 PROVE Guids!HexToDec(c) = (c - 48) % 256
  BY <1>2 DEF Guids!HexToDec, Guids!ToLower
<1>3. \A q \in Int : (q * 256 + 253) % 256 = 253
  <2>1. 256 \in Nat \ {0} /\ 253 \in 0 .. 256 - 1
    OBVIOUS
  <2> QED BY <2>1, ResidueIs
<1>4. ASSUME c = 45 PROVE Guids!HexToDec(c) = 253
  <2>1. PICK q \in Int : q = -1
    OBVIOUS
  <2>2. c < 65 /\ c - 48 = q * 256 + 253
    BY <1>4, <2>1
  <2>3. (q * 256 + 253) % 256 = 253
    BY <1>3
  <2> QED BY <1>2, <2>2, <2>3, Zenon
<1>5. 36 % 16 = 4 /\ 253 % 16 = 13
  OBVIOUS
<1> QED BY <1>1, <1>4, <1>5

\* The samples are GUIDs, of which the low part has all nibbles but one alike.
LEMMA SampledGuids == Guids!GUIDs \subseteq AllGuids
<1> DEFINE Part == {[n \in 0 .. 15 |-> fill] : fill \in Fills}
           Other == {[part EXCEPT ![n] = v] : part \in Part, n \in 0 .. 15, v \in Digits}
<1>1. Fills \subseteq 0 .. 15 /\ Digits \subseteq 0 .. 15
  BY ValuesAssumption DEF Guids!GuidAssumption
<1>2. Part \subseteq Nibbles
  BY <1>1 DEF Nibbles
<1>3. Other \subseteq Nibbles
  BY <1>1, <1>2 DEF Nibbles
<1>4. Guids!GUIDs = [part1 : Part, part2 : Other] \cup [part1 : Other, part2 : Part]
  BY DEF Guids!GUIDs
<1> HIDE DEF Part, Other
<1> QED BY <1>2, <1>3, <1>4 DEF AllGuids

\* Any two nibbles of the low part of a sample but one are alike.
LEMMA SampledPart ==
  ASSUME NEW g \in Guids!GUIDs
  PROVE  \E fill, n : \A k \in 0 .. 15 : k = n \/ g.part1[k] = fill
<1> DEFINE Part == {[n \in 0 .. 15 |-> fill] : fill \in Fills}
           Other == {[part EXCEPT ![n] = v] : part \in Part, n \in 0 .. 15, v \in Digits}
<1>1. Guids!GUIDs = [part1 : Part, part2 : Other] \cup [part1 : Other, part2 : Part]
  BY DEF Guids!GUIDs
<1> HIDE DEF Part, Other
<1>2. g.part1 \in Part \/ g.part1 \in Other
  BY <1>1
<1>3. ASSUME NEW part \in Part PROVE \E fill : part = [k \in 0 .. 15 |-> fill]
  BY DEF Part
<1>4. CASE g.part1 \in Part
  BY <1>3, <1>4
<1>5. CASE g.part1 \in Other
  <2>1. PICK part \in Part, n \in 0 .. 15, v \in Digits : g.part1 = [part EXCEPT ![n] = v]
    <3>1. \A other \in Other : \E part \in Part, n \in 0 .. 15, v \in Digits : other = [part EXCEPT ![n] = v]
      BY SMT DEF Other
    <3> QED BY <1>5, <3>1, Zenon
  <2>2. PICK fill : part = [k \in 0 .. 15 |-> fill]
    BY <1>3
  <2>3. \A k \in 0 .. 15 : k = n \/ g.part1[k] = fill
    BY <2>1, <2>2
  <2> QED BY <2>3, Zenon
<1> QED BY <1>2, <1>4, <1>5

\* A text in braces cut to the usual length is another GUID: the brace and the first
\* dash are read as a four and as a thirteen, next to them is what was written one
\* character before, and no GUID of the samples has two nibbles of each.
LEMMA BracedReadsOtherwise ==
  ASSUME NEW g \in Guids!GUIDs, g \in AllGuids, NEW str, InBraces(str, g), Len(str) = 36
  PROVE  Guids!Parse(str) # g
<1> SUFFICES ASSUME Guids!Parse(str) = g PROVE FALSE
  OBVIOUS
<1> DEFINE part == g.part1
           h(n) == Guids!HexToDec(str[Guids!part1_index[n \div 2 + 1] + 1])
           l(n) == Guids!HexToDec(str[Guids!part1_index[n \div 2 + 1] + 2])
           read == [n \in 0 .. 15 |-> IF n % 2 = 0 THEN l(n) % 16 ELSE Guids!Or(h(n) % 16, l(n) \div 16)]
<1>1. part = read
  <2>1. g.part1 = Guids!ParsePart(str, Guids!part1_index)
    BY DEF Guids!Parse
  <2>2. Guids!ParsePart(str, Guids!part1_index) = read
    BY Zenon DEF Guids!ParsePart
  <2> QED BY <2>1, <2>2, Zenon
<1>2. /\ Guids!part1_index[4] = 0 /\ Guids!part1_index[6] = 9
      /\ Place(0) = 7 /\ Place(8) = -1 /\ Place(9) = 11
  BY DEF Guids!part1_index, Place, Guids!shifts
<1>3. /\ 6 \div 2 + 1 = 4 /\ 7 \div 2 + 1 = 4 /\ 10 \div 2 + 1 = 6 /\ 11 \div 2 + 1 = 6
      /\ 6 % 2 = 0 /\ 7 % 2 # 0 /\ 10 % 2 = 0 /\ 11 % 2 # 0
      /\ 0 + 1 = 1 /\ 0 + 2 = 2 /\ 9 + 1 = 10 /\ 9 + 2 = 11
  OBVIOUS
<1>4. /\ h(7) = Guids!HexToDec(str[1]) /\ l(7) = Guids!HexToDec(str[2]) /\ l(6) = Guids!HexToDec(str[2])
      /\ h(11) = Guids!HexToDec(str[10]) /\ l(11) = Guids!HexToDec(str[11]) /\ l(10) = Guids!HexToDec(str[11])
  BY <1>2, <1>3
<1> HIDE DEF h, l
<1>5. /\ read[6] = l(6) % 16 /\ read[7] = Guids!Or(h(7) % 16, l(7) \div 16)
      /\ read[10] = l(10) % 16 /\ read[11] = Guids!Or(h(11) % 16, l(11) \div 16)
  BY <1>3
<1> HIDE DEF read
<1>6. str[1] = 123 /\ SpelledAt(str[2], 0, g) /\ SpelledAt(str[10], 8, g) /\ SpelledAt(str[11], 9, g)
  <2>1. 2 \in 2 .. 36 /\ 10 \in 2 .. 36 /\ 11 \in 2 .. 36 /\ 2 <= 37 /\ 10 <= 37 /\ 11 <= 37
        /\ 2 - 2 = 0 /\ 10 - 2 = 8 /\ 11 - 2 = 9 /\ 36 >= 1
    OBVIOUS
  <2> QED BY <2>1 DEF InBraces
<1>7. Nibble(g, 7) = part[7] /\ Nibble(g, 11) = part[11] /\ part[7] \in 0 .. 15 /\ part[11] \in 0 .. 15
  <2>1. 7 \in 0 .. 15 /\ 11 \in 0 .. 15 /\ 7 \in 0 .. 31 /\ 11 \in 0 .. 31
    OBVIOUS
  <2> QED BY <2>1, NibblesAre
<1> HIDE DEF part
<1>8. str[10] = 45 /\ Spells(str[2], part[7]) /\ Spells(str[11], part[11])
  <2>1. ~(7 < 0) /\ -1 < 0 /\ ~(11 < 0)
    OBVIOUS
  <2> QED BY <1>2, <1>6, <1>7, <2>1 DEF SpelledAt
<1>9. l(6) = part[7] /\ l(7) = part[7] /\ l(10) = part[11] /\ l(11) = part[11]
  BY <1>4, <1>7, <1>8, DigitIsRead
<1>10. Guids!HexToDec(str[1]) % 16 = 4 /\ Guids!HexToDec(str[10]) % 16 = 13
  <2>1. str[1] \in Int /\ str[10] \in Int
    BY <1>6, <1>8
  <2> QED BY <1>6, <1>8, <2>1, OthersAreRead
<1>11. part[7] % 16 = part[7] /\ part[7] \div 16 = 0 /\ part[11] % 16 = part[11] /\ part[11] \div 16 = 0
  BY <1>7
<1>12. h(7) % 16 = 4 /\ h(11) % 16 = 13
  BY <1>4, <1>10
<1>13. Guids!Or(4, 0) = 4 /\ Guids!Or(13, 0) = 13
  <2>1. 4 \in 0 .. 15 /\ 13 \in 0 .. 15
    OBVIOUS
  <2> QED BY <2>1, OrWithNone
<1>14. part[7] = 4 /\ part[6] = 4 /\ part[11] = 13 /\ part[10] = 13
  <2>1. part[7] = 4 /\ part[11] = 13
    BY <1>1, <1>5, <1>9, <1>11, <1>12, <1>13
  <2>2. part[6] = part[7] /\ part[10] = part[11]
    BY <1>1, <1>5, <1>9, <1>11
  <2> QED BY <2>1, <2>2
<1>17. PICK fill, n : \A k \in 0 .. 15 : k = n \/ part[k] = fill
  BY SampledPart, Zenon DEF part
<1>18. 6 \in 0 .. 15 /\ 7 \in 0 .. 15 /\ 10 \in 0 .. 15 /\ 11 \in 0 .. 15
  OBVIOUS
<1>19. (part[6] = fill \/ part[7] = fill) /\ (part[10] = fill \/ part[11] = fill)
  BY <1>17, <1>18
<1> QED BY <1>14, <1>19

-----------------------------------------------------------------------------
(* GUID: the usual layout, from its description.                           *)

\* The digits of the layout, each a text of one character.
HexDigits == <<48, 49, 50, 51, 52, 53, 54, 55, 56, 57, 65, 66, 67, 68, 69, 70>>
HexDigit(v) == SubSeq(HexDigits, v + 1, v + 1)

\* A digit of the layout is the one that spells the nibble.
LEMMA OneDigit ==
  ASSUME NEW v \in 0 .. 15
  PROVE  HexDigit(v) \in Seq(Int) /\ Len(HexDigit(v)) = 1 /\ HexDigit(v)[1] = UpperDigit(v)
<1>1. HexDigits[v + 1] = UpperDigit(v) /\ UpperDigit(v) \in Int
  BY DEF UpperDigit, HexDigits
<1> DEFINE text_ == HexDigit(v)
<1>2. text_ = [n \in 1 .. ((v + 1) - (v + 1)) + 1 |-> HexDigits[((v + 1) + n) - 1]]
  BY DEF HexDigit
<1> HIDE DEF text_
<1>3. ((v + 1) - (v + 1)) + 1 = 1 /\ \A n \in 1 .. 1 : ((v + 1) + n) - 1 = v + 1
  OBVIOUS
<1>4. \A n \in 1 .. 1 : text_[n] = UpperDigit(v)
  BY <1>1, <1>2, <1>3
<1>5. text_ = [n \in 1 .. 1 |-> text_[n]]
  BY <1>2, <1>3
<1>6. text_ \in [1 .. 1 -> Int]
  BY <1>1, <1>4, <1>5
<1>7. 1 \in Nat /\ 1 \in 1 .. 1
  OBVIOUS
<1>8. text_ \in Seq(Int) /\ Len(text_) = 1
  BY <1>6, <1>7, AsSequence, Zenon
<1> QED BY <1>4, <1>7, <1>8 DEF text_

\* The two digits of a byte, the high nibble first.
LEMMA ByteIs ==
  ASSUME NEW g \in AllGuids, NEW byte \in 0 .. 15
  PROVE  LET new == Guids!ByteText(g, byte) IN
         /\ new \in Seq(Int) /\ Len(new) = 2
         /\ new[1] = UpperDigit(Nibble(g, 2 * byte + 1)) /\ new[2] = UpperDigit(Nibble(g, 2 * byte))
<1> DEFINE part == IF byte < 8 THEN g.part1 ELSE g.part2
           high == part[2 * (byte % 8) + 1]
           low == part[2 * (byte % 8)]
           new == Guids!ByteText(g, byte)
<1>1. new = HexDigit(high) \o HexDigit(low)
  BY Zenon DEF Guids!ByteText, HexDigit, HexDigits
<1> HIDE DEF new
<1>2. high = Nibble(g, 2 * byte + 1) /\ low = Nibble(g, 2 * byte)
  <2>1. CASE byte < 8
    <3>1. /\ byte % 8 = byte /\ 2 * byte + 1 \in 0 .. 15 /\ 2 * byte \in 0 .. 15
          /\ ~(2 * byte + 1 >= 16) /\ ~(2 * byte >= 16)
      BY <2>1
    <3> QED BY <2>1, <3>1 DEF Nibble
  <2>2. CASE ~(byte < 8)
    <3>1. /\ byte % 8 = byte - 8 /\ 2 * (byte - 8) + 1 = (2 * byte + 1) - 16 /\ 2 * (byte - 8) = 2 * byte - 16
          /\ 2 * byte + 1 >= 16 /\ 2 * byte >= 16
      BY <2>2
    <3> QED BY <2>2, <3>1 DEF Nibble
  <2> QED BY <2>1, <2>2
<1>3. high \in 0 .. 15 /\ low \in 0 .. 15
  <2>1. 2 * byte + 1 \in 0 .. 31 /\ 2 * byte \in 0 .. 31
    OBVIOUS
  <2> QED BY <1>2, <2>1, NibblesAre
<1> HIDE DEF high, low, part
<1> DEFINE first == HexDigit(high)
           second == HexDigit(low)
<1>4. /\ first \in Seq(Int) /\ Len(first) = 1 /\ first[1] = UpperDigit(high)
      /\ second \in Seq(Int) /\ Len(second) = 1 /\ second[1] = UpperDigit(low)
  BY <1>3, OneDigit, Zenon
<1>5. new = first \o second
  BY <1>1
<1> HIDE DEF first, second
<1>6. first \in Seq(Int) /\ second \in Seq(Int)
  BY <1>4
<1>7. new \in Seq(Int) /\ Len(new) = Len(first) + Len(second)
  BY <1>6, <1>5, Joined
<1>8. \A n \in 1 .. Len(first) : new[n] = first[n]
  BY <1>6, <1>5, Joined
<1>9. \A n \in 1 .. Len(second) : new[Len(first) + n] = second[n]
  BY <1>6, <1>5, Joined
<1>10. Len(new) = 2 /\ 1 \in 1 .. 1 /\ 1 + 1 = 2
  BY <1>4, <1>7
<1>11. new[1] = first[1] /\ new[1 + 1] = second[1]
  BY <1>4, <1>8, <1>9, <1>10
<1> QED BY <1>2, <1>4, <1>7, <1>10, <1>11 DEF new

\* The bytes of a group up to the n-th.
BytesText(str, g, group, n) ==
  /\ str \in Seq(Int) /\ Len(str) = 2 * n
  /\ \A k \in 1 .. n : /\ str[2 * k - 1] = UpperDigit(Nibble(g, 2 * group[k] + 1))
                       /\ str[2 * k] = UpperDigit(Nibble(g, 2 * group[k]))

\* One byte more.
LEMMA BytesTextMore ==
  ASSUME NEW g \in AllGuids, NEW group, NEW n \in Nat \ {0}, group[n] \in 0 .. 15,
         NEW str, BytesText(str, g, group, n - 1)
  PROVE  BytesText(str \o Guids!ByteText(g, group[n]), g, group, n)
<1> DEFINE byte == Guids!ByteText(g, group[n])
           new == str \o byte
<1>1. /\ byte \in Seq(Int) /\ Len(byte) = 2
      /\ byte[1] = UpperDigit(Nibble(g, 2 * group[n] + 1)) /\ byte[2] = UpperDigit(Nibble(g, 2 * group[n]))
  BY ByteIs, Zenon
<1>2. new = str \o byte
  OBVIOUS
<1> HIDE DEF byte, new
<1>3. str \in Seq(Int) /\ byte \in Seq(Int)
  BY <1>1 DEF BytesText
<1>4. new \in Seq(Int) /\ Len(new) = Len(str) + Len(byte)
  BY <1>2, <1>3, Joined
<1>5. \A k \in 1 .. Len(str) : new[k] = str[k]
  BY <1>2, <1>3, Joined
<1>6. \A k \in 1 .. Len(byte) : new[Len(str) + k] = byte[k]
  BY <1>2, <1>3, Joined
<1>7. Len(str) = 2 * (n - 1) /\ Len(new) = 2 * n
  BY <1>1, <1>4 DEF BytesText
<1>8. ASSUME NEW k \in 1 .. n
      PROVE  /\ new[2 * k - 1] = UpperDigit(Nibble(g, 2 * group[k] + 1))
             /\ new[2 * k] = UpperDigit(Nibble(g, 2 * group[k]))
  <2>1. CASE k = n
    <3>1. 2 * (n - 1) + 1 = 2 * k - 1 /\ 2 * (n - 1) + 2 = 2 * k /\ 1 \in 1 .. 2 /\ 2 \in 1 .. 2
      BY <2>1
    <3>2. new[2 * (n - 1) + 1] = byte[1] /\ new[2 * (n - 1) + 2] = byte[2]
      BY <1>1, <1>6, <1>7, <3>1
    <3> QED BY <1>1, <2>1, <3>1, <3>2
  <2>2. CASE k # n
    <3>1. k \in 1 .. n - 1 /\ 2 * k - 1 \in 1 .. 2 * (n - 1) /\ 2 * k \in 1 .. 2 * (n - 1)
      BY <2>2
    <3>2. new[2 * k - 1] = str[2 * k - 1] /\ new[2 * k] = str[2 * k]
      BY <1>5, <1>7, <3>1
    <3> QED BY <3>1, <3>2 DEF BytesText
  <2> QED BY <2>1, <2>2
<1> QED BY <1>4, <1>7, <1>8, Zenon DEF BytesText, new, byte

\* The text of a group of up to six bytes, the longest there is. A function defined by
\* recursion is what its equation says if some function is.
LEMMA GroupIs ==
  ASSUME NEW g \in AllGuids, NEW group, NEW length \in 1 .. 6, Len(group) = length,
         \A n \in 1 .. length : group[n] \in 0 .. 15
  PROVE  BytesText(Guids!GroupText(g, group), g, group, length)
<1> DEFINE B(n) == Guids!ByteText(g, group[n])
           S1 == <<>> \o B(1)
           S2 == S1 \o B(2)
           S3 == S2 \o B(3)
           S4 == S3 \o B(4)
           S5 == S4 \o B(5)
           S6 == S5 \o B(6)
           h == [n \in 0 .. length |->
                  IF n = 0 THEN <<>> ELSE IF n = 1 THEN S1 ELSE IF n = 2 THEN S2 ELSE IF n = 3 THEN S3
                  ELSE IF n = 4 THEN S4 ELSE IF n = 5 THEN S5 ELSE S6]
           Recursion(f) == f = [n \in 0 .. length |-> IF n = 0 THEN <<>> ELSE f[n - 1] \o B(n)]
           f_ == CHOOSE f : Recursion(f)
<1>1. Guids!GroupText(g, group) = f_[length]
  BY Zenon DEF Guids!GroupText
<1> HIDE DEF B
<1>2. Recursion(h)
  <2>1. ASSUME NEW n \in 0 .. length
        PROVE  h[n] = IF n = 0 THEN <<>> ELSE h[n - 1] \o B(n)
    <3>1. n = 0 \/ n = 1 \/ n = 2 \/ n = 3 \/ n = 4 \/ n = 5 \/ n = 6
      OBVIOUS
    <3>2. n # 0 => n - 1 \in 0 .. length
      OBVIOUS
    <3> HIDE DEF S1, S2, S3, S4, S5, S6
    <3>3. \A k \in 0 .. length : h[k] =
            IF k = 0 THEN <<>> ELSE IF k = 1 THEN S1 ELSE IF k = 2 THEN S2 ELSE IF k = 3 THEN S3
            ELSE IF k = 4 THEN S4 ELSE IF k = 5 THEN S5 ELSE S6
      OBVIOUS
    <3> HIDE DEF h
    <3>4. S1 = <<>> \o B(1) /\ S2 = S1 \o B(2) /\ S3 = S2 \o B(3) /\ S4 = S3 \o B(4) /\ S5 = S4 \o B(5) /\ S6 = S5 \o B(6)
      BY DEF S1, S2, S3, S4, S5, S6
    <3>5. CASE n = 0
      BY <3>3, <3>5
    <3>6. CASE n = 1
      <4>1. h[n] = S1 /\ h[n - 1] = <<>>
        BY <3>2, <3>3, <3>6
      <4> QED BY <3>4, <3>6, <4>1
    <3>7. CASE n = 2
      <4>1. h[n] = S2 /\ h[n - 1] = S1
        BY <3>2, <3>3, <3>7
      <4> QED BY <3>4, <3>7, <4>1
    <3>8. CASE n = 3
      <4>1. h[n] = S3 /\ h[n - 1] = S2
        BY <3>2, <3>3, <3>8
      <4> QED BY <3>4, <3>8, <4>1
    <3>9. CASE n = 4
      <4>1. h[n] = S4 /\ h[n - 1] = S3
        BY <3>2, <3>3, <3>9
      <4> QED BY <3>4, <3>9, <4>1
    <3>10. CASE n = 5
      <4>1. h[n] = S5 /\ h[n - 1] = S4
        BY <3>2, <3>3, <3>10
      <4> QED BY <3>4, <3>10, <4>1
    <3>11. CASE n = 6
      <4>1. h[n] = S6 /\ h[n - 1] = S5
        BY <3>2, <3>3, <3>11
      <4> QED BY <3>4, <3>11, <4>1
    <3> QED BY <3>1, <3>5, <3>6, <3>7, <3>8, <3>9, <3>10, <3>11
  <2>2. h = [n \in 0 .. length |-> h[n]]
    OBVIOUS
  <2> HIDE DEF h
  <2> QED BY <2>1, <2>2, Zenon
<1>3. Recursion(f_)
  <2> HIDE DEF Recursion, h
  <2>1. \E f : Recursion(f)
    BY <1>2
  <2> QED BY <2>1 DEF f_
<1> HIDE DEF f_
<1>4. f_[0] = <<>>
  <2>1. 0 \in 0 .. length
    OBVIOUS
  <2> QED BY <1>3, <2>1
<1>5. ASSUME NEW n \in 1 .. length PROVE f_[n] = f_[n - 1] \o B(n)
  <2>1. n \in 0 .. length /\ n # 0
    OBVIOUS
  <2> QED BY <1>3, <2>1, Zenon
<1> HIDE DEF Recursion, h
<1>6. BytesText(f_[0], g, group, 0)
  BY <1>4 DEF BytesText
<1>7. ASSUME NEW n \in 1 .. length, BytesText(f_[n - 1], g, group, n - 1) PROVE BytesText(f_[n], g, group, n)
  <2>1. n \in Nat \ {0} /\ group[n] \in 0 .. 15
    OBVIOUS
  <2> QED BY <1>5, <1>7, <2>1, BytesTextMore, Zenon DEF B
<1>8. /\ BytesText(f_[1], g, group, 1)
      /\ (length >= 2 => BytesText(f_[2], g, group, 2)) /\ (length >= 3 => BytesText(f_[3], g, group, 3))
      /\ (length >= 4 => BytesText(f_[4], g, group, 4)) /\ (length >= 5 => BytesText(f_[5], g, group, 5))
      /\ (length >= 6 => BytesText(f_[6], g, group, 6))
  <2>1. \A n \in 1 .. 6 : n <= length => n \in 1 .. length
    OBVIOUS
  <2>2. 1 - 1 = 0 /\ 2 - 1 = 1 /\ 3 - 1 = 2 /\ 4 - 1 = 3 /\ 5 - 1 = 4 /\ 6 - 1 = 5
    OBVIOUS
  <2>3. BytesText(f_[1], g, group, 1)
    BY <1>6, <1>7, <2>1, <2>2
  <2>4. length >= 2 => BytesText(f_[2], g, group, 2)
    BY <1>7, <2>1, <2>2, <2>3
  <2>5. length >= 3 => BytesText(f_[3], g, group, 3)
    BY <1>7, <2>1, <2>2, <2>4
  <2>6. length >= 4 => BytesText(f_[4], g, group, 4)
    BY <1>7, <2>1, <2>2, <2>5
  <2>7. length >= 5 => BytesText(f_[5], g, group, 5)
    BY <1>7, <2>1, <2>2, <2>6
  <2>8. length >= 6 => BytesText(f_[6], g, group, 6)
    BY <1>7, <2>1, <2>2, <2>7
  <2> QED BY <2>3, <2>4, <2>5, <2>6, <2>7, <2>8
<1>9. length = 1 \/ length = 2 \/ length = 3 \/ length = 4 \/ length = 5 \/ length = 6
  OBVIOUS
<1>10. BytesText(f_[length], g, group, length)
  BY <1>8, <1>9
<1> QED BY <1>1, <1>10

\* As many characters as there are of what ToCharArray writes, from a spot on.
WritesFrom(str, g, begin, length) ==
  /\ str \in Seq(Int) /\ Len(str) = length
  /\ \A n \in 1 .. length : str[n] = WrittenAt(g, begin + n - 1)

\* What is written from the end of a text on goes behind it.
LEMMA WritesMore ==
  ASSUME NEW g, NEW length \in Nat, NEW more \in Nat, NEW first, NEW second,
         WritesFrom(first, g, 0, length), WritesFrom(second, g, length, more)
  PROVE  WritesFrom(first \o second, g, 0, length + more)
<1> DEFINE new == first \o second
<1>1. first \in Seq(Int) /\ second \in Seq(Int)
  BY DEF WritesFrom
<1>2. new = first \o second
  OBVIOUS
<1> HIDE DEF new
<1>3. new \in Seq(Int) /\ Len(new) = Len(first) + Len(second)
  BY <1>1, <1>2, Joined
<1>4. \A n \in 1 .. Len(first) : new[n] = first[n]
  BY <1>1, <1>2, Joined
<1>5. \A n \in 1 .. Len(second) : new[Len(first) + n] = second[n]
  BY <1>1, <1>2, Joined
<1>6. Len(first) = length /\ Len(second) = more
  BY DEF WritesFrom
<1>7. ASSUME NEW n \in 1 .. length + more PROVE new[n] = WrittenAt(g, 0 + n - 1)
  <2>1. CASE n <= length
    <3>1. n \in 1 .. length
      BY <2>1
    <3> QED BY <1>4, <1>6, <3>1 DEF WritesFrom
  <2>2. CASE ~(n <= length)
    <3>1. n - length \in 1 .. more /\ length + (n - length) = n /\ length + (n - length) - 1 = 0 + n - 1
      BY <2>2
    <3>2. second[n - length] = WrittenAt(g, length + (n - length) - 1)
      BY <3>1 DEF WritesFrom
    <3>3. new[length + (n - length)] = second[n - length]
      BY <1>5, <1>6, <3>1
    <3> QED BY <3>1, <3>2, <3>3
  <2> QED BY <2>1, <2>2
<1>8. Len(new) = length + more
  BY <1>3, <1>6
<1> QED BY <1>3, <1>7, <1>8, Zenon DEF WritesFrom, new

\* A dash is written where the table has one.
LEMMA DashWrites ==
  ASSUME NEW g, NEW begin \in Nat, Place(begin) = -1
  PROVE  WritesFrom(<<Guids!Dash>>, g, begin, 1)
<1> DEFINE dash == <<Guids!Dash>>
<1>1. Guids!Dash \in Int /\ Guids!Dash = 45
  BY DEF Guids!Dash
<1>2. dash \in Seq(Int) /\ Len(dash) = 1 /\ dash[1] = Guids!Dash
  BY <1>1
<1> HIDE DEF dash
<1>3. WrittenAt(g, begin) = Guids!Dash
  BY <1>1 DEF WrittenAt
<1>4. \A n \in 1 .. 1 : n = 1 /\ begin + n - 1 = begin
  OBVIOUS
<1> QED BY <1>2, <1>3, <1>4 DEF WritesFrom, dash

\* A group of bytes is written where the table has its nibbles.
LEMMA GroupWrites ==
  ASSUME NEW g \in AllGuids, NEW group, NEW length \in 1 .. 6, Len(group) = length, NEW begin \in Nat,
         \A k \in 1 .. length :
           /\ group[k] \in 0 .. 15
           /\ Place(begin + 2 * k - 2) = 2 * group[k] + 1 /\ Place(begin + 2 * k - 1) = 2 * group[k]
  PROVE  WritesFrom(Guids!GroupText(g, group), g, begin, 2 * length)
<1> DEFINE new == Guids!GroupText(g, group)
<1>1. BytesText(new, g, group, length)
  BY GroupIs, Zenon
<1> HIDE DEF new
<1>2. ASSUME NEW n \in 1 .. 2 * length PROVE new[n] = WrittenAt(g, begin + n - 1)
  <2>1. PICK k \in 1 .. length : n = 2 * k - 1 \/ n = 2 * k
    <3>1. (n + 1) \div 2 \in 1 .. length /\ (n = 2 * ((n + 1) \div 2) - 1 \/ n = 2 * ((n + 1) \div 2))
      OBVIOUS
    <3> QED BY <3>1
  <2>2. /\ new[2 * k - 1] = UpperDigit(Nibble(g, 2 * group[k] + 1))
        /\ new[2 * k] = UpperDigit(Nibble(g, 2 * group[k]))
    BY <1>1, Zenon DEF BytesText
  <2>3. ~(2 * group[k] + 1 < 0) /\ ~(2 * group[k] < 0)
    <3>1. \A byte \in 0 .. 15 : ~(2 * byte + 1 < 0) /\ ~(2 * byte < 0)
      OBVIOUS
    <3>2. group[k] \in 0 .. 15
      OBVIOUS
    <3> QED BY <3>1, <3>2, Zenon
  <2>4. WrittenAt(g, begin + 2 * k - 2) = UpperDigit(Nibble(g, 2 * group[k] + 1))
    BY <2>3 DEF WrittenAt
  <2>5. WrittenAt(g, begin + 2 * k - 1) = UpperDigit(Nibble(g, 2 * group[k]))
    BY <2>3 DEF WrittenAt
  <2>6. begin + (2 * k - 1) - 1 = begin + 2 * k - 2 /\ begin + (2 * k) - 1 = begin + 2 * k - 1
    OBVIOUS
  <2> QED BY <2>1, <2>2, <2>4, <2>5, <2>6, Zenon
<1>3. new \in Seq(Int) /\ Len(new) = 2 * length
  BY <1>1 DEF BytesText
<1> QED BY <1>2, <1>3 DEF WritesFrom, new

\* The groups of the usual layout are where the table has them.
LEMMA GroupsWrite ==
  ASSUME NEW g \in AllGuids
  PROVE  /\ WritesFrom(Guids!GroupText(g, Guids!Groups[1]), g, 0, 8)
         /\ WritesFrom(Guids!GroupText(g, Guids!Groups[2]), g, 9, 4)
         /\ WritesFrom(Guids!GroupText(g, Guids!Groups[3]), g, 14, 4)
         /\ WritesFrom(Guids!GroupText(g, Guids!Groups[4]), g, 19, 4)
         /\ WritesFrom(Guids!GroupText(g, Guids!Groups[5]), g, 24, 12)
<1>1. WritesFrom(Guids!GroupText(g, <<3, 2, 1, 0>>), g, 0, 8)
  <2> DEFINE group == <<3, 2, 1, 0>>
  <2>1. Len(group) = 4 /\ group[1] = 3 /\ group[2] = 2 /\ group[3] = 1 /\ group[4] = 0
    OBVIOUS
  <2>2. /\ Place(0) = 7 /\ Place(1) = 6 /\ Place(2) = 5 /\ Place(3) = 4
        /\ Place(4) = 3 /\ Place(5) = 2 /\ Place(6) = 1 /\ Place(7) = 0
    BY DEF Place, Guids!shifts
  <2> HIDE DEF group
  <2>3. ASSUME NEW k \in 1 .. 4
        PROVE  group[k] \in 0 .. 15 /\ Place(0 + 2 * k - 2) = 2 * group[k] + 1 /\ Place(0 + 2 * k - 1) = 2 * group[k]
    <3>1. k = 1 \/ k = 2 \/ k = 3 \/ k = 4
      OBVIOUS
    <3> QED BY <2>1, <2>2, <3>1
  <2>4. 4 \in 1 .. 6 /\ 2 * 4 = 8 /\ 0 \in Nat
    OBVIOUS
  <2>5. WritesFrom(Guids!GroupText(g, group), g, 0, 2 * 4)
    BY <2>1, <2>3, <2>4, GroupWrites
  <2> QED BY <2>4, <2>5 DEF group
<1>2. ASSUME NEW begin \in Nat, NEW group, Len(group) = 2, NEW a \in 0 .. 15, NEW b \in 0 .. 15,
             group[1] = a, group[2] = b, Place(begin) = 2 * a + 1, Place(begin + 1) = 2 * a,
             Place(begin + 2) = 2 * b + 1, Place(begin + 3) = 2 * b
      PROVE  WritesFrom(Guids!GroupText(g, group), g, begin, 4)
  <2>1. ASSUME NEW k \in 1 .. 2
        PROVE  /\ group[k] \in 0 .. 15
               /\ Place(begin + 2 * k - 2) = 2 * group[k] + 1 /\ Place(begin + 2 * k - 1) = 2 * group[k]
    <3>1. k = 1 \/ k = 2
      OBVIOUS
    <3>2. begin + 2 * 1 - 2 = begin /\ begin + 2 * 1 - 1 = begin + 1 /\ begin + 2 * 2 - 2 = begin + 2
          /\ begin + 2 * 2 - 1 = begin + 3
      OBVIOUS
    <3> QED BY <1>2, <3>1, <3>2
  <2>2. 2 \in 1 .. 6 /\ 2 * 2 = 4
    OBVIOUS
  <2>3. WritesFrom(Guids!GroupText(g, group), g, begin, 2 * 2)
    BY <1>2, <2>1, <2>2, GroupWrites
  <2> QED BY <2>2, <2>3
<1>3. WritesFrom(Guids!GroupText(g, <<5, 4>>), g, 9, 4)
  <2> DEFINE group == <<5, 4>>
  <2>1. Len(group) = 2 /\ group[1] = 5 /\ group[2] = 4
    OBVIOUS
  <2>2. Place(9) = 2 * 5 + 1 /\ Place(9 + 1) = 2 * 5 /\ Place(9 + 2) = 2 * 4 + 1 /\ Place(9 + 3) = 2 * 4
    BY DEF Place, Guids!shifts
  <2>3. 5 \in 0 .. 15 /\ 4 \in 0 .. 15 /\ 9 \in Nat
    OBVIOUS
  <2> HIDE DEF group
  <2>4. WritesFrom(Guids!GroupText(g, group), g, 9, 4)
    BY <1>2, <2>1, <2>2, <2>3, Zenon
  <2> QED BY <2>4 DEF group
<1>4. WritesFrom(Guids!GroupText(g, <<7, 6>>), g, 14, 4)
  <2> DEFINE group == <<7, 6>>
  <2>1. Len(group) = 2 /\ group[1] = 7 /\ group[2] = 6
    OBVIOUS
  <2>2. Place(14) = 2 * 7 + 1 /\ Place(14 + 1) = 2 * 7 /\ Place(14 + 2) = 2 * 6 + 1 /\ Place(14 + 3) = 2 * 6
    BY DEF Place, Guids!shifts
  <2>3. 7 \in 0 .. 15 /\ 6 \in 0 .. 15 /\ 14 \in Nat
    OBVIOUS
  <2> HIDE DEF group
  <2>4. WritesFrom(Guids!GroupText(g, group), g, 14, 4)
    BY <1>2, <2>1, <2>2, <2>3, Zenon
  <2> QED BY <2>4 DEF group
<1>5. WritesFrom(Guids!GroupText(g, <<8, 9>>), g, 19, 4)
  <2> DEFINE group == <<8, 9>>
  <2>1. Len(group) = 2 /\ group[1] = 8 /\ group[2] = 9
    OBVIOUS
  <2>2. Place(19) = 2 * 8 + 1 /\ Place(19 + 1) = 2 * 8 /\ Place(19 + 2) = 2 * 9 + 1 /\ Place(19 + 3) = 2 * 9
    BY DEF Place, Guids!shifts
  <2>3. 8 \in 0 .. 15 /\ 9 \in 0 .. 15 /\ 19 \in Nat
    OBVIOUS
  <2> HIDE DEF group
  <2>4. WritesFrom(Guids!GroupText(g, group), g, 19, 4)
    BY <1>2, <2>1, <2>2, <2>3, Zenon
  <2> QED BY <2>4 DEF group
<1>6. WritesFrom(Guids!GroupText(g, <<10, 11, 12, 13, 14, 15>>), g, 24, 12)
  <2> DEFINE group == <<10, 11, 12, 13, 14, 15>>
  <2>1. /\ Len(group) = 6 /\ group[1] = 10 /\ group[2] = 11 /\ group[3] = 12
        /\ group[4] = 13 /\ group[5] = 14 /\ group[6] = 15
    OBVIOUS
  <2>2. /\ Place(24) = 21 /\ Place(25) = 20 /\ Place(26) = 23 /\ Place(27) = 22 /\ Place(28) = 25 /\ Place(29) = 24
        /\ Place(30) = 27 /\ Place(31) = 26 /\ Place(32) = 29 /\ Place(33) = 28 /\ Place(34) = 31 /\ Place(35) = 30
    BY DEF Place, Guids!shifts
  <2> HIDE DEF group
  <2>3. ASSUME NEW k \in 1 .. 6
        PROVE  group[k] \in 0 .. 15 /\ Place(24 + 2 * k - 2) = 2 * group[k] + 1 /\ Place(24 + 2 * k - 1) = 2 * group[k]
    <3>1. k = 1 \/ k = 2 \/ k = 3 \/ k = 4 \/ k = 5 \/ k = 6
      OBVIOUS
    <3> QED BY <2>1, <2>2, <3>1
  <2>4. 6 \in 1 .. 6 /\ 2 * 6 = 12 /\ 24 \in Nat
    OBVIOUS
  <2>5. WritesFrom(Guids!GroupText(g, group), g, 24, 2 * 6)
    BY <2>1, <2>3, <2>4, GroupWrites
  <2> QED BY <2>4, <2>5 DEF group
<1>7. /\ Guids!Groups[1] = <<3, 2, 1, 0>> /\ Guids!Groups[2] = <<5, 4>> /\ Guids!Groups[3] = <<7, 6>>
      /\ Guids!Groups[4] = <<8, 9>> /\ Guids!Groups[5] = <<10, 11, 12, 13, 14, 15>>
  BY DEF Guids!Groups
<1> QED BY <1>1, <1>3, <1>4, <1>5, <1>6, <1>7, Zenon

\* The layout, described by its groups, is what ToCharArray writes.
LEMMA LaidOutAsWritten ==
  ASSUME NEW g \in AllGuids
  PROVE  Guids!ToCharArray(g) = Guids!LayoutText(g)
<1> DEFINE G(n) == Guids!GroupText(g, Guids!Groups[n])
           S1 == G(1)
           S2 == S1 \o <<Guids!Dash>> \o G(2)
           S3 == S2 \o <<Guids!Dash>> \o G(3)
           S4 == S3 \o <<Guids!Dash>> \o G(4)
           S5 == S4 \o <<Guids!Dash>> \o G(5)
           h == [n \in 1 .. 5 |->
                  IF n = 1 THEN S1 ELSE IF n = 2 THEN S2 ELSE IF n = 3 THEN S3 ELSE IF n = 4 THEN S4 ELSE S5]
           Recursion(f) == f = [n \in 1 .. 5 |-> IF n = 1 THEN G(1) ELSE f[n - 1] \o <<Guids!Dash>> \o G(n)]
           f_ == CHOOSE f : Recursion(f)
<1>1. Guids!LayoutText(g) = f_[5]
  <2>1. Len(Guids!Groups) = 5
    BY DEF Guids!Groups
  <2>2. Guids!LayoutText(g) =
          (CHOOSE f : f = [n \in 1 .. Len(Guids!Groups) |->
             IF n = 1 THEN G(1) ELSE f[n - 1] \o <<Guids!Dash>> \o G(n)])[Len(Guids!Groups)]
    BY Zenon DEF Guids!LayoutText
  <2> HIDE DEF G
  <2> QED BY <2>1, <2>2, Zenon
<1>2. WritesFrom(G(1), g, 0, 8) /\ WritesFrom(G(2), g, 9, 4) /\ WritesFrom(G(3), g, 14, 4)
      /\ WritesFrom(G(4), g, 19, 4) /\ WritesFrom(G(5), g, 24, 12)
  BY GroupsWrite
<1> HIDE DEF G
<1>3. Recursion(h)
  <2>1. ASSUME NEW n \in 1 .. 5
        PROVE  h[n] = IF n = 1 THEN G(1) ELSE h[n - 1] \o <<Guids!Dash>> \o G(n)
    <3>1. n = 1 \/ n = 2 \/ n = 3 \/ n = 4 \/ n = 5
      OBVIOUS
    <3>2. n # 1 => n - 1 \in 1 .. 5
      OBVIOUS
    <3> HIDE DEF S1, S2, S3, S4, S5
    <3>3. \A k \in 1 .. 5 : h[k] =
            IF k = 1 THEN S1 ELSE IF k = 2 THEN S2 ELSE IF k = 3 THEN S3 ELSE IF k = 4 THEN S4 ELSE S5
      OBVIOUS
    <3> HIDE DEF h
    <3>4. /\ S1 = G(1) /\ S2 = S1 \o <<Guids!Dash>> \o G(2) /\ S3 = S2 \o <<Guids!Dash>> \o G(3)
          /\ S4 = S3 \o <<Guids!Dash>> \o G(4) /\ S5 = S4 \o <<Guids!Dash>> \o G(5)
      BY DEF S1, S2, S3, S4, S5
    <3>5. CASE n = 1
      BY <3>3, <3>4, <3>5
    <3>6. CASE n = 2
      <4>1. h[n] = S2 /\ h[n - 1] = S1
        BY <3>2, <3>3, <3>6
      <4> QED BY <3>4, <3>6, <4>1
    <3>7. CASE n = 3
      <4>1. h[n] = S3 /\ h[n - 1] = S2
        BY <3>2, <3>3, <3>7
      <4> QED BY <3>4, <3>7, <4>1
    <3>8. CASE n = 4
      <4>1. h[n] = S4 /\ h[n - 1] = S3
        BY <3>2, <3>3, <3>8
      <4> QED BY <3>4, <3>8, <4>1
    <3>9. CASE n = 5
      <4>1. h[n] = S5 /\ h[n - 1] = S4
        BY <3>2, <3>3, <3>9
      <4> QED BY <3>4, <3>9, <4>1
    <3> QED BY <3>1, <3>5, <3>6, <3>7, <3>8, <3>9
  <2>2. h = [n \in 1 .. 5 |-> h[n]]
    OBVIOUS
  <2> HIDE DEF h
  <2> QED BY <2>1, <2>2, Zenon
<1>4. Recursion(f_)
  <2> HIDE DEF Recursion, h
  <2>1. \E f : Recursion(f)
    BY <1>3
  <2> QED BY <2>1 DEF f_
<1> HIDE DEF f_
<1>5. f_[1] = G(1)
  <2>1. 1 \in 1 .. 5
    OBVIOUS
  <2> QED BY <1>4, <2>1
<1>6. ASSUME NEW n \in 2 .. 5 PROVE f_[n] = f_[n - 1] \o <<Guids!Dash>> \o G(n)
  <2>1. n \in 1 .. 5 /\ n # 1
    OBVIOUS
  <2> QED BY <1>4, <2>1, Zenon
<1> HIDE DEF Recursion, h
<1>7. ASSUME NEW n \in 2 .. 5, NEW end \in Nat, NEW more \in Nat, Place(end) = -1,
             WritesFrom(f_[n - 1], g, 0, end), WritesFrom(G(n), g, end + 1, more)
      PROVE  WritesFrom(f_[n], g, 0, end + 1 + more)
  <2>1. WritesFrom(<<Guids!Dash>>, g, end, 1)
    BY <1>7, DashWrites
  <2>2. WritesFrom(f_[n - 1] \o <<Guids!Dash>>, g, 0, end + 1)
    <3>1. 1 \in Nat
      OBVIOUS
    <3> QED BY <1>7, <2>1, <3>1, WritesMore
  <2>3. WritesFrom((f_[n - 1] \o <<Guids!Dash>>) \o G(n), g, 0, end + 1 + more)
    <3>1. end + 1 \in Nat
      OBVIOUS
    <3> QED BY <1>7, <2>2, <3>1, WritesMore
  <2> QED BY <1>6, <2>3, Zenon
<1>8. Place(8) = -1 /\ Place(13) = -1 /\ Place(18) = -1 /\ Place(23) = -1
  BY DEF Place, Guids!shifts
<1>9. WritesFrom(f_[5], g, 0, 36)
  <2>1. /\ 8 \in Nat /\ 13 \in Nat /\ 18 \in Nat /\ 23 \in Nat /\ 4 \in Nat /\ 12 \in Nat
        /\ 8 + 1 = 9 /\ 9 + 4 = 13 /\ 13 + 1 = 14 /\ 14 + 4 = 18 /\ 18 + 1 = 19 /\ 19 + 4 = 23
        /\ 23 + 1 = 24 /\ 24 + 12 = 36
        /\ 2 \in 2 .. 5 /\ 3 \in 2 .. 5 /\ 4 \in 2 .. 5 /\ 5 \in 2 .. 5
        /\ 2 - 1 = 1 /\ 3 - 1 = 2 /\ 4 - 1 = 3 /\ 5 - 1 = 4
    OBVIOUS
  <2>2. WritesFrom(f_[2], g, 0, 13)
    <3>1. WritesFrom(f_[2], g, 0, 8 + 1 + 4)
      BY <1>2, <1>5, <1>7, <1>8, <2>1
    <3> QED BY <2>1, <3>1
  <2>3. WritesFrom(f_[3], g, 0, 18)
    <3>1. WritesFrom(f_[3], g, 0, 13 + 1 + 4)
      BY <1>2, <1>7, <1>8, <2>1, <2>2
    <3> QED BY <2>1, <3>1
  <2>4. WritesFrom(f_[4], g, 0, 23)
    <3>1. WritesFrom(f_[4], g, 0, 18 + 1 + 4)
      BY <1>2, <1>7, <1>8, <2>1, <2>3
    <3> QED BY <2>1, <3>1
  <2>5. WritesFrom(f_[5], g, 0, 23 + 1 + 12)
    BY <1>2, <1>7, <1>8, <2>1, <2>4
  <2> QED BY <2>1, <2>5
<1> DEFINE laid == Guids!LayoutText(g)
           written == Guids!ToCharArray(g)
<1>10. WritesFrom(laid, g, 0, 36)
  BY <1>1, <1>9
<1>11. written = [n \in 1 .. 36 |-> Guids!GetChar(g, n - 1)]
  BY DEF Guids!ToCharArray, Guids!usualStringLength
<1> HIDE DEF laid, written
<1>12. \A n \in 1 .. 36 : n - 1 \in 0 .. 35 /\ 0 + n - 1 = n - 1
  OBVIOUS
<1>13. \A n \in 1 .. 36 : written[n] = WrittenAt(g, n - 1)
  BY <1>11, <1>12, CharIs
<1>14. \A n \in 1 .. 36 : laid[n] = WrittenAt(g, n - 1)
  BY <1>10, <1>12, Zenon DEF WritesFrom
<1>15. laid = [n \in 1 .. 36 |-> laid[n]]
  <2>1. laid \in Seq(Int) /\ Len(laid) = 36
    BY <1>10 DEF WritesFrom
  <2>2. laid = [n \in 1 .. Len(laid) |-> laid[n]]
    BY <2>1, SeqDef, LenProperties
  <2> QED BY <2>1, <2>2
<1>16. written = laid
  BY <1>11, <1>13, <1>14, <1>15
<1> QED BY <1>16 DEF written, laid

-----------------------------------------------------------------------------
(* GUID: every step.                                                       *)

\* While the text is passed on it is one of the GUID, whatever was done to it.
GuidInv ==
  component = "GUID" =>
    /\ guid \in Guids!GUIDs /\ Guids!Restored
    /\ stage \in {"unwritten", "written", "returned", "threw", "read past the end"}
    /\ (stage = "written" => TextOf(text, guid))

\* A step of the GUID changes nothing but it.
LEMMA GuidsStep ==
  [Next]_vars => component' = component /\ [component = "GUID" /\ Guids!Next]_guids
BY DEF Next, SortStep, NumbersStep, GeometryStep, vars, numbers

\* What is done to the text leaves it one of the GUID.
LEMMA TextsStayTexts ==
  ASSUME NEW g \in AllGuids, NEW str, TextOf(str, g)
  PROVE  /\ TextOf([n \in DOMAIN str |-> Guids!ToLower(str[n])], g)
         /\ TextOf([n \in DOMAIN str |-> Guids!ToUpper(str[n])], g)
         /\ Len(str) = 36 /\ str[1] # Guids!Braces[1] =>
              TextOf(<<Guids!Braces[1]>> \o str \o <<Guids!Braces[2]>>, g)
         /\ \A length \in Nat : length < Len(str) => TextOf(SubSeq(str, 1, length), g)
<1>1. TextOf([n \in DOMAIN str |-> Guids!ToLower(str[n])], g)
  <2> DEFINE new == [n \in DOMAIN str |-> Guids!ToLower(str[n])]
  <2>1. new = [n \in DOMAIN str |-> new[n]] /\ \A n \in DOMAIN str : new[n] = Guids!ToLower(str[n])
    BY Zenon
  <2> HIDE DEF new
  <2>2. TextOf(new, g)
    BY <2>1, RecasedText, Zenon
  <2> QED BY <2>2 DEF new
<1>2. TextOf([n \in DOMAIN str |-> Guids!ToUpper(str[n])], g)
  <2> DEFINE new == [n \in DOMAIN str |-> Guids!ToUpper(str[n])]
  <2>1. new = [n \in DOMAIN str |-> new[n]] /\ \A n \in DOMAIN str : new[n] = Guids!ToUpper(str[n])
    BY Zenon
  <2> HIDE DEF new
  <2>2. TextOf(new, g)
    BY <2>1, RecasedText, Zenon
  <2> QED BY <2>2 DEF new
<1>3. ASSUME Len(str) = 36, str[1] # Guids!Braces[1]
      PROVE  TextOf(<<Guids!Braces[1]>> \o str \o <<Guids!Braces[2]>>, g)
  <2>1. str \in Seq(Int) /\ WholeText(str, g)
    <3>1. 36 >= 1 /\ Guids!Braces[1] = 123
      BY DEF Guids!Braces
    <3> QED BY <1>3, <3>1 DEF TextOf, InBraces, WholeText
  <2> QED BY <2>1, BracedText, Zenon DEF TextOf
<1> QED BY <1>1, <1>2, <1>3, CutText

\* What comes of Create, however it ends.
LEMMA CreateRestores ==
  ASSUME GuidInv, component = "GUID", Guids!Create
  PROVE  /\ guid' = guid /\ Guids!Restored'
         /\ stage' \in {"returned", "threw", "read past the end"}
<1>1. stage = "written" /\ guid \in Guids!GUIDs /\ parsed = guid /\ TextOf(text, guid)
  BY DEF GuidInv, Guids!Create, Guids!Returns, Guids!Ends, Guids!Restored
<1>2. guid \in AllGuids
  BY <1>1, SampledGuids
<1>3. text \in Seq(Int) /\ Len(text) \in Nat /\ Guids!Braces[1] = 123
  BY <1>1, LenProperties DEF TextOf, Guids!Braces
<1> USE DEF Guids!usualStringLength, Guids!stringLengthWithBracers
<1>4. CASE Len(text) = 36
  <2>1. Guids!Returns(text)
    BY <1>4 DEF Guids!Create
  <2>2. parsed' = Guids!Parse(text) /\ stage' = "returned" /\ guid' = guid /\ text' = text
    BY <2>1 DEF Guids!Returns
  <2>3. CASE Bare(text, guid)
    <3>1. Guids!Parse(text) = guid /\ text[1] # 123
      BY <1>2, <1>4, <2>3, WholeIsParsed DEF WholeText
    <3> QED BY <1>3, <1>4, <2>2, <3>1 DEF Guids!Restored, Guids!HasEveryDigit
  <2>4. CASE InBraces(text, guid)
    <3>1. Guids!Parse(text) # guid
      BY <1>1, <1>2, <1>4, <2>4, BracedReadsOtherwise
    <3>2. text[1] = 123
      <4>1. 36 >= 1
        OBVIOUS
      <4> QED BY <1>4, <2>4, <4>1 DEF InBraces
    <3>3. ~Guids!HasEveryDigit'
      <4>1. ~(36 > 36)
        OBVIOUS
      <4> QED BY <1>3, <1>4, <2>2, <3>2, <4>1, Zenon DEF Guids!HasEveryDigit
    <3> QED BY <2>2, <3>1, <3>3 DEF Guids!Restored
  <2> QED BY <1>1, <2>2, <2>3, <2>4 DEF TextOf
<1>5. CASE Len(text) > 36
  <2>1. Len(text) # 36 /\ Len(text) # 0 /\ Len(text) \notin 1 .. 36
    <3>1. \A length \in Nat : length > 36 => length # 36 /\ length # 0 /\ length \notin 1 .. 36
      OBVIOUS
    <3> QED BY <1>3, <1>5, <3>1, Zenon
  <2> DEFINE view == SubSeq(text, 2, Guids!stringLengthWithBracers - 1)
  <2>2. Guids!Returns(view)
    <3>1. Guids!Create <=>
            IF Len(text) = 36 THEN Guids!Returns(text)
            ELSE \/ Len(text) > 36 /\ Guids!Returns(view)
                 \/ Len(text) = 0 /\ Guids!Ends("threw")
                 \/ Len(text) \in 1 .. 36 /\ Guids!Ends("read past the end")
      BY Zenon DEF Guids!Create
    <3> HIDE DEF view
    <3> QED BY <2>1, <3>1, Zenon
  <2>3. view = SubSeq(text, 2, 37)
    OBVIOUS
  <2> HIDE DEF view
  <2>4. parsed' = Guids!Parse(SubSeq(text, 2, 37)) /\ stage' = "returned" /\ guid' = guid /\ text' = text
    BY <2>2, <2>3 DEF Guids!Returns
  <2>5. InBraces(text, guid)
    <3>1. ~(Len(text) <= 36)
      BY <1>3, <1>5
    <3> QED BY <1>1, <3>1 DEF TextOf, Bare
  <2>6. Guids!Parse(SubSeq(text, 2, 37)) = guid
    BY <1>2, <1>3, <1>5, <2>5, ViewIsParsed
  <2> QED BY <1>5, <2>4, <2>6 DEF Guids!Restored, Guids!HasEveryDigit
<1>6. CASE Len(text) < 36
  <2>1. Len(text) # 36 /\ ~(Len(text) > 36)
    <3>1. \A length \in Nat : length < 36 => length # 36 /\ ~(length > 36)
      OBVIOUS
    <3> QED BY <1>3, <1>6, <3>1, Zenon
  <2>2. Guids!Ends("threw") \/ Guids!Ends("read past the end")
    BY <2>1 DEF Guids!Create
  <2>3. stage' \in {"threw", "read past the end"} /\ guid' = guid /\ text' = text
    BY <2>2 DEF Guids!Ends
  <2> QED BY <2>1, <2>3 DEF Guids!Restored, Guids!HasEveryDigit
<1>7. Len(text) = 36 \/ Len(text) > 36 \/ Len(text) < 36
  <2>1. \A length \in Nat : length = 36 \/ length > 36 \/ length < 36
    OBVIOUS
  <2> QED BY <1>3, <2>1, Zenon
<1> QED BY <1>4, <1>5, <1>6, <1>7, Zenon

\* Each action leaves the GUID the one it was; until Create it is what was parsed.
LEMMA GuidKeeps ==
  ASSUME GuidInv, component = "GUID", component' = component, Guids!Next
  PROVE  GuidInv' /\ (Guids!Format => text' = Guids!LayoutText(guid))
<1>1. guid \in Guids!GUIDs /\ guid \in AllGuids
  BY SampledGuids DEF GuidInv
<1>2. CASE Guids!Format
  <2>1. text' = Guids!ToCharArray(guid) /\ stage' = "written" /\ guid' = guid /\ parsed' = parsed /\ stage = "unwritten"
    BY <1>2 DEF Guids!Format
  <2>2. TextOf(text', guid')
    BY <1>1, <2>1, WrittenText DEF TextOf
  <2>3. parsed = guid
    BY <2>1 DEF GuidInv, Guids!Restored
  <2>4. text' = Guids!LayoutText(guid)
    BY <1>1, <2>1, LaidOutAsWritten
  <2> QED BY <1>1, <2>1, <2>2, <2>3, <2>4 DEF GuidInv, Guids!Restored
<1>3. ASSUME NEW new, Guids!Rewrite(new), TextOf(text, guid) => TextOf(new, guid)
      PROVE  GuidInv'
  <2>1. stage = "written" /\ text' = new /\ guid' = guid /\ parsed' = parsed /\ stage' = stage
    BY <1>3 DEF Guids!Rewrite
  <2>2. TextOf(new, guid) /\ parsed = guid
    BY <1>3, <2>1 DEF GuidInv, Guids!Restored
  <2> QED BY <1>1, <2>1, <2>2 DEF GuidInv, Guids!Restored
<1>4. CASE Guids!Rewrite([n \in DOMAIN text |-> Guids!ToLower(text[n])])
  BY <1>1, <1>3, <1>4, TextsStayTexts, Zenon DEF Guids!Rewrite, Guids!Format
<1>5. CASE Guids!Rewrite([n \in DOMAIN text |-> Guids!ToUpper(text[n])])
  BY <1>1, <1>3, <1>5, TextsStayTexts, Zenon DEF Guids!Rewrite, Guids!Format
<1>6. CASE Guids!Brace
  <2>1. /\ Guids!Rewrite(<<Guids!Braces[1]>> \o text \o <<Guids!Braces[2]>>)
        /\ Len(text) = 36 /\ text[1] # Guids!Braces[1]
    BY <1>6 DEF Guids!Brace, Guids!usualStringLength
  <2> QED BY <1>1, <1>3, <2>1, TextsStayTexts, Zenon DEF Guids!Rewrite, Guids!Format
<1>7. ASSUME NEW length \in Lengths, Guids!Cut(length)
      PROVE  GuidInv' /\ ~Guids!Format
  <2>1. length \in Nat
    BY ValuesAssumption DEF Guids!GuidAssumption
  <2>2. Guids!Rewrite(SubSeq(text, 1, length)) /\ length < Len(text)
    BY <1>7 DEF Guids!Cut
  <2> QED BY <1>1, <1>3, <2>1, <2>2, TextsStayTexts, Zenon DEF Guids!Rewrite, Guids!Format
<1>8. CASE Guids!Create
  <2>1. guid' = guid /\ Guids!Restored' /\ stage' \in {"returned", "threw", "read past the end"}
    BY <1>8, CreateRestores
  <2> QED BY <1>1, <2>1 DEF GuidInv, Guids!Format
<1> QED BY <1>2, <1>4, <1>5, <1>6, <1>7, <1>8 DEF Guids!Next

\* The invariant of the GUID.
LEMMA GuidInvHolds == Spec => []GuidInv
<1>1. Init => GuidInv
  BY DEF Init, Guids!Init, GuidInv, Guids!Restored
<1>2. GuidInv /\ [Next]_vars => GuidInv'
  <2> SUFFICES ASSUME GuidInv, [Next]_vars PROVE GuidInv'
    OBVIOUS
  <2>1. component' = component /\ [component = "GUID" /\ Guids!Next]_guids
    BY GuidsStep
  <2>2. CASE component = "GUID" /\ Guids!Next
    BY <2>1, <2>2, GuidKeeps
  <2>3. CASE UNCHANGED guids
    BY <2>1, <2>3 DEF GuidInv, guids, Guids!Restored, Guids!HasEveryDigit
  <2> QED BY <2>1, <2>2, <2>3
<1> QED BY <1>1, <1>2, PTL DEF Spec

\* Formatting and parsing are inverse of every sampled GUID, in either case and spelling,
\* of every text that kept all its digits and of no other, and what was written has the
\* usual layout.
THEOREM GuidsAreRestored == Spec => RoundTrip
<1>1. GuidInv /\ [Next]_vars => [Guids!Restored' /\ (Guids!Format => text' = Guids!LayoutText(guid))]_guids
  <2> SUFFICES ASSUME GuidInv, [Next]_vars, ~UNCHANGED guids
               PROVE  Guids!Restored' /\ (Guids!Format => text' = Guids!LayoutText(guid))
    OBVIOUS
  <2>1. component' = component /\ component = "GUID" /\ Guids!Next
    BY GuidsStep
  <2> QED BY <2>1, GuidKeeps DEF GuidInv
<1>2. Spec => [][Guids!Restored' /\ (Guids!Format => text' = Guids!LayoutText(guid))]_guids
  BY <1>1, GuidInvHolds, PTL DEF Spec
<1> QED BY <1>2 DEF RoundTrip, Guids!RoundTrip, guids, Guids!vars

\* Formatting and parsing are inverse for every one of the GUIDs there are, whatever the
\* case of each character, and in braces: the tables of ToCharArray and of Parse agree.
THEOREM EveryGuidIsRestored ==
  ASSUME NEW g \in AllGuids
  PROVE  LET written == Guids!ToCharArray(g)
             braced == <<Guids!Braces[1]>> \o written \o <<Guids!Braces[2]>>
         IN /\ Guids!Parse(written) = g /\ Guids!Parse(SubSeq(braced, 2, 37)) = g
            /\ \A new : /\ new = [n \in DOMAIN written |-> new[n]]
                        /\ \A n \in DOMAIN written : new[n] \in {Guids!ToLower(written[n]), Guids!ToUpper(written[n])}
                        => Guids!Parse(new) = g
<1> DEFINE written == Guids!ToCharArray(g)
           braced == <<Guids!Braces[1]>> \o written \o <<Guids!Braces[2]>>
<1>1. written \in Seq(Int) /\ Len(written) = 36 /\ WholeText(written, g)
  BY WrittenText DEF WholeText
<1> HIDE DEF written
<1>2. Guids!Parse(written) = g
  BY <1>1, WholeIsParsed
<1>3. Guids!Parse(SubSeq(braced, 2, 37)) = g
  <2>1. braced \in Seq(Int) /\ Len(braced) = 38 /\ InBraces(braced, g)
    BY <1>1, BracedText
  <2> HIDE DEF braced
  <2>2. Len(braced) \in Nat /\ Len(braced) > 36
    BY <2>1
  <2> QED BY <2>1, <2>2, ViewIsParsed, Zenon
<1>4. ASSUME NEW new, new = [n \in DOMAIN written |-> new[n]],
             \A n \in DOMAIN written : new[n] \in {Guids!ToLower(written[n]), Guids!ToUpper(written[n])}
      PROVE  Guids!Parse(new) = g
  <2>1. \A n \in DOMAIN written : new[n] = Guids!ToLower(written[n]) \/ new[n] = Guids!ToUpper(written[n])
    BY <1>4
  <2>2. SpellsAll(written, g)
    BY WrittenSpells DEF written
  <2> HIDE <1>4
  <2>3. \A spot \in 0 .. 35 : spot + 1 \in DOMAIN written
    <3>1. DOMAIN written = 1 .. 36
      BY <1>1, LenProperties
    <3>2. \A spot \in 0 .. 35 : spot + 1 \in 1 .. 36
      OBVIOUS
    <3> QED BY <3>1, <3>2, Zenon
  <2>4. SpellsAll(new, g)
    BY <2>1, <2>2, <2>3, SpelledStays DEF SpellsAll
  <2> QED BY <2>4, SpelledIsParsed
<1> QED BY <1>2, <1>3, <1>4, Zenon DEF written, braced
=============================================================================
