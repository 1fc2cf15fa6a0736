-------------------------------- MODULE Values --------------------------------
(***************************************************************************)
(* The components that compute with values: edt::GUID, edt::CheckedCast    *)
(* and ClampToAnotherTypeBounds, edt::IntRange over a narrow type and over *)
(* int, edt::FloatRange, edt::Matrix, the transforms and the points of     *)
(* edt::Math, edt::FrameRateCounter, edt::BubbleSort and                   *)
(* edt::InsertionSort.  They share no state, so a behaviour is of one of   *)
(* them, and the others rest.                                              *)
(***************************************************************************)
EXTENDS Integers

CONSTANTS
  Fills, Digits, Lengths,                     \* GUID
  Widths,                                     \* CheckedCast, ClampToAnotherTypeBounds
  BitsOfT, BitsOfInt, MaxRanges,              \* IntRange
  MaxFloat, Amounts,                          \* FloatRange
  Shapes, Modulus, Samples,                   \* Matrix
  Prime, Diagonal, Degrees, MaxDegrees,       \* the transforms
  Vectors,
  Coordinates, MaxPoints, MaxSamples,         \* the points
  MaxAsked, Undefined,
  Fps, DefaultFps, Ticks, Second, RepSize,    \* FrameRateCounter
  Keys, MaxCount                              \* the sorting functions

VARIABLES
  component,
  guid, text, parsed, stage,
  from, to, value, call, outcome, result,
  whole, pieces,
  rectangle,
  m,
  rotation, translation, scale,
  control_points, curve_points, samples,
  tick_index_, tick_sum_, ticks_, desired_fps_, desired_frame_duration_, average, fed,
  arr, i, j, returned

Guids == INSTANCE Guid
Conversions == INSTANCE IntegerConversions
NarrowRanges == INSTANCE IntRange
IntRanges == INSTANCE IntRange WITH BitsOfInt <- BitsOfT
FloatRanges == INSTANCE FloatRange
Matrices == INSTANCE Matrix
Transformations == INSTANCE Transforms WITH Modulus <- Prime
Points == INSTANCE PointSequences WITH MaxCount <- MaxAsked
FrameRates == INSTANCE FrameRateCounter
Bubble == INSTANCE BubbleSort
Insertion == INSTANCE InsertionSort

ASSUME ValuesAssumption ==
  /\ Guids!GuidAssumption
  /\ Conversions!WidthsAssumption
  /\ NarrowRanges!RangeAssumption
  /\ FloatRanges!FloatRangeAssumption
  /\ Matrices!MatrixAssumption
  /\ Transformations!TransformsAssumption
  /\ Points!PointsAssumption
  /\ FrameRates!CounterAssumption
  /\ Bubble!SortAssumption

guids == <<guid, text, parsed, stage>>
conversions == <<from, to, value, call, outcome, result>>
ranges == <<whole, pieces>>
frameRates == <<tick_index_, tick_sum_, ticks_, desired_fps_, desired_frame_duration_, average, fed>>
sorting == <<arr, i, j, returned>>
transforms == <<rotation, translation, scale>>
points == <<control_points, curve_points, samples>>
numbers == <<guids, conversions, ranges, frameRates>>
geometry == <<rectangle, m, transforms, points>>
vars == <<component, numbers, geometry, sorting>>

-----------------------------------------------------------------------------
Components ==
  {"GUID", "conversions", "IntRange", "IntRange of int", "FrameRateCounter",
   "FloatRange", "Matrix", "transforms", "points", "BubbleSort", "InsertionSort"}

\* A component at rest is in one of its initial states.
Init ==
  /\ component \in Components
  /\ FrameRates!Init /\ Transformations!Init /\ Points!Init
  /\ IF component = "GUID" THEN Guids!Init
     ELSE guid = (CHOOSE g \in Guids!GUIDs : TRUE) /\ text = <<>> /\ parsed = guid /\ stage = "unwritten"
  /\ IF component = "conversions" THEN Conversions!Init
     ELSE /\ from = (CHOOSE type \in Conversions!Types : TRUE) /\ to = from /\ value = 0
          /\ call = "none" /\ outcome = "none" /\ result = 0
  /\ IF component \in {"IntRange", "IntRange of int"} THEN NarrowRanges!Init
     ELSE whole = NarrowRanges!RangeOf(0, 0) /\ pieces = <<whole>>
  /\ IF component = "FloatRange" THEN FloatRanges!Init
     ELSE rectangle = [x |-> FloatRanges!DefaultRange, y |-> FloatRanges!DefaultRange]
  /\ IF component = "Matrix" THEN Matrices!Init
     ELSE \E shape \in {CHOOSE shape \in Shapes : TRUE} : m = Matrices!Identity(shape[1], shape[2])
  /\ CASE component = "BubbleSort" -> Bubble!Init
       [] component = "InsertionSort" -> Insertion!Init
       [] OTHER -> arr = [p \in {} |-> 0] /\ i = 0 /\ j = 0 /\ returned = FALSE

SortStep ==
  /\ UNCHANGED <<component, numbers, geometry>>
  /\ \/ component = "BubbleSort" /\ Bubble!Next
     \/ component = "InsertionSort" /\ Insertion!Next

NumbersStep ==
  /\ UNCHANGED <<component, geometry, sorting>>
  /\ \/ component = "GUID" /\ Guids!Next /\ UNCHANGED <<conversions, ranges, frameRates>>
     \/ component = "conversions" /\ Conversions!Next /\ UNCHANGED <<guids, ranges, frameRates>>
     \/ component = "IntRange" /\ NarrowRanges!Next /\ UNCHANGED <<guids, conversions, frameRates>>
     \/ component = "IntRange of int" /\ IntRanges!Next /\ UNCHANGED <<guids, conversions, frameRates>>
     \/ component = "FrameRateCounter" /\ FrameRates!Next /\ UNCHANGED <<guids, conversions, ranges>>

GeometryStep ==
  /\ UNCHANGED <<component, numbers, sorting>>
  /\ \/ component = "FloatRange" /\ FloatRanges!Next /\ UNCHANGED <<m, transforms, points>>
     \/ component = "Matrix" /\ Matrices!Next /\ UNCHANGED <<rectangle, transforms, points>>
     \/ component = "transforms" /\ Transformations!Next /\ UNCHANGED <<rectangle, m, points>>
     \/ component = "points" /\ Points!Next /\ UNCHANGED <<rectangle, m, transforms>>

Next == SortStep \/ NumbersStep \/ GeometryStep

\* The sorting functions run on their own: a step that can be taken is.
Spec == Init /\ [][Next]_vars /\ WF_vars(SortStep)

-----------------------------------------------------------------------------
\* GUID::Create reads back what ToCharArray wrote, in either case and spelling and
\* from every text that has kept all its digits, and from no other, though each of
\* the two carries a table of its own of where a nibble is; and what was written has
\* the usual layout of a GUID, stated without either table.
RoundTrip == Guids!RoundTrip

\* CheckedCast returns the value it was given or throws, and clamping returns the
\* nearest value both types have, for every pair of signs and widths.
ConversionsKeepValues == Conversions!KeepsTheValue /\ Conversions!NearestInBounds

\* However an IntRange is split, every value is in exactly one of the pieces, and
\* the extents that exist in T add up, for narrow types and for int itself; and a
\* rectangle of them contains as many points as its extents say.
SplitsPartition ==
  /\ component = "IntRange" =>
       NarrowRanges!Partition /\ NarrowRanges!ExtentsAddUp /\ NarrowRanges!Rectangles
  /\ component = "IntRange of int" =>
       IntRanges!Partition /\ IntRanges!ExtentsAddUp /\ IntRanges!Rectangles

\* A FloatRange2D that is moved, enlarged and shrunk clamps a point to the nearest
\* it contains, and maps the unit square onto itself, as long as its extent is finite.
NearestContained ==
  component = "FloatRange" => FloatRanges!NearestContained /\ FloatRanges!CornersOfUnitSquare

\* Products, transposition, slices and cross products agree with one another on
\* matrices of every shape, as do conversions, clamping and interpolation.
ProductLaws == component = "Matrix" => Matrices!ProductLaws /\ Matrices!ElementLaws

\* Operators whose operand is the matrix itself or an element of it combine with what
\* that was at the call; all but m @= m[k], which goes on with what it has made of m[k].
AliasedOperands == component = "Matrix" => Matrices!AliasedOperands

\* The matrix that Rotator writes out is the product of those about the axes, that
\* of a Transform scales, rotates and moves in this order, and complex numbers turn
\* as the matrices do, for all angles SinCos folds into its range.
TransformsCompose ==
  component = "transforms" =>
    /\ Transformations!RotatesInOrder
    /\ Transformations!ScalesRotatesMoves
    /\ Transformations!PowersRotate

\* A curve sampled into a vector that held another passes its control points and
\* nothing of the other is left; and every generator of points yields as many as
\* were asked for, a heart its top once a row and no other point twice - which depends
\* on no state, and is looked at in the first.
PointsAsAsked ==
  /\ Points!PointsAsAsked
  /\ [](component = "points" /\ control_points = <<>> /\ samples = 0 => Points!GeneratedAsAsked)

\* The average CalcAverageTick returns is that of the latest window of ticks.
AverageOfTheWindow == FrameRates!AverageOfTheWindow

\* Both sorting functions swap only neighbours that are out of order - so they are
\* stable - and return, when none are left.
SortsByAdjacentSwaps ==
  /\ Bubble!SortsByAdjacentSwaps /\ Insertion!SortsByAdjacentSwaps
  /\ component \in {"BubbleSort", "InsertionSort"} ~> returned
=============================================================================
