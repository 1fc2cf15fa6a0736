---------------------------- MODULE PointSequences ----------------------------
(***************************************************************************)
(* The functions of edt::Math (math/math.hpp) and                          *)
(* edt::SurfacePointsUtilities (math/surface_points.hpp) that generate     *)
(* points: curves through control points into a vector that is reused,     *)
(* spirals, the branches of a power, points on a sphere and on a heart.    *)
(* Coordinates are computed one like the other, so a point on a curve is   *)
(* one of them, scaled by twice the cube of the samples to be whole; any   *)
(* other point is the parameters that tell it from the others.             *)
(***************************************************************************)
EXTENDS Integers, Sequences, FiniteSets

CONSTANTS
  Coordinates,      \* of the control points
  MaxPoints,        \* bound on the number of control points
  MaxSamples,       \* bound on samples_per_segment
  MaxCount,         \* bound on the number of points asked for
  Undefined         \* NaN, which zero over zero is

PointsAssumption == Coordinates \subseteq Int /\ {MaxPoints, MaxSamples, MaxCount} \subseteq Nat

VARIABLES
  control_points,
  curve_points,     \* the vector passed by reference
  samples           \* of the curve in it

vars == <<control_points, curve_points, samples>>

-----------------------------------------------------------------------------
\* At t = j / nf, times 2 * nf ^ 3.
CatmullRom(p0, p1, p2, p3, j, nf) ==
  IF nf = 0 THEN Undefined
  ELSE 2 * p1 * nf ^ 3 + (p2 - p0) * j * nf ^ 2
         + (2 * p0 - 5 * p1 + 4 * p2 - p3) * j ^ 2 * nf + (3 * p1 - p0 - 3 * p2 + p3) * j ^ 3

\* Mutant: the vector keeps what it held.
SampleCatmullRomPoints_Appends(n) ==
  /\ samples' = n
  /\ curve_points' = curve_points \o
       [k \in 1 .. (IF Len(control_points) < 4 THEN 0 ELSE (Len(control_points) - 3) * (n + 1)) |->
          LET i == (k - 1) \div (n + 1)
          IN CatmullRom(control_points[i + 1], control_points[i + 2], control_points[i + 3],
                        control_points[i + 4], (k - 1) % (n + 1), n)]
  /\ UNCHANGED control_points

\* Segment after segment, each with both its ends.
SampleCatmullRomPoints(n) ==
  /\ samples' = n
  /\ curve_points' =
       [k \in 1 .. (IF Len(control_points) < 4 THEN 0 ELSE (Len(control_points) - 3) * (n + 1)) |->
          LET i == (k - 1) \div (n + 1)
          IN CatmullRom(control_points[i + 1], control_points[i + 2], control_points[i + 3],
                        control_points[i + 4], (k - 1) % (n + 1), n)]
  /\ UNCHANGED control_points

\* The caller has another control point.
AddControlPoint(p) ==
  /\ Len(control_points) < MaxPoints
  /\ control_points' = Append(control_points, p)
  /\ UNCHANGED <<curve_points, samples>>

Init == control_points = <<>> /\ curve_points = <<>> /\ samples = 0

Next ==
  \/ \E n \in 0 .. MaxSamples : SampleCatmullRomPoints(n)
  \/ \E p \in Coordinates : AddControlPoint(p)

Spec == Init /\ [][Next]_vars

-----------------------------------------------------------------------------
\* Radius and angle of each point: t = i / (n - 1) of the radius as a numerator -
\* of a single point 0 / 0 - and i times the nth part of two turns.
GenerateSpiralPoints(num_points) ==
  [k \in 1 .. num_points |-> [r |-> IF num_points = 1 THEN Undefined ELSE k - 1, angle |-> 2 * (k - 1)]]

\* The full turns added to the angle of the base by which ComplexPowerN calls
\* back; division truncates towards zero.
ComplexPowerN(branches) ==
  LET half == branches \div 2
  IN [k \in 1 .. 2 * (half \div 2) + 1 |-> k - 1 - half \div 2]

\* Where along the axis, in units of radius / num_points, each point of the
\* sphere is; theta is its index times the golden angle.
UniformSphereSurface(num_points) ==
  [k \in 1 .. num_points |-> [cos_phi |-> num_points - 2 * (k - 1), theta |-> k - 1]]

\* round(sqrt(n)), where a root just below a half may itself be rounded to it.
RoundedRoots(n) ==
  {s \in 0 .. n : (2 * s - 1) * (2 * s - 1) <= 4 * n /\ 4 * n < (2 * s + 1) * (2 * s + 1)}
    \cup {s \in 1 .. n : n = s * (s - 1)}

\* Where v is zero the surface is at its top whatever u is; anywhere else u and v are
\* the point's own.
Top == <<0, 0>>

HeartFunction3d(i, j) == IF j = 0 THEN Top ELSE <<i, j>>

\* Mutant: as many rows as points in each, also where the root was rounded down.
HeartSurfaceOf_Square(num_points, s) ==
  LET all == [k \in 1 .. s * s |-> HeartFunction3d((k - 1) \div s, (k - 1) % s)]
  IN SubSeq(all, 1, IF Len(all) < num_points THEN Len(all) ELSE num_points)

\* The points passed to the consumer, row by row of s: the loops end by return.
HeartSurfaceOf(num_points, s) ==
  LET max_i == IF s * s < num_points THEN s + 1 ELSE s
      all == [k \in 1 .. max_i * s |-> HeartFunction3d((k - 1) \div s, (k - 1) % s)]
  IN SubSeq(all, 1, IF Len(all) < num_points THEN Len(all) ELSE num_points)

HeartSurface(num_points) ==
  IF num_points = 0 THEN {<<>>} ELSE {HeartSurfaceOf(num_points, s) : s \in RoundedRoots(num_points)}

-----------------------------------------------------------------------------
\* Of a curve: each segment begins at its second control point and ends at its third, where
\* the next begins; points on a line give points on it; nothing of an earlier
\* curve remains, and the curve of fewer than four points is empty.
PassesControlPoints(points, curve, n) ==
  LET Start(k) == (k - 1) * (n + 1) + 1
      segments == IF Len(points) < 4 THEN 0 ELSE Len(points) - 3
      Step(k) == points[k + 1] - points[k]
  IN /\ Len(curve) = segments * (n + 1)
     /\ n = 0 => \A k \in DOMAIN curve : curve[k] = Undefined
     /\ n > 0 => \A k \in 1 .. segments :
          /\ curve[Start(k)] = 2 * n ^ 3 * points[k + 1]
          /\ curve[Start(k) + n] = 2 * n ^ 3 * points[k + 2]
          /\ k > 1 => curve[Start(k)] = curve[Start(k) - 1]
          /\ Step(k) = Step(k + 1) /\ Step(k) = Step(k + 2) =>
               \A j \in 0 .. n - 1 :
                 curve[Start(k) + j + 1] - curve[Start(k) + j] = 2 * n ^ 2 * Step(k)

\* A vector that held another curve, or another number of samples, is a curve
\* through the control points once it has been sampled.
PointsAsAsked ==
  [][UNCHANGED control_points => PassesControlPoints(control_points, curve_points', samples')]_vars

Distinct(sequence) == \A i, j \in DOMAIN sequence : i # j => sequence[i] # sequence[j]

\* As many points as were asked for. On a heart, whichever way the root was rounded,
\* no two are the same but for the top, which every row of about a root of them
\* begins with; on a sphere all are at different heights, the last as far above the
\* bottom as the spacing; a spiral goes outwards through two turns, but not one of
\* one point. A power has an odd number of branches, half of those asked for or one
\* more or less, each of other turns, as many on either side of the principal one.
GeneratedAsAsked ==
  \A n \in 0 .. MaxCount :
    /\ \A heart \in HeartSurface(n) :
         LET tops == {k \in DOMAIN heart : heart[k] = Top} IN
         /\ Len(heart) = n
         /\ \A k, l \in DOMAIN heart : k # l /\ heart[k] = heart[l] => {k, l} \subseteq tops
         /\ n > 0 => 1 \in tops /\ (Cardinality(tops) - 1) ^ 2 < n
    /\ LET sphere == UniformSphereSurface(n) IN
         /\ Len(sphere) = n
         /\ \A k \in DOMAIN sphere : -n < sphere[k].cos_phi /\ sphere[k].cos_phi <= n
         /\ Distinct([k \in DOMAIN sphere |-> sphere[k].cos_phi])
         /\ n > 0 => sphere[n].cos_phi = 2 - n
    /\ LET spiral == GenerateSpiralPoints(n) IN
         IF n = 1 THEN spiral[1].r = Undefined
         ELSE /\ Len(spiral) = n
              /\ \A k \in DOMAIN spiral : spiral[k].r \in 0 .. n - 1 /\ spiral[k].angle \in 0 .. 2 * n - 1
              /\ n > 0 => spiral[1].r = 0 /\ spiral[n].r = n - 1
    /\ LET turns == ComplexPowerN(n) IN
         /\ Len(turns) % 2 = 1 /\ Len(turns) \in n \div 2 - 1 .. n \div 2 + 1
         /\ Distinct(turns)
         /\ \A k \in DOMAIN turns : turns[Len(turns) + 1 - k] = -turns[k]
=============================================================================
