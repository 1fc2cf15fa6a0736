------------------------------ MODULE Transforms ------------------------------
(***************************************************************************)
(* Translations, rotations and scales: SinCos and the matrices of          *)
(* edt::Math (math/math.hpp), edt::Rotator (math/rotator.hpp) and          *)
(* edt::Transform (math/transform.hpp).  Numbers are residues modulo a     *)
(* prime by which one over the square root of two exists, so that what     *)
(* holds of the sines and cosines of multiples of 45 degrees is exact, and *)
(* rounding is left out.                                                   *)
(***************************************************************************)
EXTENDS Integers, Sequences

CONSTANTS
  Modulus, Diagonal,     \* the prime, and a number that squared is one half of 1
  Degrees, MaxDegrees,   \* by which rotations change, and the bound on their angles
  Vectors                \* sequences of three numbers: translations, scales, points

TransformsAssumption ==
  /\ Modulus \in Nat \ {0, 1} /\ Diagonal \in 0 .. Modulus - 1
  /\ (2 * Diagonal * Diagonal) % Modulus = 1
  /\ Vectors \subseteq [1 .. 3 -> 0 .. Modulus - 1]
  /\ \A degrees \in Degrees \cup {MaxDegrees} : degrees % 45 = 0

VARIABLES
  rotation,               \* a Rotator, in degrees
  translation, scale      \* as the other members of a Transform

vars == <<rotation, translation, scale>>

M == INSTANCE Matrix WITH Shapes <- {}, Samples <- {}, m <- <<>>

-----------------------------------------------------------------------------
(* Angles are whole multiples of 45 degrees, four of them to PI.           *)

PI == 4

DegToRad(degrees) == (degrees * PI) \div 180
RadToDeg(radians) == (180 * radians) \div PI

Rounded(angle) == (angle + PI) \div (2 * PI)

\* The minimax polynomials, which are sine and cosine from -PI / 2 to PI / 2.
Sine == [y \in -2 .. 2 |-> IF y \in {-1, 1} THEN y * Diagonal ELSE y \div 2]
Cosine == [y \in -2 .. 2 |-> IF y \in {-1, 1} THEN Diagonal ELSE IF y = 0 THEN 1 ELSE 0]

\* The nearest multiple of a full turn is taken off - found by truncation, so half
\* turns are rounded away from zero - and what remains is folded into the right
\* half of the circle, where the polynomials hold.
SinCos(angle) ==
  LET quotient == IF angle >= 0 THEN Rounded(angle) ELSE -Rounded(-angle)
      y == angle - 2 * PI * quotient
      folded == IF 2 * y > PI THEN PI - y ELSE IF 2 * y < -PI THEN -PI - y ELSE y
      sign == IF folded = y THEN 1 ELSE -1
  IN [sin |-> Sine[folded] % Modulus, cos |-> (sign * Cosine[folded]) % Modulus]

-----------------------------------------------------------------------------
(* Matrices, in two dimensions and in three.                               *)

Minus(x) == (-x) % Modulus

Rows(rows) ==
  LET n == Len(rows)
  IN M!Tabulate(n, n, [p \in M!Cells(n, n) |-> rows[p[1] + 1][p[2] + 1]])

TranslationMatrix(v) ==
  M!SetColumn(M!Identity(v.rows + 1, v.rows + 1), v.rows, M!Extended(v, 1).data_)

ScaleMatrix(v) ==
  M!Put(M!Identity(v.rows + 1, v.rows + 1),
        [place \in {<<k, k>> : k \in 0 .. v.rows - 1} |-> v.data_[place[1]]])

RotationMatrix2d(angle) ==
  LET s == SinCos(angle).sin c == SinCos(angle).cos
  IN Rows(<< <<c, Minus(s), 0>>, <<s, c, 0>>, <<0, 0, 1>> >>)

RotationMatrix3dX(angle) ==
  LET s == SinCos(angle).sin c == SinCos(angle).cos
  IN Rows(<< <<1, 0, 0, 0>>, <<0, c, Minus(s), 0>>, <<0, s, c, 0>>, <<0, 0, 0, 1>> >>)

RotationMatrix3dY(angle) ==
  LET s == SinCos(angle).sin c == SinCos(angle).cos
  IN Rows(<< <<c, 0, s, 0>>, <<0, 1, 0, 0>>, <<Minus(s), 0, c, 0>>, <<0, 0, 0, 1>> >>)

RotationMatrix3dZ(angle) ==
  LET s == SinCos(angle).sin c == SinCos(angle).cos
  IN Rows(<< <<c, Minus(s), 0, 0>>, <<s, c, 0, 0>>, <<0, 0, 1, 0>>, <<0, 0, 0, 1>> >>)

\* Positions and vectors differ in their last coordinate, which the result loses.
TransformPos(mat, v) == M!Sub(M!MatMul(mat, M!Extended(v, 1)), v.rows, 1)
TransformVector(mat, v) == M!Sub(M!MatMul(mat, M!Extended(v, 0)), v.rows, 1)

ToBasisVectors(mat) == [k \in {0, 1, 2} |-> TransformVector(mat, M!Axis(3, k))]

\* Math::MatMul of three.
MatMul3(a, b, c) == M!MatMul(M!MatMul(a, b), c)

-----------------------------------------------------------------------------
(* Complex numbers, as pairs, of length one or zero, of which powers with  *)
(* a whole exponent have lengths that are residues too.                    *)

Direction(angle) == <<SinCos(angle).cos, SinCos(angle).sin>>      \* ComplexExp of 0 + angle i
Argument(z) == CHOOSE angle \in 1 - PI .. PI : z = Direction(angle)     \* std::atan2

ComplexMult(a, b) ==
  <<(a[1] * b[1] - a[2] * b[2]) % Modulus, (a[1] * b[2] + a[2] * b[1]) % Modulus>>

\* std::nullopt is {}.
ComplexPower(z, a) ==
  IF z = <<0, 0>> THEN (IF a > 0 THEN {<<0, 0>>} ELSE {}) ELSE {Direction(a * Argument(z))}

\* The overload for a complex power, here a whole one: the exponent is the power
\* times the logarithm.  That of zero is infinite, and zero times it is NaN, {}.
ComplexPowerByLogarithm(base, power) ==
  IF base = <<0, 0>> THEN {}
  ELSE LET exponent == <<0, power * Argument(base)>> IN {Direction(exponent[2])}

-----------------------------------------------------------------------------
(* Rotator and Transform                                                   *)

ToMatrix(r) ==
  LET a == SinCos(DegToRad(r.roll)) b == SinCos(DegToRad(r.pitch)) g == SinCos(DegToRad(r.yaw))
      sa == a.sin ca == a.cos sb == b.sin cb == b.cos sg == g.sin cg == g.cos
      Row(x, y, z, w) == <<x % Modulus, y % Modulus, z % Modulus, w>>
  IN Rows(<< Row(cb * cg, sa * sb * cg - ca * sg, ca * sb * cg + sa * sg, 0),
             Row(cb * sg, sa * sb * sg + ca * cg, ca * sb * sg - sa * cg, 0),
             Row(-sb, sa * cb, ca * cb, 0),
             Row(0, 0, 0, 1) >>)

\* Mutant: the scale is applied after the rotation.
MatrixOf_ScalesLast(t, r, s) == M!MatMul(TranslationMatrix(t), M!MatMul(ScaleMatrix(s), ToMatrix(r)))

MatrixOf(t, r, s) == M!MatMul(TranslationMatrix(t), M!MatMul(ToMatrix(r), ScaleMatrix(s)))

Angles == {"yaw", "pitch", "roll"}

Init ==
  /\ rotation = [angle \in Angles |-> 0]
  /\ translation = M!Vector(<<0, 0, 0>>) /\ scale = M!Vector(<<1, 1, 1>>)

\* OpFloat and OpRotator: every angle is combined alike.
Rotate(f) ==
  /\ \A angle \in Angles : f[angle] \in -MaxDegrees .. MaxDegrees /\ f[angle] % 45 = 0
  /\ rotation' = f
  /\ UNCHANGED <<translation, scale>>

MultiplyBy(x) == Rotate([angle \in Angles |-> x * rotation[angle]])

DivideBy(x) ==
  /\ \A angle \in Angles : rotation[angle] % (45 * x) = 0
  /\ Rotate([angle \in Angles |-> rotation[angle] \div x])

AddFloat(x) == Rotate([angle \in Angles |-> rotation[angle] + x])
SubtractFloat(x) == Rotate([angle \in Angles |-> rotation[angle] - x])
AddRotator(rhs) == Rotate([angle \in Angles |-> rotation[angle] + rhs[angle]])
SubtractRotator(rhs) == Rotate([angle \in Angles |-> rotation[angle] - rhs[angle]])

\* The members are public.
Place(t, s) == translation' = M!Vector(t) /\ scale' = M!Vector(s) /\ UNCHANGED rotation

Next ==
  \/ \E x \in {-1, 2, 3} : MultiplyBy(x)
  \/ DivideBy(2)
  \/ \E x \in Degrees : AddFloat(x) \/ SubtractFloat(x)
  \/ \E angle \in Angles, x \in Degrees :
       LET rhs == [a \in Angles |-> IF a = angle THEN x ELSE 0]
       IN AddRotator(rhs) \/ SubtractRotator(rhs)
  \/ \E t, s \in Vectors : Place(t, s)

Spec == Init /\ [][Next]_vars

-----------------------------------------------------------------------------
\* The matrix of a rotator, written out in ToMatrix, is the product of the three
\* about the axes; it turns the axes into a right-handed basis and keeps lengths,
\* and an angle more or less by a full turn makes no difference.
RotatesInOrder ==
  LET yaw == DegToRad(rotation.yaw) mat == ToMatrix(rotation) basis == ToBasisVectors(mat) IN
  /\ mat = MatMul3(RotationMatrix3dZ(yaw), RotationMatrix3dY(DegToRad(rotation.pitch)),
                   RotationMatrix3dX(DegToRad(rotation.roll)))
  /\ M!MatMul(mat, M!Transposed(mat)) = M!Identity(4, 4)
  /\ M!Cross(basis[0], basis[1]) = basis[2]
  /\ \A angle \in Angles, turn \in {-360, 360} : ToMatrix([rotation EXCEPT ![angle] = @ + turn]) = mat
  /\ \A angle \in 0 .. 2 * PI :
       /\ RotationMatrix3dZ(yaw + angle) = M!MatMul(RotationMatrix3dZ(yaw), RotationMatrix3dZ(angle))
       /\ RotationMatrix2d(yaw - angle)
            = M!MatMul(RotationMatrix2d(yaw), M!Transposed(RotationMatrix2d(angle)))
  /\ RadToDeg(yaw) = rotation.yaw

\* A point is scaled, then rotated, then moved; a vector is not moved; and points
\* between two of them stay between, in the plane too.
ScalesRotatesMoves ==
  LET mat == MatrixOf(translation, rotation, scale)
      t == SubSeq(M!Tuple(translation), 1, 2) s == SubSeq(M!Tuple(scale), 1, 2)
      inPlane == MatMul3(TranslationMatrix(M!Vector(t)), RotationMatrix2d(DegToRad(rotation.yaw)),
                         ScaleMatrix(M!Vector(s)))
      Scaled(v) == [v EXCEPT !.data_ = [i \in DOMAIN @ |-> (@[i] * scale.data_[i]) % Modulus]]
      Moved(v) == [v EXCEPT !.data_ = [i \in DOMAIN @ |-> (@[i] + translation.data_[i]) % Modulus]]
      Turned(v) == TransformVector(ToMatrix(rotation), v)
  IN \A p \in Vectors :
       LET v == M!Vector(p) flat == M!Vector(<<p[1], p[2]>>) IN
       /\ TransformVector(mat, v) = Turned(Scaled(v))
       /\ TransformPos(mat, v) = Moved(Turned(Scaled(v)))
       /\ TransformPos(inPlane, flat)
            = Moved(TransformVector(RotationMatrix2d(DegToRad(rotation.yaw)), Scaled(flat)))
       /\ \A q \in Vectors, k \in {0, 1, 2} :
            TransformPos(mat, M!Lerp(v, M!Vector(q), k))
              = M!Lerp(TransformPos(mat, v), TransformPos(mat, M!Vector(q)), k)

\* Multiplication by a number of length one is the rotation by its angle, and
\* powers are repeated multiplications whichever overload computes them - but for
\* those of zero, which exist in one of them only, with a positive exponent.
PowersRotate ==
  LET z == Direction(DegToRad(rotation.yaw)) IN
  /\ \A p \in Vectors :
       LET r == TransformVector(RotationMatrix2d(DegToRad(rotation.yaw)), M!Vector(<<p[1], p[2]>>))
       IN ComplexMult(<<p[1], p[2]>>, z) = M!Tuple(r)
  /\ ComplexPower(z, 0) = {<<1, 0>>}
  /\ \A a \in -PI .. PI :
       /\ ComplexPower(z, a + 1) = {ComplexMult(power, z) : power \in ComplexPower(z, a)}
       /\ ComplexPowerByLogarithm(z, a) = ComplexPower(z, a)
       /\ ComplexPower(<<0, 0>>, a) = (IF a > 0 THEN {<<0, 0>>} ELSE {})
       /\ ComplexPowerByLogarithm(<<0, 0>>, a) = {}
=============================================================================
