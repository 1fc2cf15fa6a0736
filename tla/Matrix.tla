-------------------------------- MODULE Matrix --------------------------------
(***************************************************************************)
(* edt::Matrix (math/matrix.hpp) over an unsigned integer type: row-major  *)
(* storage, the arithmetic operators, which loop over the elements one by  *)
(* one and take their operand by reference, and the functions built on     *)
(* operator().                                                             *)
(***************************************************************************)
EXTENDS Integers, FiniteSets, Sequences, Functions

CONSTANTS
  Shapes,      \* <<rows, columns>>: the instantiations of the template
  Modulus,     \* the number of values of T
  Samples      \* the values passed in

MatrixAssumption ==
  /\ Shapes \subseteq (Nat \ {0}) \X (Nat \ {0})
  /\ Modulus \in Nat \ {0, 1}
  /\ Samples \subseteq 0 .. Modulus - 1

VARIABLE m

T == 0 .. Modulus - 1

Indices(rows, columns) == 0 .. rows * columns - 1

Make(rows, columns, data) == [rows |-> rows, columns |-> columns, data_ |-> data]

\* x(), y(), z(), w() and operator[](index) of a vector.
Coordinate(v, k) == v.data_[k]

Tuple(a) == [n \in 1 .. Cardinality(DOMAIN a.data_) |-> a.data_[n - 1]]

\* Vectors are columns: of their elements, of a vector and one more, and the axes.
Vector(elements) == Make(Len(elements), 1, [i \in 0 .. Len(elements) - 1 |-> elements[i + 1]])

Extended(v, last) == Make(v.rows + 1, 1, [i \in 0 .. v.rows |-> IF i = v.rows THEN last ELSE Coordinate(v, i)])

Axis(size, k) == Make(size, 1, [i \in 0 .. size - 1 |-> IF i = k THEN 1 ELSE 0])

\* The elements' rows and columns.
Cells(rows, columns) == (0 .. rows - 1) \X (0 .. columns - 1)

\* operator[](row, column): where the element is in data_.
Offset(a, row, column) == row * a.columns + column

At(a, row, column) == a.data_[Offset(a, row, column)]

RowIndices(a) == 0 .. a.rows - 1
ColumnIndices(a) == 0 .. a.columns - 1

\* Elements stored through operator(), each cell at its place, the others kept.
Put(a, cells) ==
  [a EXCEPT !.data_ = [index \in DOMAIN a.data_ |->
     LET stored == {p \in DOMAIN cells : Offset(a, p[1], p[2]) = index}
     IN IF stored = {} THEN a.data_[index] ELSE cells[CHOOSE p \in stored : TRUE]]]

\* A new matrix, all zeros, each of its elements then stored.
Tabulate(rows, columns, cells) == Put(Make(rows, columns, [index \in Indices(rows, columns) |-> 0]), cells)

Identity(rows, columns) ==
  Tabulate(rows, columns, [p \in Cells(rows, columns) |-> IF p[1] = p[2] THEN 1 ELSE 0])

GetRow(a, row) == Tabulate(1, a.columns, [p \in Cells(1, a.columns) |-> At(a, row, p[2])])
GetColumn(a, column) == Tabulate(a.rows, 1, [p \in Cells(a.rows, 1) |-> At(a, p[1], column)])
Sub(a, rows, columns) == Tabulate(rows, columns, [p \in Cells(rows, columns) |-> At(a, p[1], p[2])])
Transposed(a) == Tabulate(a.columns, a.rows, [p \in Cells(a.columns, a.rows) |-> At(a, p[2], p[1])])

\* Sums wrap around at each addition.
SumOver(terms) == FoldFunction(+, 0, terms) % Modulus

Dot(a, b) == SumOver([i \in DOMAIN a.data_ |-> Coordinate(a, i) * Coordinate(b, i)])

\* Mutant: the products of a cell are assigned, not added.
MatMul_Assigns(a, b) ==
  Tabulate(a.rows, b.columns, [p \in Cells(a.rows, b.columns) |->
    (At(a, p[1], a.columns - 1) * At(b, a.columns - 1, p[2])) % Modulus])

MatMul(a, b) ==
  Tabulate(a.rows, b.columns, [p \in Cells(a.rows, b.columns) |->
    SumOver([k \in ColumnIndices(a) |-> At(a, p[1], k) * At(b, k, p[2])])])

\* Cross of two vectors of three elements.
Cross(a, b) ==
  LET Minor(i, j) == (Coordinate(a, i) * Coordinate(b, j) - Coordinate(a, j) * Coordinate(b, i)) % Modulus
  IN Make(a.rows, a.columns, [i \in 0 .. 2 |-> IF i = 0 THEN Minor(1, 2) ELSE IF i = 1 THEN Minor(2, 0) ELSE Minor(0, 1)])

\* Cross of two vectors of two elements: the magnitude of the cross product in space.
CrossInPlane(a, b) ==
  (Coordinate(a, 0) * Coordinate(b, 1) - Coordinate(a, 1) * Coordinate(b, 0)) % Modulus

\* The square of the length: no root is taken.
Magnitude(a) == Dot(a, a)

Transform(a, F) == [a EXCEPT !.data_ = [i \in DOMAIN @ |-> F[@[i]]]]

Negated(a) == Transform(a, [x \in T |-> (-x) % Modulus])

\* Conversion to an unsigned type of so many values.
Cast(a, values) == Transform(a, [x \in T |-> x % values])

MinOf(a) == CHOOSE x \in {a.data_[i] : i \in DOMAIN a.data_} : \A i \in DOMAIN a.data_ : x <= a.data_[i]
MaxOf(a) == CHOOSE x \in {a.data_[i] : i \in DOMAIN a.data_} : \A i \in DOMAIN a.data_ : x >= a.data_[i]

\* Math::Clamp, element by element; undefined where a bound is above the other.
Clamp(a, min, max) ==
  [a EXCEPT !.data_ = [i \in DOMAIN @ |->
     IF @[i] < min.data_[i] THEN min.data_[i] ELSE IF max.data_[i] < @[i] THEN max.data_[i] ELSE @[i]]]

\* The overload for one pair of bounds.
ClampToValues(a, min, max) ==
  Transform(a, [x \in T |-> IF x < min THEN min ELSE IF max < x THEN max ELSE x])

\* Math::Lerp.
Lerp(a, b, t) ==
  [a EXCEPT !.data_ = [i \in DOMAIN @ |-> (@[i] + t * (b.data_[i] - @[i])) % Modulus]]

-----------------------------------------------------------------------------
Operators == {"+", "-", "*", "/"}

Applied(op, x, y) ==
  CASE op = "+" -> (x + y) % Modulus
    [] op = "-" -> (x - y) % Modulus
    [] op = "*" -> (x * y) % Modulus
    [] op = "/" -> x \div y

Defined(op, divisors) == op = "/" => 0 \notin divisors

Values(a) == {a.data_[i] : i \in DOMAIN a.data_}

\* The objects an operator works on: each holds the data of a matrix or one value.
Copied(a) == [object \in {"original", "copy"} |-> a.data_]

Beside(a, value) ==
  [object \in {"original", "value"} |-> IF object = "original" THEN a.data_ ELSE [i \in {0} |-> value]]

\* The references the loop reads at each place: to the element there, or to the same
\* element every time.
Each(a, object) == [i \in DOMAIN a.data_ |-> <<object, i>>]
One(a, object, k) == [i \in DOMAIN a.data_ |-> <<object, k>>]

\* The objects once the target's element at that place is assigned what the two
\* references combine to.
Combine(op, objects, target, place, left, right) ==
  [objects EXCEPT ![target][place] = Applied(op, objects[left[1]][left[2]], objects[right[1]][right[2]])]

\* Mutant: the operands are read once, before the loop.
Loop_ReadsOnce(op, objects, target, left, right) ==
  [i \in DOMAIN objects[target] |->
    Applied(op, objects[left[i][1]][left[i][2]], objects[right[i][1]][right[i][2]])]

\* The loop of operator@=: place by place, each reference read when it is the
\* place's turn.
Loop(op, objects, target, left, right) ==
  LET size == Cardinality(DOMAIN objects[target])
      after[n \in 0 .. size] ==
        IF n = 0 THEN objects ELSE Combine(op, after[n - 1], target, n - 1, left[n - 1], right[n - 1])
  IN after[size][target]

\* m @= value, for a value that is not in m.
CompoundScalar(op, a, value) ==
  [a EXCEPT !.data_ = Loop(op, Beside(a, value), "original", Each(a, "original"), One(a, "value", 0))]

\* m @= m[k]: the reference is to the data that changes.
CompoundAliased(op, a, k) ==
  [a EXCEPT !.data_ = Loop(op, Copied(a), "original", Each(a, "original"), One(a, "original", k))]

\* m @= m.
CompoundSelf(op, a) ==
  [a EXCEPT !.data_ = Loop(op, Copied(a), "original", Each(a, "original"), Each(a, "original"))]

\* Mutant: the operator works in place instead of on a copy.
BinaryAliased_InPlace(op, a, k) == CompoundAliased(op, a, k)

\* m @ m[k]: the data that changes is the copy's, the reference is to m.
BinaryAliased(op, a, k) ==
  [a EXCEPT !.data_ = Loop(op, Copied(a), "copy", Each(a, "copy"), One(a, "original", k))]

\* m[k] @ m: the commutative ones are m @ m[k], the others loop over a copy.
BinaryReversed(op, a, k) ==
  IF op \in {"+", "*"} THEN BinaryAliased(op, a, k)
  ELSE [a EXCEPT !.data_ = Loop(op, Copied(a), "copy", One(a, "original", k), Each(a, "copy"))]

\* The values of a line come from a vector of any orientation.
Lines(indices) == [indices -> Samples]

SetColumn(a, column, values) == Put(a, [p \in RowIndices(a) \X {column} |-> values[p[1]]])

SetRow(a, row, values) == Put(a, [p \in {row} \X ColumnIndices(a) |-> values[p[2]]])

-----------------------------------------------------------------------------
Init == \E shape \in Shapes : m = Identity(shape[1], shape[2])

AssignOperand(op, k) ==
  /\ Defined(op, {m.data_[k]})
  /\ m' = BinaryAliased(op, m, k)

AssignReversed(op, k) ==
  /\ Defined(op, Values(m))
  /\ m' = BinaryReversed(op, m, k)

CombineValue(op, value) ==
  /\ Defined(op, {value})
  /\ m' = CompoundScalar(op, m, value)

CombineSelf(op) ==
  /\ Defined(op, Values(m))
  /\ m' = CompoundSelf(op, m)

CombineOwnElement(op, k) ==
  /\ Defined(op, {m.data_[k]})
  /\ m' = CompoundAliased(op, m, k)

Next ==
  \/ \E op \in Operators, value \in Samples : CombineValue(op, value)
  \/ \E op \in Operators : CombineSelf(op)
  \/ \E op \in Operators, k \in DOMAIN m.data_ : CombineOwnElement(op, k)
  \/ \E op \in Operators, k \in DOMAIN m.data_ : AssignOperand(op, k)
  \/ \E op \in Operators, k \in DOMAIN m.data_ : AssignReversed(op, k)
  \/ \E row \in RowIndices(m), column \in ColumnIndices(m), value \in Samples :
       m' = Put(m, [place \in {<<row, column>>} |-> value])
  \/ \E row \in RowIndices(m), values \in Lines(ColumnIndices(m)) : m' = SetRow(m, row, values)
  \/ \E column \in ColumnIndices(m), values \in Lines(RowIndices(m)) : m' = SetColumn(m, column, values)

Spec == Init /\ [][Next]_m

-----------------------------------------------------------------------------
TypeOK == <<m.rows, m.columns>> \in Shapes /\ m.data_ \in [Indices(m.rows, m.columns) -> T]

\* Transposition of any shape is its own inverse and reverses the order of a
\* product, which has the dot product of a row and a column in each cell; and the
\* cross product is orthogonal to both factors, also where the products wrap, and
\* as long as Lagrange's identity says, in the plane as in space.
ProductLaws ==
  LET t == Transposed(m) product == MatMul(m, t)
      Lagrange(a, b, squared) == squared = (Magnitude(a) * Magnitude(b) - Dot(a, b) * Dot(a, b)) % Modulus
  IN /\ Transposed(t) = m
     /\ Transposed(product) = product
     /\ MatMul(Identity(m.rows, m.rows), m) = m /\ MatMul(m, Identity(m.columns, m.columns)) = m
     /\ Sub(product, 1, m.rows) = MatMul(GetRow(m, 0), t)
     /\ \A r, c \in RowIndices(m) : At(product, r, c) = Dot(GetRow(m, r), GetColumn(t, c))
     /\ \A r, s \in RowIndices(m) :
          LET a == GetRow(m, r) b == GetRow(m, s) IN
          /\ m.columns = 3 =>
               /\ Dot(Cross(a, b), a) = 0 /\ Dot(Cross(a, b), b) = 0
               /\ Lagrange(a, b, Magnitude(Cross(a, b)))
          /\ m.columns = 2 => Lagrange(a, b, (CrossInPlane(a, b) * CrossInPlane(a, b)) % Modulus)

\* Conversion to a narrower type commutes with products; an element stays within
\* bounds it is clamped to, and one within them as it is; and interpolation begins
\* and ends at its operands, backwards as forwards.
ElementLaws ==
  LET t == Transposed(m) lowest == Transform(m, [x \in T |-> MinOf(m)]) r == Negated(m) IN
  /\ \A values \in {v \in 1 .. Modulus : Modulus % v = 0} :
       Cast(MatMul(m, t), values) = Cast(MatMul(Cast(m, values), Cast(t, values)), values)
  /\ ClampToValues(m, MinOf(m), MaxOf(m)) = m
  /\ ClampToValues(m, MinOf(m), MinOf(m)) = lowest
  /\ Clamp(m, lowest, lowest) = lowest
  /\ Lerp(m, r, 0) = m /\ Lerp(m, r, 1) = r
  /\ \A k \in T : Lerp(m, r, k) = Lerp(r, m, 1 - k)

ElementWise(op, result, left, right) ==
  \A i \in DOMAIN m.data_ : result.data_[i] = Applied(op, left[i], right[i])

\* The operands are references, read again after each element the loop changes.
\* m @ m[k], m[k] @ m and m @= m combine every element with what m[k] and it were at
\* the call; but m @= m[k] combines those after k with what the loop has made of m[k].
AliasedOperands ==
  LET own == m.data_
      Everywhere(x) == [i \in DOMAIN own |-> x]
  IN \A op \in Operators :
       /\ \A k \in DOMAIN own : Defined(op, {own[k]}) =>
            /\ ElementWise(op, BinaryAliased(op, m, k), own, Everywhere(own[k]))
            /\ ElementWise(op, CompoundAliased(op, m, k), own,
                 [i \in DOMAIN own |-> IF i <= k THEN own[k] ELSE Applied(op, own[k], own[k])])
       /\ Defined(op, Values(m)) =>
            /\ ElementWise(op, CompoundSelf(op, m), own, own)
            /\ \A k \in DOMAIN own : ElementWise(op, BinaryReversed(op, m, k), Everywhere(own[k]), own)

=============================================================================
