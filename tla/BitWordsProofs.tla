--------------------------- MODULE BitWordsProofs ---------------------------
(***************************************************************************)
(* What the shifts, masks and word loops of BitWords compute, for every    *)
(* word width and every number of words.                                   *)
(***************************************************************************)
EXTENDS BitWords, TLAPS

LEMMA Division ==
  ASSUME NEW i \in Nat
  PROVE  /\ Part(i) \in Nat /\ Bit(i) \in 0 .. kBitsCount - 1
         /\ i = kBitsCount * Part(i) + Bit(i)
  BY WordAssumption DEF Part, Bit

LEMMA Multiples ==
  ASSUME NEW p \in Nat, NEW q \in Nat, p < q
  PROVE  kBitsCount * q >= kBitsCount * p + kBitsCount
<1>1. PICK d \in Nat : q = p + 1 + d
  <2>1. q - p - 1 \in Nat /\ q = p + 1 + (q - p - 1)
    OBVIOUS
  <2> QED BY <2>1
<1>2. kBitsCount * q = kBitsCount * p + kBitsCount + kBitsCount * d
  BY <1>1, WordAssumption
<1>3. kBitsCount * d \in Nat /\ kBitsCount * p \in Nat
  BY WordAssumption
<1> QED BY <1>2, <1>3, WordAssumption

\* Bits are ordered by their word first and their place in it second.
LEMMA PlaceOrder ==
  ASSUME NEW i \in Nat, NEW j \in Nat
  PROVE  i < j <=> \/ Part(i) < Part(j)
                   \/ Part(i) = Part(j) /\ Bit(i) < Bit(j)
<1> DEFINE k == kBitsCount
<1>1. /\ Part(i) \in Nat /\ Bit(i) \in 0 .. k - 1 /\ i = k * Part(i) + Bit(i)
      /\ Part(j) \in Nat /\ Bit(j) \in 0 .. k - 1 /\ j = k * Part(j) + Bit(j)
  BY Division
<1>2. k * Part(i) \in Nat /\ k * Part(j) \in Nat /\ k \in Nat
  BY <1>1, WordAssumption
<1>3. CASE Part(i) < Part(j)
  <2>1. k * Part(j) >= k * Part(i) + k
    BY <1>1, <1>3, Multiples
  <2> QED BY <1>1, <1>2, <1>3, <2>1
<1>4. CASE Part(j) < Part(i)
  <2>1. k * Part(i) >= k * Part(j) + k
    BY <1>1, <1>4, Multiples
  <2> QED BY <1>1, <1>2, <1>4, <2>1
<1>5. CASE Part(i) = Part(j)
  BY <1>1, <1>2, <1>5
<1> QED BY <1>1, <1>3, <1>4, <1>5

LEMMA IntIfSelects ==
  ASSUME NEW c \in BOOLEAN, NEW a \in Words, NEW b \in Words
  PROVE  IntIf(c, a, b) = IF c THEN a ELSE b
  BY DEF IntIf, Xor, Words, kFullMask, kEmptyMask

LEMMA ShiftsDiscard ==
  ASSUME NEW mask, NEW count \in Nat
  PROVE  /\ LeftShifted(mask, count) =
              IF count < kBitsCount THEN {i + InRange(count) : i \in mask} \cap kFullMask ELSE {}
         /\ RightShifted(mask, count) =
              IF count < kBitsCount THEN {i - InRange(count) : i \in mask} \cap kFullMask ELSE {}
<1> DEFINE l == {i + InRange(count) : i \in mask} \cap kFullMask
           r == {i - InRange(count) : i \in mask} \cap kFullMask
<1>1. l \subseteq kFullMask /\ r \subseteq kFullMask
  OBVIOUS
<1>2. LeftShifted(mask, count) = IntIf(count < kBitsCount, l, kEmptyMask)
  BY DEF LeftShifted
<1>3. RightShifted(mask, count) = IntIf(count < kBitsCount, r, kEmptyMask)
  BY DEF RightShifted
<1> HIDE DEF l, r
<1>4. CASE count < kBitsCount
  <2>1. IntIf(count < kBitsCount, l, kEmptyMask) = l /\ IntIf(count < kBitsCount, r, kEmptyMask) = r
    BY <1>1, <1>4 DEF IntIf, Xor, kEmptyMask
  <2> QED BY <1>2, <1>3, <1>4, <2>1 DEF l, r
<1>5. CASE ~(count < kBitsCount)
  <2>1. IntIf(count < kBitsCount, l, kEmptyMask) = {} /\ IntIf(count < kBitsCount, r, kEmptyMask) = {}
    BY <1>5 DEF IntIf, Xor, kEmptyMask
  <2> QED BY <1>2, <1>3, <1>5, <2>1
<1> QED BY <1>4, <1>5

LEMMA ShiftsLeft ==
  ASSUME NEW n \in 0 .. kBitsCount, NEW b \in 0 .. kBitsCount - n
  PROVE  LeftShifted(0 .. n - 1, b) = b .. b + n - 1
<1> b \in Nat /\ n \in Nat
  BY WordAssumption
<1>1. CASE b < kBitsCount
  <2>1. InRange(b) = b
    BY <1>1, WordAssumption DEF InRange
  <2>2. \A x \in b .. b + n - 1 : \E i \in 0 .. n - 1 : x = i + b
    <3> TAKE x \in b .. b + n - 1
    <3> WITNESS x - b \in 0 .. n - 1
    <3> QED OBVIOUS
  <2>3. {i + b : i \in 0 .. n - 1} = b .. b + n - 1
    BY <2>2
  <2>4. b .. b + n - 1 \subseteq kFullMask
    BY WordAssumption DEF kFullMask
  <2>5. LeftShifted(0 .. n - 1, b) = {i + InRange(b) : i \in 0 .. n - 1} \cap kFullMask
    BY <1>1, ShiftsDiscard
  <2>6. {i + InRange(b) : i \in 0 .. n - 1} = {i + b : i \in 0 .. n - 1}
    BY <2>1
  <2> QED BY <2>3, <2>4, <2>5, <2>6
<1>2. CASE ~(b < kBitsCount)
  <2>1. b .. b + n - 1 = {}
    BY <1>2, WordAssumption
  <2> QED BY <1>2, <2>1, ShiftsDiscard
<1> QED BY <1>1, <1>2

LEMMA ShiftsRight ==
  ASSUME NEW n \in 0 .. kBitsCount
  PROVE  RightShifted(kFullMask, kBitsCount - n) = 0 .. n - 1
<1> kBitsCount - n \in Nat /\ n \in Nat /\ kBitsCount \in Nat
  BY WordAssumption
<1>1. CASE n > 0
  <2>1. InRange(kBitsCount - n) = kBitsCount - n /\ kBitsCount - n < kBitsCount
    BY <1>1, WordAssumption DEF InRange
  <2>2. \A x \in 0 .. n - 1 : \E i \in kFullMask : x = i - (kBitsCount - n)
    <3> TAKE x \in 0 .. n - 1
    <3>1. x + (kBitsCount - n) \in kFullMask
      BY DEF kFullMask
    <3> WITNESS x + (kBitsCount - n) \in kFullMask
    <3> QED OBVIOUS
  <2>3. \A i \in kFullMask : i - (kBitsCount - n) \in kFullMask => i - (kBitsCount - n) \in 0 .. n - 1
    BY DEF kFullMask
  <2>4. 0 .. n - 1 \subseteq kFullMask
    BY DEF kFullMask
  <2>5. {i - (kBitsCount - n) : i \in kFullMask} \cap kFullMask = 0 .. n - 1
    BY <2>2, <2>3, <2>4
  <2>6. RightShifted(kFullMask, kBitsCount - n)
          = {i - InRange(kBitsCount - n) : i \in kFullMask} \cap kFullMask
    BY <2>1, ShiftsDiscard
  <2>7. {i - InRange(kBitsCount - n) : i \in kFullMask} = {i - (kBitsCount - n) : i \in kFullMask}
    BY <2>1
  <2> QED BY <2>5, <2>6, <2>7
<1>2. CASE n = 0
  BY <1>2, ShiftsDiscard
<1> QED BY <1>1, <1>2

\* SetWordRange assigns exactly the bits of its range, also when that is empty or
\* the whole word, where a shift by the width of the word would be undefined.
LEMMA WordRangeAssigns ==
  ASSUME NEW w \in Words, NEW b \in 0 .. kBitsCount, NEW e \in b .. kBitsCount, NEW v \in BOOLEAN
  PROVE  SetWordRange(w, b, e, v) = Assigned(w, b .. e - 1, v)
<1> DEFINE n == e - b
<1>0. n \in 0 .. kBitsCount /\ b \in 0 .. kBitsCount - n
  BY WordAssumption
<1> HIDE DEF n
<1>1. RightShifted(kFullMask, kBitsCount - n) = 0 .. n - 1
  BY <1>0, ShiftsRight
<1>2. LeftShifted(0 .. n - 1, b) = b .. b + n - 1
  BY <1>0, ShiftsLeft
<1>3. b .. b + n - 1 = b .. e - 1 /\ b .. e - 1 \subseteq kFullMask
  BY WordAssumption DEF kFullMask, n
<1>4. IntIf(v, kFullMask, kEmptyMask) = IF v THEN kFullMask ELSE {}
  BY IntIfSelects DEF Words, kEmptyMask
<1>5. SetWordRange(w, b, e, v) = (w \ (b .. e - 1)) \cup ((b .. e - 1) \cap IF v THEN kFullMask ELSE {})
  BY <1>1, <1>2, <1>3, <1>4 DEF SetWordRange, SetWordMasked, n
<1> QED BY <1>3, <1>5, Zenon DEF Assigned, Words

-----------------------------------------------------------------------------
(* All the words.                                                          *)

ArrayOf(n) == [0 .. n - 1 -> Words]

LEMMA GetReads ==
  ASSUME NEW n \in Nat, NEW parts \in ArrayOf(n), NEW i \in Nat, Part(i) < n
  PROVE  Get(parts, i) <=> Bit(i) \in parts[Part(i)]
<1>1. Bit(i) \in 0 .. kBitsCount - 1 /\ Part(i) \in 0 .. n - 1
  BY Division
<1>2. \A m \in 0 .. kBitsCount : \A c \in 0 .. kBitsCount - m :
        LeftShifted(0 .. m - 1, c) = c .. c + m - 1
  BY ShiftsLeft
<1>3. 1 \in 0 .. kBitsCount /\ Bit(i) \in 0 .. kBitsCount - 1
  BY <1>1, WordAssumption
<1>4. LeftShifted(0 .. 1 - 1, Bit(i)) = Bit(i) .. Bit(i) + 1 - 1
  BY <1>2, <1>3
<1>5. 0 .. 1 - 1 = {0} /\ Bit(i) .. Bit(i) + 1 - 1 = {Bit(i)}
  BY <1>1, WordAssumption
<1> QED BY <1>4, <1>5 DEF Get, kEmptyMask

\* Get reads the bit that Set and SetRange assign: what the words stand for
\* changes by exactly the range.
LEMMA SetRangeAssignsBit ==
  ASSUME NEW n \in Nat, NEW parts \in ArrayOf(n), NEW v \in BOOLEAN,
         NEW b \in Nat, NEW e \in Nat, Part(b) < n \/ b >= e, Part(e) <= n,
         Part(e) = n => Bit(e) = 0,
         NEW i \in Nat, Part(i) < n
  PROVE  /\ SetRange(parts, b, e, v) \in ArrayOf(n)
         /\ Bit(i) \in SetRange(parts, b, e, v)[Part(i)]
              <=> IF b <= i /\ i < e THEN v ELSE Bit(i) \in parts[Part(i)]
<1> DEFINE k == kBitsCount
<1>1. /\ \A x \in {b, e, i} : Part(x) \in Nat /\ Bit(x) \in 0 .. k - 1
      /\ k \in Nat \ {0}
  BY Division, WordAssumption
<1>2. /\ b <= i <=> \/ Part(b) < Part(i)
                    \/ Part(b) = Part(i) /\ Bit(b) <= Bit(i)
      /\ i < e <=> \/ Part(i) < Part(e)
                   \/ Part(i) = Part(e) /\ Bit(i) < Bit(e)
      /\ b < e <=> \/ Part(b) < Part(e)
                   \/ Part(b) = Part(e) /\ Bit(b) < Bit(e)
  <2>1. b <= i <=> ~(i < b)
    OBVIOUS
  <2>2. i < b <=> Part(i) < Part(b) \/ (Part(i) = Part(b) /\ Bit(i) < Bit(b))
    BY PlaceOrder
  <2> QED BY <1>1, <2>1, <2>2, PlaceOrder
<1>3. \A p \in 0 .. n - 1 : parts[p] \in Words
  BY DEF ArrayOf
<1>4. CASE b >= e
  BY <1>4 DEF SetRange
<1>5. CASE b < e /\ Part(b) = Part(e)
  <2>1. Bit(b) < Bit(e) /\ Part(b) \in 0 .. n - 1
    BY <1>1, <1>2, <1>5
  <2> DEFINE w == SetWordRange(parts[Part(b)], Bit(b), Bit(e), v)
  <2>2. w = Assigned(parts[Part(b)], Bit(b) .. Bit(e) - 1, v)
    BY <1>1, <1>3, <2>1, WordRangeAssigns
  <2>3. w \in Words
    <3>1. Bit(b) .. Bit(e) - 1 \subseteq kFullMask
      BY <1>1 DEF kFullMask
    <3> QED BY <1>3, <2>1, <2>2, <3>1 DEF Assigned, Words
  <2>4. SetRange(parts, b, e, v) = [parts EXCEPT ![Part(b)] = w]
    BY <1>1, <1>5 DEF SetRange
  <2> HIDE DEF w
  <2>5. SetRange(parts, b, e, v) \in ArrayOf(n)
    BY <2>3, <2>4 DEF ArrayOf
  <2>6. CASE Part(i) = Part(b)
    <3>1. SetRange(parts, b, e, v)[Part(i)] = w
      BY <2>1, <2>4, <2>6 DEF ArrayOf
    <3>2. b <= i /\ i < e <=> Bit(i) \in Bit(b) .. Bit(e) - 1
      BY <1>1, <1>2, <1>5, <2>6
    <3> QED BY <2>2, <2>5, <2>6, <3>1, <3>2 DEF Assigned
  <2>7. CASE Part(i) # Part(b)
    <3>1. SetRange(parts, b, e, v)[Part(i)] = parts[Part(i)]
      BY <1>1, <2>4, <2>7 DEF ArrayOf
    <3>2. CASE Part(i) < Part(b)
      <4>1. i < b
        BY <1>1, <1>2, <3>2
      <4> QED BY <1>1, <2>5, <3>1, <4>1
    <3>3. CASE Part(i) > Part(b)
      <4>1. e <= i
        BY <1>1, <1>2, <1>5, <3>3
      <4> QED BY <1>1, <2>5, <3>1, <4>1
    <3> QED BY <1>1, <2>7, <3>2, <3>3
  <2> QED BY <2>6, <2>7
<1>6. CASE b < e /\ Part(b) # Part(e)
  <2>1. Part(b) < Part(e)
    BY <1>1, <1>2, <1>6
  <2>2. SetRange(parts, b, e, v) = SpansWords(parts, b, e, v)
    BY <1>1, <1>6 DEF SetRange
  <2>3. /\ \A w \in Words : SetWordRange(w, Bit(b), k, v) = Assigned(w, Bit(b) .. k - 1, v)
        /\ \A w \in Words : SetWordRange(w, 0, Bit(e), v) = Assigned(w, 0 .. Bit(e) - 1, v)
    <3>1. Bit(b) \in 0 .. k /\ k \in Bit(b) .. k /\ 0 \in 0 .. k /\ Bit(e) \in 0 .. k
      BY <1>1, WordAssumption
    <3> QED BY <3>1, WordRangeAssigns, Zenon
  <2>4. IntIf(v, kFullMask, kEmptyMask) = IF v THEN kFullMask ELSE {}
    BY IntIfSelects DEF Words, kEmptyMask
  <2> DEFINE new(p) == IF p = Part(b) THEN Assigned(parts[p], Bit(b) .. k - 1, v)
                       ELSE IF Part(b) < p /\ p < Part(e) THEN IF v THEN kFullMask ELSE {}
                       ELSE IF p = Part(e) /\ Bit(e) # 0 THEN Assigned(parts[p], 0 .. Bit(e) - 1, v)
                       ELSE parts[p]
  <2>5. SetRange(parts, b, e, v) = [p \in 0 .. n - 1 |-> new(p)]
    <3>1. DOMAIN parts = 0 .. n - 1
      BY DEF ArrayOf
    <3> QED BY <1>3, <2>2, <2>3, <2>4, <3>1 DEF SpansWords
  <2>6. \A p \in 0 .. n - 1 : new(p) \in Words
    <3>1. Bit(b) .. k - 1 \subseteq kFullMask /\ 0 .. Bit(e) - 1 \subseteq kFullMask
      BY <1>1 DEF kFullMask
    <3> QED BY <1>3, <3>1 DEF Assigned, Words
  <2>7. Bit(i) \in new(Part(i)) <=> IF b <= i /\ i < e THEN v ELSE Bit(i) \in parts[Part(i)]
    <3>1. CASE Part(i) = Part(b)
      <4>1. b <= i /\ i < e <=> Bit(i) \in Bit(b) .. k - 1
        BY <1>1, <1>2, <2>1, <3>1
      <4> QED BY <3>1, <4>1 DEF Assigned
    <3>2. CASE Part(b) < Part(i) /\ Part(i) < Part(e)
      <4>1. b <= i /\ i < e /\ Bit(i) \in kFullMask
        BY <1>1, <1>2, <3>2 DEF kFullMask
      <4> QED BY <1>1, <3>2, <4>1
    <3>3. CASE Part(i) = Part(e)
      <4>1. b <= i /\ i < e <=> Bit(i) \in 0 .. Bit(e) - 1
        BY <1>1, <1>2, <2>1, <3>3
      <4>2. Part(i) # Part(b) /\ ~(Part(i) < Part(e))
        BY <1>1, <2>1, <3>3
      <4>3. CASE Bit(e) = 0
        BY <1>1, <3>3, <4>1, <4>2, <4>3
      <4>4. CASE Bit(e) # 0
        BY <3>3, <4>1, <4>2, <4>4 DEF Assigned
      <4> QED BY <4>3, <4>4
    <3>4. CASE Part(i) < Part(b) \/ Part(e) < Part(i)
      <4>1. ~(b <= i /\ i < e)
        BY <1>1, <1>2, <2>1, <3>4
      <4>2. Part(i) # Part(b) /\ ~(Part(b) < Part(i) /\ Part(i) < Part(e)) /\ Part(i) # Part(e)
        BY <1>1, <2>1, <3>4
      <4> QED BY <4>1, <4>2
    <3> QED BY <1>1, <2>1, <3>1, <3>2, <3>3, <3>4
  <2>8. Part(i) \in 0 .. n - 1
    BY <1>1
  <2> HIDE DEF new
  <2> QED BY <2>5, <2>6, <2>7, <2>8 DEF ArrayOf
<1> QED BY <1>4, <1>5, <1>6

\* The bits of n words are those below n * kBitsCount.
LEMMA ArrayEnds ==
  ASSUME NEW n \in Nat
  PROVE  /\ Part(n * kBitsCount) = n /\ Bit(n * kBitsCount) = 0 /\ n * kBitsCount \in Nat
         /\ \A x \in Nat : x < n * kBitsCount <=> Part(x) < n
<1> DEFINE size == n * kBitsCount
<1>1. size \in Nat
  BY WordAssumption
<1>2. Part(size) = n /\ Bit(size) = 0
  <2>1. /\ Part(size) \in Nat /\ Bit(size) \in 0 .. kBitsCount - 1
        /\ size = kBitsCount * Part(size) + Bit(size)
    BY <1>1, Division
  <2>2. ~(Part(size) < n)
    <3>1. Part(size) < n => kBitsCount * n >= kBitsCount * Part(size) + kBitsCount
      BY <2>1, Multiples
    <3>2. kBitsCount * n = size /\ kBitsCount * Part(size) \in Nat
      BY <2>1, WordAssumption
    <3> HIDE DEF size
    <3> QED BY <1>1, <2>1, <3>1, <3>2, WordAssumption
  <2>3. ~(n < Part(size))
    <3>1. n < Part(size) => kBitsCount * Part(size) >= kBitsCount * n + kBitsCount
      BY <2>1, Multiples
    <3>2. kBitsCount * n = size /\ kBitsCount * Part(size) \in Nat
      BY <2>1, WordAssumption
    <3> HIDE DEF size
    <3> QED BY <1>1, <2>1, <3>1, <3>2, WordAssumption
  <2>4. Part(size) = n
    BY <2>1, <2>2, <2>3
  <2>5. kBitsCount * Part(size) = size
    BY <2>4, WordAssumption
  <2> HIDE DEF size
  <2> QED BY <1>1, <2>1, <2>4, <2>5, WordAssumption
<1> HIDE DEF size
<1>3. \A x \in Nat : x < size <=> Part(x) < n
  <2> SUFFICES ASSUME NEW x \in Nat PROVE x < size <=> Part(x) < n
    OBVIOUS
  <2>1. Bit(x) \in 0 .. kBitsCount - 1
    BY Division
  <2> QED BY <1>1, <1>2, <2>1, PlaceOrder
<1> QED BY <1>1, <1>2, <1>3 DEF size

LEMMA RangeStaysInside ==
  ASSUME NEW n \in Nat, NEW parts \in ArrayOf(n), NEW v \in BOOLEAN,
         NEW b \in 0 .. n * kBitsCount, NEW e \in 0 .. n * kBitsCount
  PROVE  /\ Part(b) < n \/ b >= e
         /\ Part(e) <= n
         /\ Part(e) = n => Bit(e) = 0
         /\ SetRange(parts, b, e, v) \in ArrayOf(n)
<1> DEFINE size == n * kBitsCount
<1>1. size \in Nat /\ b \in Nat /\ e \in Nat
  BY WordAssumption
<1>2. Part(size) = n /\ Bit(size) = 0
  BY ArrayEnds
<1>3. \A x \in Nat : x < size <=> Part(x) < n
  BY ArrayEnds
<1> HIDE DEF size
<1>4. /\ Part(b) < n \/ b >= e
      /\ Part(e) <= n
      /\ Part(e) = n => Bit(e) = 0
  <2>1. b <= size /\ e <= size
    BY <1>1 DEF size
  <2>2. e = size \/ Part(e) < n
    BY <1>1, <1>3, <2>1
  <2>3. b = size \/ Part(b) < n
    BY <1>1, <1>3, <2>1
  <2>4. Part(e) \in Nat /\ Part(b) \in Nat
    BY <1>1, Division
  <2> QED BY <1>1, <1>2, <2>1, <2>2, <2>3, <2>4
<1>5. SetRange(parts, b, e, v) \in ArrayOf(n)
  <2>1. CASE n = 0
    <3>1. size = 0
      BY <2>1, WordAssumption DEF size
    <3>2. b >= e
      BY <3>1 DEF size
    <3> QED BY <3>2 DEF SetRange
  <2>2. CASE n > 0
    <3>1. Part(0) = 0
      BY WordAssumption DEF Part
    <3> QED BY <1>1, <1>4, <2>2, <3>1, SetRangeAssignsBit
  <2> QED BY <2>1, <2>2
<1> QED BY <1>4, <1>5

\* The range operations on words are those on a flat set of bits, for any width
\* of the words and number of them, and any range that ends inside the array.
THEOREM RangesAssignFlatly ==
  ASSUME NEW n \in Nat, NEW parts \in ArrayOf(n), NEW v \in BOOLEAN,
         NEW b \in 0 .. n * kBitsCount, NEW e \in 0 .. n * kBitsCount
  PROVE  BitsOf(SetRange(parts, b, e, v), n * kBitsCount)
           = Assigned(BitsOf(parts, n * kBitsCount), b .. e - 1, v)
<1> DEFINE size == n * kBitsCount
<1>1. size \in Nat /\ b \in Nat /\ e \in Nat
  BY WordAssumption
<1>2. \A x \in Nat : x < size <=> Part(x) < n
  BY ArrayEnds
<1>3. Part(e) <= n /\ (Part(e) = n => Bit(e) = 0)
  BY RangeStaysInside
<1>4. Part(b) < n \/ b >= e
  BY RangeStaysInside
<1>5. SetRange(parts, b, e, v) \in ArrayOf(n)
  BY RangeStaysInside
<1> HIDE DEF size
<1>6. ASSUME NEW i \in 0 .. size - 1
      PROVE  Get(SetRange(parts, b, e, v), i) <=> IF b <= i /\ i < e THEN v ELSE Get(parts, i)
  <2>1. i \in Nat /\ Part(i) < n
    BY <1>1, <1>2
  <2>2. Bit(i) \in SetRange(parts, b, e, v)[Part(i)]
          <=> IF b <= i /\ i < e THEN v ELSE Bit(i) \in parts[Part(i)]
    BY <1>1, <1>3, <1>4, <2>1, SetRangeAssignsBit
  <2>3. Get(SetRange(parts, b, e, v), i) <=> Bit(i) \in SetRange(parts, b, e, v)[Part(i)]
    BY <1>5, <2>1, GetReads
  <2>4. Get(parts, i) <=> Bit(i) \in parts[Part(i)]
    BY <2>1, GetReads
  <2> QED BY <2>2, <2>3, <2>4
<1>7. \A i : i \in b .. e - 1 => i \in 0 .. size - 1
  BY <1>1 DEF size
<1>8. \A i \in 0 .. size - 1 : i \in b .. e - 1 <=> b <= i /\ i < e
  BY <1>1
<1>9. BitsOf(SetRange(parts, b, e, v), size)
        = {i \in 0 .. size - 1 : IF i \in b .. e - 1 THEN v ELSE Get(parts, i)}
  BY <1>6, <1>8 DEF BitsOf
<1>10. CASE v
  BY <1>7, <1>9, <1>10 DEF BitsOf, Assigned, size
<1>11. CASE ~v
  BY <1>9, <1>11 DEF BitsOf, Assigned, size
<1> QED BY <1>10, <1>11

\* Set is SetRange of one bit, in the last place of a word too.
LEMMA SetIsRange ==
  ASSUME NEW n \in Nat, NEW parts \in ArrayOf(n), NEW v \in BOOLEAN, NEW i \in Nat, Part(i) < n
  PROVE  Set(parts, i, v) = SetRange(parts, i, i + 1, v)
<1> DEFINE first == kBitsCount * Part(i)
           next == kBitsCount * Part(i + 1)
<1>0. i + 1 \in Nat /\ i < i + 1
  OBVIOUS
<1>1. /\ Part(i) \in Nat /\ Bit(i) \in 0 .. kBitsCount - 1 /\ i = first + Bit(i)
      /\ Part(i + 1) \in Nat /\ Bit(i + 1) \in 0 .. kBitsCount - 1 /\ i + 1 = next + Bit(i + 1)
  BY <1>0, Division
<1>2. \/ Part(i) < Part(i + 1)
      \/ Part(i) = Part(i + 1) /\ Bit(i) < Bit(i + 1)
  BY <1>0, PlaceOrder
<1>a. first \in Nat /\ next \in Nat /\ kBitsCount \in Nat
  BY <1>1, WordAssumption
<1>b. Part(i) < Part(i + 1) => next >= first + kBitsCount
  BY <1>1, Multiples
<1>c. Part(i) = Part(i + 1) => next = first
  OBVIOUS
<1>d. Part(i) + 1 < Part(i + 1) => next >= first + kBitsCount + kBitsCount
  <2>1. Part(i) + 1 < Part(i + 1) => next >= kBitsCount * (Part(i) + 1) + kBitsCount
    BY <1>1, Multiples
  <2>2. kBitsCount * (Part(i) + 1) = first + kBitsCount
    BY <1>1, WordAssumption
  <2> QED BY <2>1, <2>2
<1> HIDE DEF first, next
<1>3. CASE Part(i) = Part(i + 1)
  <2>1. Bit(i + 1) = Bit(i) + 1
    BY <1>1, <1>3, <1>a, <1>c
  <2>2. ~(i >= i + 1)
    BY <1>0
  <2> QED BY <1>3, <2>1, <2>2 DEF Set, SetRange
<1>4. CASE Part(i) < Part(i + 1)
  <2>3. Bit(i) + 1 = kBitsCount /\ Bit(i + 1) = 0
    BY <1>1, <1>4, <1>a, <1>b
  <2>4. SetRange(parts, i, i + 1, v) = SpansWords(parts, i, i + 1, v)
    BY <1>0, <1>1, <1>4 DEF SetRange
  <2>5. ~(Part(i) + 1 < Part(i + 1))
    BY <1>1, <1>a, <1>d, <2>3
  <2>6. parts = [p \in 0 .. n - 1 |-> parts[p]] /\ DOMAIN parts = 0 .. n - 1
    BY DEF ArrayOf
  <2>7. ASSUME NEW p \in 0 .. n - 1
        PROVE  SpansWords(parts, i, i + 1, v)[p] = IF p = Part(i) THEN SetWordRange(parts[p], Bit(i), Bit(i) + 1, v)
                                                   ELSE parts[p]
    <3>1. ~(Part(i) < p /\ p < Part(i + 1))
      BY <1>1, <2>5
    <3> QED BY <2>3, <2>6, <3>1 DEF SpansWords
  <2>8. SpansWords(parts, i, i + 1, v) = [p \in 0 .. n - 1 |-> SpansWords(parts, i, i + 1, v)[p]]
    BY <2>6 DEF SpansWords
  <2>9. Set(parts, i, v) = [p \in 0 .. n - 1 |-> IF p = Part(i) THEN SetWordRange(parts[p], Bit(i), Bit(i) + 1, v)
                                                 ELSE parts[p]]
    BY <2>6 DEF Set
  <2> QED BY <2>4, <2>7, <2>8, <2>9
<1> QED BY <1>1, <1>2, <1>3, <1>4

\* A mask of the first word is a set of flat bits as it is.
LEMMA MaskAssigns ==
  ASSUME NEW n \in Nat \ {0}, NEW parts \in ArrayOf(n), NEW mask \in Words, NEW v \in BOOLEAN
  PROVE  LET new == [parts EXCEPT ![0] = SetWordMasked(@, mask, v)]
         IN  /\ new \in ArrayOf(n)
             /\ BitsOf(new, n * kBitsCount) = Assigned(BitsOf(parts, n * kBitsCount), mask, v)
<1> DEFINE size == n * kBitsCount
           new == [parts EXCEPT ![0] = SetWordMasked(@, mask, v)]
<1>1. /\ size \in Nat /\ \A x \in Nat : x < size <=> Part(x) < n
  BY ArrayEnds
<1>2. IntIf(v, kFullMask, kEmptyMask) = IF v THEN kFullMask ELSE {}
  BY IntIfSelects DEF Words, kEmptyMask
<1>3. /\ parts[0] \in Words /\ 0 \in 0 .. n - 1
      /\ SetWordMasked(parts[0], mask, v) \in Words
      /\ \A b \in kFullMask : b \in SetWordMasked(parts[0], mask, v) <=> IF b \in mask THEN v ELSE b \in parts[0]
  BY <1>2 DEF SetWordMasked, Words, ArrayOf
<1>4. new \in ArrayOf(n) /\ new[0] = SetWordMasked(parts[0], mask, v) /\ \A p \in 1 .. n - 1 : new[p] = parts[p]
  BY <1>3 DEF ArrayOf
<1> HIDE DEF new, size
<1>5. ASSUME NEW i \in 0 .. size - 1
      PROVE  Get(new, i) <=> IF i \in mask THEN v ELSE Get(parts, i)
  <2>1. i \in Nat /\ Part(i) < n /\ Part(i) \in Nat /\ Bit(i) \in kFullMask /\ i = kBitsCount * Part(i) + Bit(i)
    BY <1>1, Division DEF kFullMask
  <2>2. Get(new, i) <=> Bit(i) \in new[Part(i)]
    BY <1>4, <2>1, GetReads
  <2>3. Get(parts, i) <=> Bit(i) \in parts[Part(i)]
    BY <2>1, GetReads
  <2>4. CASE Part(i) = 0
    <3>1. i = Bit(i)
      BY <2>1, <2>4, WordAssumption DEF kFullMask
    <3> QED BY <1>3, <1>4, <2>1, <2>2, <2>3, <2>4, <3>1
  <2>5. CASE Part(i) # 0
    <3>1. i \notin mask
      <4>1. Part(0) = 0
        BY WordAssumption DEF Part
      <4>2. kBitsCount * Part(i) >= kBitsCount * 0 + kBitsCount
        BY <2>1, <2>5, Multiples
      <4>3. kBitsCount * 0 = 0 /\ kBitsCount * Part(i) \in Nat
        BY <2>1, WordAssumption
      <4>4. i >= kBitsCount
        BY <2>1, <4>2, <4>3, WordAssumption DEF kFullMask
      <4> QED BY <4>4, WordAssumption DEF Words, kFullMask
    <3>2. new[Part(i)] = parts[Part(i)]
      BY <1>4, <2>1, <2>5
    <3> QED BY <2>2, <2>3, <3>1, <3>2
  <2> QED BY <2>4, <2>5
<1>6. mask \subseteq 0 .. size - 1
  <2>1. ASSUME NEW b \in mask PROVE b \in Nat /\ b < size
    <3>1. b \in Nat /\ b < kBitsCount
      BY WordAssumption DEF Words, kFullMask
    <3>2. Part(b) = 0
      BY <3>1, WordAssumption DEF Part
    <3> QED BY <1>1, <3>1, <3>2
  <2> QED BY <1>1, <2>1
<1>7. BitsOf(new, size) = {i \in 0 .. size - 1 : IF i \in mask THEN v ELSE Get(parts, i)}
  BY <1>5 DEF BitsOf
<1>8. BitsOf(new, size) = Assigned(BitsOf(parts, size), mask, v)
  <2>1. CASE v
    BY <1>6, <1>7, <2>1 DEF BitsOf, Assigned
  <2>2. CASE ~v
    BY <1>7, <2>2 DEF BitsOf, Assigned
  <2> QED BY <2>1, <2>2
<1> QED BY <1>4, <1>8 DEF new, size

-----------------------------------------------------------------------------
(* The place of a bit in the array.                                        *)

Place(p, b) == p * kBitsCount + b

\* A bit of a word has its place in the array.
LEMMA PlaceParts ==
  ASSUME NEW p \in Nat, NEW b \in 0 .. kBitsCount - 1
  PROVE  Place(p, b) \in Nat /\ Part(Place(p, b)) = p /\ Bit(Place(p, b)) = b
<1> DEFINE x == Place(p, b)
           first == p * kBitsCount
<1>1. first \in Nat /\ kBitsCount \in Nat \ {0} /\ x = first + b
  BY WordAssumption DEF Place
<1>2. Part(first) = p /\ Bit(first) = 0 /\ \A y \in Nat : y < first <=> Part(y) < p
  BY ArrayEnds
<1>3. Part(first + kBitsCount) = p + 1 /\ \A y \in Nat : y < first + kBitsCount <=> Part(y) < p + 1
  <2>1. (p + 1) * kBitsCount = first + kBitsCount
    BY WordAssumption
  <2>2. Part((p + 1) * kBitsCount) = p + 1 /\ \A y \in Nat : y < (p + 1) * kBitsCount <=> Part(y) < p + 1
    BY ArrayEnds
  <2> QED BY <2>1, <2>2
<1> HIDE DEF first, x
<1>4. x \in Nat /\ ~(x < first) /\ x < first + kBitsCount
  BY <1>1
<1>5. Part(x) \in Nat /\ Bit(x) \in 0 .. kBitsCount - 1 /\ x = kBitsCount * Part(x) + Bit(x)
  BY <1>4, Division
<1>6. Part(x) = p
  BY <1>2, <1>3, <1>4, <1>5
<1>7. kBitsCount * Part(x) = first
  BY <1>6, WordAssumption DEF first
<1>8. Bit(x) = b
  BY <1>1, <1>5, <1>7
<1> QED BY <1>4, <1>6, <1>8 DEF x

\* Every index is the place of its bit in its word.
LEMMA PartsPlace ==
  ASSUME NEW x \in Nat
  PROVE  x = Place(Part(x), Bit(x))
<1>1. Part(x) \in Nat /\ x = kBitsCount * Part(x) + Bit(x)
  BY Division
<1>2. kBitsCount * Part(x) = Part(x) * kBitsCount
  BY <1>1, WordAssumption
<1> QED BY <1>1, <1>2 DEF Place
=============================================================================
