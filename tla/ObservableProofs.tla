-------------------------- MODULE ObservableProofs --------------------------
(***************************************************************************)
(* Proofs about Observable, for every finite set of listeners, and for     *)
(* callbacks that change the subscriptions as well as for ones that do     *)
(* not.                                                                    *)
(***************************************************************************)
EXTENDS Observable, FiniteSetTheorems, SequenceTheorems, TLAPS

\* A function on 1 .. n is a sequence of length n.
LEMMA FunctionIsSeq ==
  ASSUME NEW n \in Nat, NEW S, NEW s, s = [i \in 1 .. n |-> s[i]],
         \A i \in 1 .. n : s[i] \in S
  PROVE  s \in Seq(S) /\ Len(s) = n
<1>1. s \in [1 .. n -> S]
  OBVIOUS
<1>2. s \in Seq(S)
  BY <1>1, SeqDef
<1>3. Len(s) \in Nat /\ 1 .. Len(s) = 1 .. n
  BY <1>1, <1>2, LenProperties
<1> QED
  BY <1>2, <1>3

\* In a sorted vector lower_bound finds where a listener is or belongs.
LEMMA LowerBoundSplits ==
  ASSUME TypeOK, Elements, SortedWithoutDuplicates, NEW l \in Listeners
  PROVE  /\ LowerBound(l) \in 1 .. size + 1
         /\ \A i \in 1 .. size : buffer[i] < l <=> i < LowerBound(l)
<1> DEFINE Below == {i \in 1 .. size : buffer[i] < l}
           k == Cardinality(Below)
<1>1. size \in Nat /\ \A i \in 1 .. size : buffer[i] \in Nat
  <2>1. Len(buffer) \in Nat
    BY LenProperties DEF TypeOK
  <2>2. size \in Nat
    BY <2>1 DEF TypeOK
  <2> QED
    BY <2>2, ObservableAssumption DEF Elements
<1>2. l \in Nat
  BY ObservableAssumption
<1>3. IsFiniteSet(1 .. size) /\ Cardinality(1 .. size) = size
  BY <1>1, FS_Interval
<1>4. Below \in SUBSET (1 .. size)
  OBVIOUS
<1>5. IsFiniteSet(Below) /\ k \in Nat /\ k <= size
  BY <1>3, <1>4, FS_Subset, FS_CardinalityType
\* Everything before an element below l is below l too, so Below is 1 .. k.
<1>6. \A j \in Below : j <= k
  <2> TAKE j \in Below
  <2>1. (1 .. j) \in SUBSET Below
    BY <1>1, <1>2 DEF SortedWithoutDuplicates
  <2>2. Cardinality(1 .. j) = j
    BY <1>1, FS_Interval
  <2> QED
    BY <1>5, <2>1, <2>2, FS_Subset
<1>7. Below = 1 .. k
  <2>1. Below \in SUBSET (1 .. k)
    BY <1>1, <1>5, <1>6
  <2>2. IsFiniteSet(1 .. k) /\ Cardinality(1 .. k) = k
    BY <1>5, FS_Interval
  <2> QED
    BY <2>1, <2>2, FS_Subset
<1> QED
  BY <1>1, <1>5, <1>7 DEF LowerBound

-----------------------------------------------------------------------------
\* The parts of the invariant about the vector itself.
VectorInv ==
  /\ buffer \in Seq(Listeners \cup {Unused})
  /\ size \in 0 .. Len(buffer)
  /\ Elements
  /\ SortedWithoutDuplicates

\* Insertion where lower_bound points, of a listener that was not found, keeps
\* the vector sorted; a walk over the buffer stays over listeners, or notices
\* that the buffer was replaced by a larger one.
LEMMA InsertKeepsOrder ==
  ASSUME IndInv, NEW l \in Listeners, ~Found(l), InsertAt(LowerBound(l), l)
  PROVE  /\ VectorInv'
         /\ Len(buffer') >= Len(buffer)
         /\ Len(buffer') = Len(buffer) => \A i \in 1 .. Len(buffer) :
              buffer[i] \in Listeners => buffer'[i] \in Listeners
<1> DEFINE p == LowerBound(l)
           capacity == IF size = Len(buffer) THEN Grown(size) ELSE Len(buffer)
           old == [i \in 1 .. capacity |-> IF i <= Len(buffer) THEN buffer[i] ELSE Unused]
<1>1. /\ Len(buffer) \in Nat /\ size \in Nat /\ size <= Len(buffer)
      /\ \A i \in 1 .. Len(buffer) : buffer[i] \in Listeners \cup {Unused}
  BY LenProperties DEF IndInv, TypeOK
<1>2. /\ p \in 1 .. size + 1
      /\ \A i \in 1 .. size : buffer[i] < l <=> i < p
  BY LowerBoundSplits DEF IndInv
<1>3. capacity \in Nat /\ size + 1 <= capacity /\ Len(buffer) <= capacity
  BY <1>1 DEF Grown
<1>4. /\ buffer' = [i \in 1 .. capacity |->
                      IF i = p THEN l
                      ELSE IF p < i /\ i <= size + 1 THEN old[i - 1] ELSE old[i]]
      /\ size' = size + 1
  BY DEF InsertAt
<1>5. \A i \in 1 .. capacity : buffer'[i] = IF i = p THEN l
                      ELSE IF p < i /\ i <= size + 1 THEN buffer[i - 1]
                      ELSE IF i <= Len(buffer) THEN buffer[i] ELSE Unused
  BY <1>1, <1>2, <1>3, <1>4
<1>6. \A i \in 1 .. capacity : buffer'[i] \in Listeners \cup {Unused}
  BY <1>1, <1>2, <1>3, <1>5
<1> HIDE DEF capacity, old
<1>7. buffer' \in Seq(Listeners \cup {Unused}) /\ Len(buffer') = capacity
  BY <1>3, <1>4, <1>6, FunctionIsSeq
<1>8. Elements'
  BY <1>1, <1>2, <1>3, <1>4, <1>5 DEF IndInv, Elements
<1>9. SortedWithoutDuplicates'
  <2>1. \A i \in 1 .. size : buffer[i] \in Nat /\ l \in Nat
    BY ObservableAssumption DEF IndInv, Elements
  <2>2. p <= size => l < buffer[p]
    BY <1>2, <2>1 DEF Found
  <2>3. \A i \in p .. size : l < buffer[i]
    BY <1>1, <1>2, <2>1, <2>2 DEF IndInv, SortedWithoutDuplicates
  <2>4. \A i \in 1 .. p - 1 : buffer[i] < l /\ buffer'[i] = buffer[i]
    BY <1>1, <1>2, <1>3, <1>5
  <2>5. \A i \in p + 1 .. size + 1 : l < buffer[i - 1] /\ buffer'[i] = buffer[i - 1]
    BY <1>1, <1>2, <1>3, <1>5, <2>3
  <2>6. buffer'[p] = l
    BY <1>1, <1>2, <1>3, <1>5
  <2>7. ASSUME NEW i \in 1 .. size + 1, NEW j \in 1 .. size + 1, i < j
        PROVE  buffer'[i] < buffer'[j]
    <3>1. CASE j < p
      BY <1>1, <1>2, <2>4, <2>7, <3>1 DEF IndInv, SortedWithoutDuplicates
    <3>2. CASE j = p
      BY <1>1, <1>2, <2>4, <2>6, <2>7, <3>2
    <3>3. CASE p < j /\ i = p
      BY <1>1, <1>2, <2>5, <2>6, <2>7, <3>3
    <3>4. CASE p < j /\ p < i
      BY <1>1, <1>2, <2>5, <2>7, <3>4 DEF IndInv, SortedWithoutDuplicates
    <3>5. CASE p < j /\ i < p
      <4>1. i \in 1 .. p - 1 /\ j \in p + 1 .. size + 1 /\ i \in 1 .. size /\ j - 1 \in 1 .. size
        BY <1>1, <1>2, <2>7, <3>5
      <4> QED
        BY <2>1, <2>4, <2>5, <4>1
    <3> QED
      BY <1>1, <1>2, <3>1, <3>2, <3>3, <3>4, <3>5
  <2> QED
    BY <1>4, <2>7 DEF SortedWithoutDuplicates
<1>10. capacity = Len(buffer) => \A i \in 1 .. Len(buffer) :
         buffer[i] \in Listeners => buffer'[i] \in Listeners
  BY <1>1, <1>2, <1>3, <1>5 DEF IndInv, Elements
<1>11. size' \in 0 .. Len(buffer')
  BY <1>1, <1>3, <1>4, <1>7
<1> QED
  BY <1>3, <1>7, <1>8, <1>9, <1>10, <1>11 DEF VectorInv

\* Erasing what lower_bound found keeps the order, and every slot a listener.
LEMMA EraseKeepsOrder ==
  ASSUME IndInv, NEW l \in Listeners, Found(l), EraseAt(LowerBound(l))
  PROVE  /\ VectorInv'
         /\ Len(buffer') = Len(buffer)
         /\ \A i \in 1 .. Len(buffer) :
              buffer[i] \in Listeners => buffer'[i] \in Listeners
<1> DEFINE p == LowerBound(l)
<1>1. /\ Len(buffer) \in Nat /\ size \in Nat /\ size <= Len(buffer)
      /\ \A i \in 1 .. Len(buffer) : buffer[i] \in Listeners \cup {Unused}
  BY LenProperties DEF IndInv, TypeOK
<1>2. p \in 1 .. size
  BY <1>1, LowerBoundSplits DEF IndInv, Found
<1>3. /\ buffer' = [i \in 1 .. Len(buffer) |->
                      IF p <= i /\ i < size THEN buffer[i + 1] ELSE buffer[i]]
      /\ size' = size - 1
  BY DEF EraseAt
<1> HIDE DEF p
<1>4. \A i \in 1 .. Len(buffer) : buffer'[i] \in Listeners \cup {Unused}
  BY <1>1, <1>2, <1>3
<1>5. buffer' \in Seq(Listeners \cup {Unused}) /\ Len(buffer') = Len(buffer)
  BY <1>1, <1>3, <1>4, FunctionIsSeq
<1>6. Elements'
  BY <1>1, <1>2, <1>3 DEF IndInv, Elements
<1>7. SortedWithoutDuplicates'
  BY <1>1, <1>2, <1>3 DEF IndInv, SortedWithoutDuplicates
<1>8. \A i \in 1 .. Len(buffer) : buffer[i] \in Listeners => buffer'[i] \in Listeners
  BY <1>1, <1>2, <1>3 DEF IndInv, Elements
<1> QED
  BY <1>1, <1>2, <1>3, <1>5, <1>6, <1>7, <1>8 DEF VectorInv

-----------------------------------------------------------------------------
LEMMA IndInvInit == Init => IndInv
<1> SUFFICES ASSUME Init PROVE IndInv
  OBVIOUS
<1>1. buffer \in Seq(Listeners \cup {Unused}) /\ Len(buffer) = 0 /\ heard \in Seq(Listeners)
  BY EmptySeq DEF Init
<1> QED
  BY <1>1 DEF Init, IndInv, TypeOK, Elements, SortedWithoutDuplicates, WalkInv

LEMMA IndInvStep == IndInv /\ [Next]_vars => IndInv'
<1> SUFFICES ASSUME IndInv, [Next]_vars PROVE IndInv'
  OBVIOUS
<1>a. Len(buffer) \in Nat
  BY LenProperties DEF IndInv, TypeOK
<1>1. ASSUME NEW l \in Listeners, Subscribe(l) PROVE IndInv'
  <2>1. CASE Found(l)
    BY <1>1, <2>1 DEF Subscribe, walk, IndInv, TypeOK, Elements, SortedWithoutDuplicates, WalkInv
  <2>2. CASE ~Found(l)
    <3>1. InsertAt(LowerBound(l), l) /\ result' = "ok" /\ UNCHANGED walk
      BY <1>1, <2>2 DEF Subscribe
    <3>2. /\ VectorInv'
          /\ Len(buffer') >= Len(buffer)
          /\ Len(buffer') = Len(buffer) => \A i \in 1 .. Len(buffer) :
               buffer[i] \in Listeners => buffer'[i] \in Listeners
      BY <2>2, <3>1, InsertKeepsOrder
    <3>3. Len(buffer') \in Nat
      BY <3>2, LenProperties DEF VectorInv
    <3>4. WalkInv'
      BY <1>a, <3>1, <3>2, <3>3 DEF IndInv, TypeOK, WalkInv, walk
    <3> QED
      BY <3>1, <3>2, <3>4 DEF IndInv, TypeOK, VectorInv, walk
  <2> QED
    BY <2>1, <2>2
<1>2. ASSUME NEW l \in Listeners, SubscribeOutOfMemory(l) PROVE IndInv'
  BY <1>2 DEF SubscribeOutOfMemory, walk, IndInv, TypeOK, Elements, SortedWithoutDuplicates, WalkInv
<1>3. ASSUME NEW l \in Listeners, Unsubscribe(l) PROVE IndInv'
  <2>1. /\ audience' \in SUBSET Listeners
        /\ UNCHANGED <<event, it, end, walked, heard>>
        /\ result' \in {"ok", "error"}
    BY <1>3 DEF Unsubscribe, IndInv, TypeOK
  <2>2. CASE Found(l)
    <3>1. EraseAt(LowerBound(l))
      BY <1>3, <2>2 DEF Unsubscribe
    <3>2. /\ VectorInv'
          /\ Len(buffer') = Len(buffer)
          /\ \A i \in 1 .. Len(buffer) : buffer[i] \in Listeners => buffer'[i] \in Listeners
      BY <2>2, <3>1, EraseKeepsOrder
    <3>3. WalkInv'
      BY <1>a, <2>1, <3>2 DEF IndInv, TypeOK, WalkInv
    <3> QED
      BY <2>1, <3>2, <3>3 DEF IndInv, TypeOK, VectorInv
  <2>3. CASE ~Found(l)
    BY <1>3, <2>1, <2>3 DEF Unsubscribe, IndInv, TypeOK, Elements, SortedWithoutDuplicates, WalkInv
  <2> QED
    BY <2>2, <2>3
<1>4. CASE StartEvent
  <2>1. Subscribed \in SUBSET Listeners
    BY DEF IndInv, Elements, Subscribed
  <2>2. heard' \in Seq(Listeners)
    BY <1>4, EmptySeq DEF StartEvent
  <2> QED
    BY <1>4, <1>a, <2>1, <2>2
    DEF StartEvent, IndInv, TypeOK, Elements, SortedWithoutDuplicates, WalkInv
<1>5. CASE CallListener
  <2>1. CASE walked # Len(buffer)
    BY <1>5, <2>1 DEF CallListener, IndInv, TypeOK, Elements, SortedWithoutDuplicates, WalkInv
  <2>2. CASE walked = Len(buffer)
    <3>1. it < end /\ it + 1 \in 1 .. end /\ buffer[it + 1] \in Listeners
      BY <1>5, <2>2 DEF CallListener, IndInv, TypeOK, WalkInv
    <3>2. heard' \in Seq(Listeners)
      BY <1>5, <2>2, <3>1, AppendProperties DEF CallListener, IndInv, TypeOK
    <3> QED
      BY <1>5, <2>2, <3>1, <3>2
      DEF CallListener, IndInv, TypeOK, Elements, SortedWithoutDuplicates, WalkInv
  <2> QED
    BY <2>1, <2>2
<1>6. CASE CallbackReturns
  BY <1>6 DEF CallbackReturns, IndInv, TypeOK, Elements, SortedWithoutDuplicates, WalkInv
<1>7. CASE CallbackThrows
  BY <1>7 DEF CallbackThrows, IndInv, TypeOK, Elements, SortedWithoutDuplicates, WalkInv
<1>8. CASE EndEvent
  BY <1>8 DEF EndEvent, IndInv, TypeOK, Elements, SortedWithoutDuplicates, WalkInv
<1>9. CASE UNCHANGED vars
  BY <1>9 DEF vars, IndInv, TypeOK, Elements, SortedWithoutDuplicates, WalkInv
<1> QED
  BY <1>1, <1>2, <1>3, <1>4, <1>5, <1>6, <1>7, <1>8, <1>9 DEF Next

\* The inductive invariant holds of every behaviour, with callbacks that call
\* back into the observable and without.
THEOREM IndInvHolds == Spec => []IndInv
BY IndInvInit, IndInvStep, PTL DEF Spec

\* Every variable always has its type.
THEOREM TypeCorrect == Spec => []TypeOK
<1>1. IndInv => TypeOK
  BY DEF IndInv
<1> QED
  BY <1>1, IndInvHolds, PTL

\* The vector is always strictly sorted: no listener is ever in it twice, and
\* lower_bound may rely on it even in a call from a callback.
THEOREM AlwaysSorted == Spec => []SortedWithoutDuplicates
<1>1. IndInv => SortedWithoutDuplicates
  BY DEF IndInv
<1> QED
  BY <1>1, IndInvHolds, PTL
-----------------------------------------------------------------------------
(* The vector as a set of listeners.                                       *)

LEMMA Members == \A x : x \in Subscribed <=> \E i \in 1 .. size : buffer[i] = x
BY DEF Subscribed

LEMMA Slots ==
  ASSUME IndInv
  PROVE  /\ Len(buffer) \in Nat /\ size \in Nat /\ size <= Len(buffer)
         /\ \A i \in 1 .. size : buffer[i] \in Nat
<1>1. Len(buffer) \in Nat
  BY LenProperties DEF IndInv, TypeOK
<1>2. size \in Nat /\ size <= Len(buffer)
  BY <1>1 DEF IndInv, TypeOK
<1>3. \A i \in 1 .. size : buffer[i] \in Nat
  BY ObservableAssumption DEF IndInv, Elements
<1> QED BY <1>1, <1>2, <1>3

LEMMA FoundIsMember ==
  ASSUME IndInv, NEW l \in Listeners
  PROVE  Found(l) <=> l \in Subscribed
<1> DEFINE p == LowerBound(l)
<1>1. /\ size \in Nat /\ l \in Nat /\ \A i \in 1 .. size : buffer[i] \in Nat
  BY Slots, ObservableAssumption
<1>2. p \in 1 .. size + 1 /\ \A i \in 1 .. size : buffer[i] < l <=> i < p
  BY LowerBoundSplits DEF IndInv
<1>3. Found(l) <=> p <= size /\ buffer[p] = l
  BY DEF Found
<1> HIDE DEF p
<1>4. ASSUME NEW i \in 1 .. size, buffer[i] = l PROVE p <= size /\ buffer[p] = l
  <2>1. p <= i
    BY <1>1, <1>2, <1>4
  <2>2. CASE p = i
    BY <1>4, <2>2
  <2>3. CASE p < i
    <3>1. p \in 1 .. size /\ buffer[p] < buffer[i]
      BY <1>1, <1>2, <2>3 DEF IndInv, SortedWithoutDuplicates
    <3> QED BY <1>1, <1>2, <1>4, <3>1
  <2> QED BY <1>1, <1>2, <2>1, <2>2, <2>3
<1>5. p <= size => p \in 1 .. size
  BY <1>1, <1>2
<1> QED BY <1>3, <1>4, <1>5, Members

\* Insertion adds its listener to the set and loses no other.
LEMMA InsertAdds ==
  ASSUME IndInv, NEW l \in Listeners, InsertAt(LowerBound(l), l)
  PROVE  Subscribed' = Subscribed \cup {l}
<1> DEFINE p == LowerBound(l)
           capacity == IF size = Len(buffer) THEN Grown(size) ELSE Len(buffer)
           old == [i \in 1 .. capacity |-> IF i <= Len(buffer) THEN buffer[i] ELSE Unused]
<1>1. Len(buffer) \in Nat /\ size \in Nat /\ size <= Len(buffer)
  BY Slots
<1>2. p \in 1 .. size + 1
  BY LowerBoundSplits DEF IndInv
<1>3. capacity \in Nat /\ size + 1 <= capacity
  BY <1>1 DEF Grown
<1>4. /\ buffer' = [i \in 1 .. capacity |->
                      IF i = p THEN l
                      ELSE IF p < i /\ i <= size + 1 THEN old[i - 1] ELSE old[i]]
      /\ size' = size + 1
  BY DEF InsertAt
<1>5. /\ buffer'[p] = l
      /\ \A i \in 1 .. size : buffer[i] = buffer'[IF p <= i THEN i + 1 ELSE i]
      /\ \A i \in 1 .. size + 1 : i # p => buffer'[i] = buffer[IF p < i THEN i - 1 ELSE i]
  BY <1>1, <1>2, <1>3, <1>4
<1> HIDE DEF p, capacity, old
<1>6. ASSUME NEW x PROVE x \in Subscribed' <=> x \in Subscribed \/ x = l
  <2>1. ASSUME NEW i \in 1 .. size, buffer[i] = x PROVE \E j \in 1 .. size' : buffer'[j] = x
    <3>1. (IF p <= i THEN i + 1 ELSE i) \in 1 .. size'
      BY <1>1, <1>2, <1>4
    <3> QED BY <1>5, <2>1, <3>1
  <2>2. \E j \in 1 .. size' : buffer'[j] = l
    BY <1>2, <1>4, <1>5
  <2>3. ASSUME NEW j \in 1 .. size', buffer'[j] = x, x # l PROVE \E i \in 1 .. size : buffer[i] = x
    <3>1. j \in 1 .. size + 1 /\ j # p
      BY <1>4, <1>5, <2>3
    <3>2. (IF p < j THEN j - 1 ELSE j) \in 1 .. size
      BY <1>1, <1>2, <3>1
    <3> QED BY <1>5, <2>3, <3>1, <3>2
  <2>4. x \in Subscribed <=> \E i \in 1 .. size : buffer[i] = x
    BY Members
  <2>5. x \in Subscribed' <=> \E i \in 1 .. size' : buffer'[i] = x
    BY DEF Subscribed
  <2> QED BY <2>1, <2>2, <2>3, <2>4, <2>5
<1> QED BY <1>6

\* Erasure removes the listener found, and no other.
LEMMA EraseRemoves ==
  ASSUME IndInv, NEW l \in Listeners, Found(l), EraseAt(LowerBound(l))
  PROVE  Subscribed' = Subscribed \ {l}
<1> DEFINE p == LowerBound(l)
<1>1. Len(buffer) \in Nat /\ size \in Nat /\ size <= Len(buffer) /\ \A i \in 1 .. size : buffer[i] \in Nat
  BY Slots
<1>2. p \in 1 .. size /\ buffer[p] = l
  BY <1>1, LowerBoundSplits DEF IndInv, Found
<1>3. /\ buffer' = [i \in 1 .. Len(buffer) |->
                      IF p <= i /\ i < size THEN buffer[i + 1] ELSE buffer[i]]
      /\ size' = size - 1
  BY DEF EraseAt
<1>4. /\ \A i \in 1 .. size : i # p => buffer[i] = buffer'[IF p < i THEN i - 1 ELSE i]
      /\ \A i \in 1 .. size - 1 : buffer'[i] = buffer[IF p <= i THEN i + 1 ELSE i]
  BY <1>1, <1>2, <1>3
<1> HIDE DEF p
<1>5. \A i \in 1 .. size : buffer[i] = l => i = p
  BY <1>1, <1>2 DEF IndInv, SortedWithoutDuplicates
<1>6. ASSUME NEW x PROVE x \in Subscribed' <=> x \in Subscribed /\ x # l
  <2>1. ASSUME NEW i \in 1 .. size, buffer[i] = x, x # l PROVE \E j \in 1 .. size' : buffer'[j] = x
    <3>1. i # p
      BY <1>2, <2>1
    <3>2. (IF p < i THEN i - 1 ELSE i) \in 1 .. size'
      BY <1>1, <1>2, <1>3, <3>1
    <3> QED BY <1>4, <2>1, <3>1, <3>2
  <2>2. ASSUME NEW j \in 1 .. size', buffer'[j] = x
        PROVE  x # l /\ \E i \in 1 .. size : buffer[i] = x
    <3>1. j \in 1 .. size - 1
      BY <1>3
    <3>2. (IF p <= j THEN j + 1 ELSE j) \in 1 .. size /\ (IF p <= j THEN j + 1 ELSE j) # p
      BY <1>1, <1>2, <3>1
    <3> QED BY <1>4, <1>5, <2>2, <3>1, <3>2
  <2>3. x \in Subscribed <=> \E i \in 1 .. size : buffer[i] = x
    BY Members
  <2>4. x \in Subscribed' <=> \E i \in 1 .. size' : buffer'[i] = x
    BY DEF Subscribed
  <2> QED BY <2>1, <2>2, <2>3, <2>4
<1> QED BY <1>6
-----------------------------------------------------------------------------
(* Events, when callbacks leave the vector alone.                          *)

\* The buffer under the walk is the one it started on, and who heard of the event so far are
\* the first ones in it.
Undisturbed ==
  /\ event # "invalid"
  /\ event \in {"walking", "calling"} =>
       /\ walked = Len(buffer) /\ end = size /\ audience = Subscribed
       /\ Len(heard) = IF event = "walking" THEN it ELSE it + 1
       /\ \A n \in 1 .. Len(heard) : heard[n] = buffer[n]
  /\ event = "done" => \A l \in audience : \E n \in 1 .. Len(heard) : heard[n] = l

HeardInOrder == \A m, n \in 1 .. Len(heard) : m < n => heard[m] < heard[n]

WalkedInOrder == IndInv /\ Undisturbed /\ HeardInOrder

\* What f is called with is the least listener of the audience that it was not called
\* with yet.
LEMMA CallsTheNext ==
  ASSUME WalkedInOrder, CallListener
  PROVE  /\ event' = "calling" /\ it < end
         /\ Len(heard) = it /\ heard' = Append(heard, buffer[it + 1])
         /\ it + 1 \in 1 .. size /\ buffer[it + 1] \in audience
         /\ Set!Tell(buffer[it + 1])
<1> USE DEF WalkedInOrder
<1>1. /\ event = "walking" /\ it # end /\ walked = Len(buffer) /\ end = size
      /\ Len(heard) = it /\ audience = Subscribed
      /\ \A n \in 1 .. Len(heard) : heard[n] = buffer[n]
  BY DEF CallListener, Undisturbed
<1>2. it \in Nat /\ end \in Nat /\ it < end
  BY <1>1 DEF IndInv, TypeOK, WalkInv
<1>3. it + 1 \in 1 .. size
  BY <1>1, <1>2
<1>4. /\ event' = "calling" /\ heard' = Append(heard, buffer[it + 1])
      /\ UNCHANGED <<buffer, size, audience, result>>
  BY <1>1 DEF CallListener
<1>5. buffer[it + 1] \in audience
  BY <1>1, <1>3, Members
<1>6. DOMAIN heard = 1 .. it
  BY <1>1, LenProperties DEF IndInv, TypeOK
<1>7. \A n \in 1 .. it : heard[n] < buffer[it + 1]
  <2>1. size \in Nat
    BY Slots
  <2>2. \A n \in 1 .. it : n \in 1 .. size /\ n < it + 1
    BY <1>2, <1>3, <2>1
  <2> QED BY <1>1, <1>3, <2>2 DEF IndInv, SortedWithoutDuplicates
<1>8. ASSUME NEW m \in audience, m < buffer[it + 1] PROVE \E n \in 1 .. it : heard[n] = m
  <2>1. PICK n \in 1 .. size : buffer[n] = m
    BY <1>1, Members
  <2>2. buffer[n] \in Nat /\ buffer[it + 1] \in Nat
    BY <1>3, Slots
  <2>3. ~(it + 1 <= n)
    <3>1. CASE it + 1 = n
      BY <1>8, <2>1, <2>2, <3>1
    <3>2. CASE it + 1 < n
      <4>1. buffer[it + 1] < buffer[n]
        BY <1>3, <3>2 DEF IndInv, SortedWithoutDuplicates
      <4> QED BY <1>8, <2>1, <2>2, <4>1
    <3> QED BY <1>2, <3>1, <3>2
  <2>4. n \in 1 .. it
    BY <1>2, <2>3
  <2> QED BY <1>1, <2>1, <2>4
<1>9. Subscribed' = Subscribed
  BY <1>4 DEF Subscribed
<1> QED BY <1>1, <1>2, <1>3, <1>4, <1>5, <1>6, <1>7, <1>8, <1>9 DEF Set!Tell
LEMMA WalkedInOrderHolds ==
  ASSUME Reentrant = FALSE
  PROVE  Spec => []WalkedInOrder
<1>1. Init => WalkedInOrder
  BY IndInvInit DEF Init, WalkedInOrder, Undisturbed, HeardInOrder
<1>2. WalkedInOrder /\ [Next]_vars => WalkedInOrder'
  <2> SUFFICES ASSUME WalkedInOrder, [Next]_vars PROVE Undisturbed' /\ HeardInOrder'
    BY IndInvStep DEF WalkedInOrder
  <2> USE DEF WalkedInOrder
  <2>1. ASSUME NEW l \in Listeners, Subscribe(l) \/ SubscribeOutOfMemory(l) \/ Unsubscribe(l)
        PROVE  Undisturbed' /\ HeardInOrder'
    <3>1. event \in {"none", "done"} /\ UNCHANGED <<event, heard, audience>>
      BY <2>1 DEF Subscribe, SubscribeOutOfMemory, Unsubscribe, ClientRuns, walk
    <3> QED BY <3>1 DEF Undisturbed, HeardInOrder
  <2>2. CASE StartEvent
    <3>1. /\ event' = "walking" /\ it' = 0 /\ end' = size /\ walked' = Len(buffer)
          /\ heard' = <<>> /\ audience' = Subscribed /\ UNCHANGED <<buffer, size>>
      BY <2>2 DEF StartEvent
    <3>2. Len(heard') = 0
      BY <3>1
    <3>3. Subscribed' = Subscribed
      BY <3>1 DEF Subscribed
    <3> QED BY <3>1, <3>2, <3>3 DEF Undisturbed, HeardInOrder
  <2>3. CASE CallListener
    <3> DEFINE next == buffer[it + 1]
    <3>1. /\ event' = "calling" /\ Len(heard) = it /\ heard' = Append(heard, next)
          /\ it + 1 \in 1 .. size /\ next \in audience
          /\ Set!Tell(next)
      BY <2>3, CallsTheNext
    <3>2. /\ UNCHANGED <<buffer, size, it, end, walked, audience>> /\ Subscribed' = Subscribed
          /\ event = "walking"
      BY <2>3 DEF CallListener, Subscribed
    <3>3. /\ heard \in Seq(Listeners) /\ it \in Nat /\ next \in Listeners
      BY <3>1 DEF IndInv, TypeOK
    <3>4. DOMAIN heard = 1 .. it /\ \A n \in 1 .. it : heard[n] < next
      BY <3>1, <3>3, LenProperties DEF Set!Tell
    <3> HIDE DEF next
    <3>5. /\ Len(heard') = it + 1 /\ heard'[it + 1] = next
          /\ \A n \in 1 .. it : heard'[n] = heard[n]
      BY <3>1, <3>3, AppendProperties
    <3>6. Undisturbed'
      <4>1. \A n \in 1 .. it + 1 : heard'[n] = buffer[n]
        BY <3>1, <3>2, <3>3, <3>5 DEF Undisturbed, next
      <4> QED BY <3>1, <3>2, <3>5, <4>1 DEF Undisturbed
    <3>7. HeardInOrder'
      BY <3>1, <3>3, <3>4, <3>5 DEF HeardInOrder
    <3> QED BY <3>6, <3>7
  <2>4. CASE CallbackReturns
    <3>1. /\ event = "calling" /\ event' = "walking" /\ it' = it + 1
          /\ UNCHANGED <<buffer, size, end, walked, heard, audience>>
      BY <2>4 DEF CallbackReturns
    <3>2. Subscribed' = Subscribed
      BY <3>1 DEF Subscribed
    <3> QED BY <3>1, <3>2 DEF Undisturbed, HeardInOrder
  <2>5. CASE CallbackThrows
    BY <2>5 DEF CallbackThrows, Undisturbed, HeardInOrder
  <2>6. CASE EndEvent
    <3>1. /\ event = "walking" /\ it = end /\ event' = "done"
          /\ UNCHANGED <<buffer, size, heard, audience>>
      BY <2>6 DEF EndEvent
    <3>2. ASSUME NEW l \in audience PROVE \E n \in 1 .. Len(heard) : heard[n] = l
      <4>1. /\ end = size /\ audience = Subscribed /\ Len(heard) = it
            /\ \A n \in 1 .. Len(heard) : heard[n] = buffer[n]
        BY <3>1 DEF Undisturbed
      <4>2. PICK n \in 1 .. size : buffer[n] = l
        BY <4>1, Members
      <4> QED BY <3>1, <4>1, <4>2
    <3> QED BY <3>1, <3>2 DEF Undisturbed, HeardInOrder
  <2>7. CASE UNCHANGED vars
    <3>1. Subscribed' = Subscribed
      BY <2>7 DEF vars, Subscribed
    <3> QED BY <2>7, <3>1 DEF vars, Undisturbed, HeardInOrder
  <2> QED BY <2>1, <2>2, <2>3, <2>4, <2>5, <2>6, <2>7 DEF Next
<1> QED BY <1>1, <1>2, PTL DEF Spec

\* When an event has gone through, f was called exactly once with each listener that
\* was subscribed from its beginning to its end, provided that callbacks neither subscribe nor
\* unsubscribe.
THEOREM EveryoneHearsOnce ==
  ASSUME Reentrant = FALSE
  PROVE  Spec => []NotifiedExactlyOnce
<1>1. WalkedInOrder => NotifiedExactlyOnce
  <2> SUFFICES ASSUME WalkedInOrder, event = "done", NEW l \in audience
               PROVE  Cardinality({i \in DOMAIN heard : heard[i] = l}) = 1
    BY DEF NotifiedExactlyOnce
  <2>1. /\ Len(heard) \in Nat /\ DOMAIN heard = 1 .. Len(heard)
        /\ \A n \in 1 .. Len(heard) : heard[n] \in Listeners
    BY LenProperties DEF WalkedInOrder, IndInv, TypeOK
  <2>2. PICK n \in 1 .. Len(heard) : heard[n] = l
    BY DEF WalkedInOrder, Undisturbed
  <2>3. \A m \in 1 .. Len(heard) : heard[m] \in Nat
    BY <2>1, ObservableAssumption
  <2>4. \A m \in 1 .. Len(heard) : heard[m] = l => m = n
    BY <2>1, <2>2, <2>3 DEF WalkedInOrder, HeardInOrder
  <2>5. {i \in DOMAIN heard : heard[i] = l} = {n}
    BY <2>1, <2>2, <2>4
  <2> QED BY <2>5, FS_Singleton
<1> QED BY <1>1, WalkedInOrderHolds, PTL

\* The sorted vector is a set of listeners: every step of Observable, failed calls
\* and events included, is one of SubscriberSet or leaves its variables unchanged.
THEOREM ObservableImplementsSet ==
  ASSUME Reentrant = FALSE
  PROVE  Spec => ImplementsSubscriberSet
<1>1. Init => Set!Init
  <2> SUFFICES ASSUME Init PROVE Subscribed = {}
    BY DEF Init, Set!Init
  <2> QED BY DEF Init, Subscribed
<1>2. WalkedInOrder /\ [Next]_vars => [Set!Next]_<<Subscribed, heard, audience, result>>
  <2> SUFFICES ASSUME WalkedInOrder, [Next]_vars
               PROVE  Set!Next \/ UNCHANGED <<Subscribed, heard, audience, result>>
    OBVIOUS
  <2> USE DEF WalkedInOrder
  <2>1. ASSUME NEW l \in Listeners, Subscribe(l) PROVE Set!Subscribe(l)
    <3>1. UNCHANGED <<heard, audience>>
      BY <2>1 DEF Subscribe, walk
    <3>2. CASE Found(l)
      <4>1. UNCHANGED <<buffer, size>> /\ result' = "error"
        BY <2>1, <3>2 DEF Subscribe
      <4>2. Subscribed' = Subscribed
        BY <4>1 DEF Subscribed
      <4> QED BY <3>1, <4>1, <4>2 DEF Set!Subscribe
    <3>3. CASE ~Found(l)
      <4>1. InsertAt(LowerBound(l), l) /\ result' = "ok"
        BY <2>1, <3>3 DEF Subscribe
      <4>2. Subscribed' = Subscribed \cup {l} /\ l \notin Subscribed
        BY <3>3, <4>1, InsertAdds, FoundIsMember
      <4> QED BY <3>1, <4>1, <4>2 DEF Set!Subscribe
    <3> QED BY <3>2, <3>3
  <2>2. ASSUME NEW l \in Listeners, SubscribeOutOfMemory(l) PROVE Set!Subscribe(l)
    <3>1. UNCHANGED <<buffer, size, heard, audience>> /\ result' = "error"
      BY <2>2 DEF SubscribeOutOfMemory, walk
    <3>2. Subscribed' = Subscribed
      BY <3>1 DEF Subscribed
    <3> QED BY <3>1, <3>2 DEF Set!Subscribe
  <2>3. ASSUME NEW l \in Listeners, Unsubscribe(l) PROVE Set!Unsubscribe(l)
    <3>1. UNCHANGED <<heard, audience>>
      BY <2>3 DEF Unsubscribe, ClientRuns
    <3>2. CASE Found(l)
      <4>1. EraseAt(LowerBound(l)) /\ result' = "ok"
        BY <2>3, <3>2 DEF Unsubscribe
      <4>2. Subscribed' = Subscribed \ {l} /\ l \in Subscribed
        BY <3>2, <4>1, EraseRemoves, FoundIsMember
      <4> QED BY <3>1, <4>1, <4>2 DEF Set!Unsubscribe
    <3>3. CASE ~Found(l)
      <4>1. UNCHANGED <<buffer, size>> /\ result' = "error"
        BY <2>3, <3>3 DEF Unsubscribe
      <4>2. Subscribed' = Subscribed /\ l \notin Subscribed
        BY <3>3, <4>1, FoundIsMember DEF Subscribed
      <4> QED BY <3>1, <4>1, <4>2 DEF Set!Unsubscribe
    <3> QED BY <3>2, <3>3
  <2>4. CASE StartEvent
    <3>1. Subscribed' = Subscribed
      BY <2>4 DEF StartEvent, Subscribed
    <3> QED BY <2>4, <3>1 DEF StartEvent, Set!StartEvent, Set!Next
  <2>5. CASE CallListener
    <3>1. Set!Tell(buffer[it + 1]) /\ buffer[it + 1] \in audience
      BY <2>5, CallsTheNext
    <3>2. buffer[it + 1] \in Listeners
      BY <3>1 DEF IndInv, TypeOK
    <3> QED BY <3>1, <3>2 DEF Set!Next
  <2>6. CASE CallbackReturns \/ CallbackThrows \/ EndEvent \/ UNCHANGED vars
    <3>1. UNCHANGED <<buffer, size, heard, audience, result>>
      BY <2>6 DEF CallbackReturns, CallbackThrows, EndEvent, vars
    <3>2. Subscribed' = Subscribed
      BY <3>1 DEF Subscribed
    <3> QED BY <3>1, <3>2
  <2> QED BY <2>1, <2>2, <2>3, <2>4, <2>5, <2>6 DEF Next, Set!Next
<1> QED BY <1>1, <1>2, WalkedInOrderHolds, PTL DEF Spec, ImplementsSubscriberSet, Set!Spec, Set!vars
=============================================================================
