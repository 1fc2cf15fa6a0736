------------------------- MODULE TaggedTypeIdProofs -------------------------
(***************************************************************************)
(* Proofs about TaggedTypeId, for every set of threads and of types, and   *)
(* every representation with more values than there are types.             *)
(***************************************************************************)
EXTENDS TaggedTypeId, FiniteSetTheorems, TLAPS

\* There is always an id left for a type that has not drawn one, and it is valid.
LEMMA RoomForAnother ==
  ASSUME NEW S \in SUBSET Types
  PROVE  /\ IsFiniteSet(S)
         /\ Cardinality(S) \in Nat
         /\ Cardinality(S) <= Cardinality(Types)
         /\ Cardinality(Types) \in Nat
         /\ Cardinality(Types) <= invalid_id
         /\ \A T \in Types \ S : Cardinality(S \cup {T}) = Cardinality(S) + 1
<1>1. IsFiniteSet(S) /\ Cardinality(S) <= Cardinality(Types)
  BY EnoughIds, FS_Subset
<1>2. Cardinality(S) \in Nat /\ Cardinality(Types) \in Nat
  BY <1>1, EnoughIds, FS_CardinalityType
<1>3. \A T \in Types \ S : Cardinality(S \cup {T}) = Cardinality(S) + 1
  BY <1>1, FS_AddElement
<1> QED
  BY <1>1, <1>2, <1>3, EnoughIds DEF invalid_id

LEMMA IndInvInit == Init => IndInv
<1> SUFFICES ASSUME Init PROVE IndInv
  OBVIOUS
<1> USE DEF Init
<1>1. TypeOK
  BY EnoughIds, RoomForAnother DEF TypeOK, Ids, invalid_id
<1>2. Drawn = {}
  BY DEF Drawn
<1>3. DistinctIds
  BY <1>2, FS_EmptySet DEF DistinctIds
<1> QED
  BY <1>1, <1>3 DEF IndInv, OneInitialiser, Drawing, AnswersAreStored

LEMMA IndInvStep == IndInv /\ [Next]_vars => IndInv'
<1> SUFFICES ASSUME IndInv, [Next]_vars PROVE IndInv'
  OBVIOUS
<1> USE DEF IndInv, TypeOK, Move
<1>1. ASSUME NEW t \in Threads, NEW T \in Types, Call(t, T) PROVE IndInv'
  <2> USE <1>1 DEF Call
  <2>1. Drawn' = Drawn
    BY DEF Drawn
  <2> QED
    BY <2>1 DEF OneInitialiser, DistinctIds, AnswersAreStored, Drawing
<1>2. ASSUME NEW t \in Threads, EnterInitialiser(t) PROVE IndInv'
  <2> USE <1>2 DEF EnterInitialiser
  <2>1. Drawn' = Drawn
    BY DEF Drawn
  <2>2. OneInitialiser'
    BY DEF OneInitialiser, Drawing
  <2> QED
    BY <2>1, <2>2 DEF DistinctIds, AnswersAreStored
<1>3. ASSUME NEW t \in Threads, SkipInitialiser(t) PROVE IndInv'
  <2> USE <1>3 DEF SkipInitialiser
  <2>1. Drawn' = Drawn
    BY DEF Drawn
  <2> QED
    BY <2>1 DEF OneInitialiser, DistinctIds, AnswersAreStored, Drawing
<1>4. ASSUME NEW t \in Threads, FetchAdd(t) PROVE IndInv'
  <2> USE <1>4 DEF FetchAdd
  <2>1. Drawn' = Drawn \cup {type[t]}
    BY DEF Drawn
  <2>2. type[t] \in Types \ Drawn
    BY DEF Drawn, OneInitialiser, Drawing
  <2>3. Drawn \in SUBSET Types
    BY DEF Drawn
  <2>4. /\ next_type_id = Cardinality(Drawn) /\ next_type_id \in Nat
        /\ Cardinality(Drawn') = next_type_id + 1
        /\ next_type_id + 1 <= invalid_id
    <3>1. Drawn' \in SUBSET Types
      BY <2>1, <2>2, <2>3
    <3>2. Cardinality(Drawn') = Cardinality(Drawn) + 1
      BY <2>1, <2>2, <2>3, RoomForAnother
    <3>3. next_type_id = Cardinality(Drawn) /\ Cardinality(Drawn) \in Nat
      BY <2>3, RoomForAnother DEF DistinctIds
    <3>4. Cardinality(Drawn') <= invalid_id
      BY <3>1, RoomForAnother, EnoughIds DEF invalid_id
    <3> QED
      BY <3>2, <3>3, <3>4
  <2>5. next_type_id' = next_type_id + 1
    BY <2>4, EnoughIds DEF invalid_id
  <2>6. TypeOK'
    BY <2>4, <2>5, EnoughIds DEF Ids, invalid_id
  <2>7. OneInitialiser' /\ AnswersAreStored'
    BY DEF OneInitialiser, AnswersAreStored, Drawing
  <2>8. DistinctIds'
    BY <2>4, <2>5 DEF DistinctIds, Ids
  <2> QED
    BY <2>6, <2>7, <2>8
<1>5. ASSUME NEW t \in Threads, Store(t) PROVE IndInv'
  <2> USE <1>5 DEF Store
  <2>1. Drawn' = Drawn
    BY DEF Drawn
  <2>2. OneInitialiser'
    BY DEF OneInitialiser, Drawing
  <2>3. AnswersAreStored'
    BY DEF AnswersAreStored, OneInitialiser, Drawing
  <2>4. DistinctIds'
    BY <2>1 DEF DistinctIds
  <2> QED
    BY <2>2, <2>3, <2>4
<1>6. ASSUME NEW t \in Threads, Return(t) PROVE IndInv'
  <2> USE <1>6 DEF Return
  <2>1. Drawn' = Drawn
    BY DEF Drawn
  <2>2. OneInitialiser' /\ DistinctIds'
    BY <2>1 DEF OneInitialiser, DistinctIds, Drawing
  <2>3. AnswersAreStored'
    BY DEF AnswersAreStored, OneInitialiser
  <2> QED
    BY <2>2, <2>3
<1>7. CASE UNCHANGED vars
  BY <1>7 DEF vars, OneInitialiser, DistinctIds, AnswersAreStored, Drawing, Drawn
<1> QED
  BY <1>1, <1>2, <1>3, <1>4, <1>5, <1>6, <1>7 DEF Next, Step

\* The inductive invariant holds of every behaviour, fair or not.
THEOREM IndInvHolds == SafeSpec => []IndInv
BY IndInvInit, IndInvStep, PTL DEF SafeSpec

\* Every variable always has its type.
THEOREM TypeCorrect == SafeSpec => []TypeOK
<1>1. IndInv => TypeOK
  BY DEF IndInv
<1> QED
  BY <1>1, IndInvHolds, PTL

\* Whichever threads ask for whichever types, a type has one id, no two types
\* share one, and it is valid.
THEOREM TypesHaveTheirOwnIds == SafeSpec => []OwnStableId
<1>1. IndInv => OwnStableId
  <2> SUFFICES ASSUME IndInv, NEW a \in answers, NEW b \in answers
               PROVE  (a[1] = b[1] <=> a[2] = b[2]) /\ IsValid(a[2])
    BY DEF OwnStableId
  <2>1. a[1] \in Types /\ b[1] \in Types /\ a[2] \in Ids
    BY DEF IndInv, TypeOK
  <2>2. /\ guard[a[1]] = "done" /\ a[2] = type_id[a[1]]
        /\ guard[b[1]] = "done" /\ b[2] = type_id[b[1]]
    BY DEF IndInv, AnswersAreStored
  <2>3. a[1] = b[1] <=> a[2] = b[2]
    BY <2>1, <2>2 DEF IndInv, DistinctIds
  <2>4. a[2] < next_type_id /\ next_type_id = Cardinality(Drawn) /\ Drawn \in SUBSET Types
    BY <2>1, <2>2 DEF IndInv, DistinctIds, Drawn
  <2>5. a[2] # invalid_id
    BY <2>1, <2>4, RoomForAnother, EnoughIds DEF Ids, invalid_id
  <2> QED
    BY <2>3, <2>5 DEF IsValid
<1> QED
  BY <1>1, IndInvHolds, PTL
=============================================================================
