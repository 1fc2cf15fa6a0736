------------------------------ MODULE BubbleSort ------------------------------
(***************************************************************************)
(* edt::BubbleSort (algorithm/sort/bubble_sort.hpp), one iteration of the  *)
(* inner loop to a step.                                                   *)
(***************************************************************************)
EXTENDS Naturals, FiniteSets

CONSTANTS Keys, MaxCount

SortAssumption == Keys \subseteq Nat /\ MaxCount \in Nat

VARIABLES arr, i, j, returned

vars == <<arr, i, j, returned>>

Promise == INSTANCE AdjacentSort

count == Cardinality(DOMAIN arr)

\* Mutant: the last pair is never compared.
lastIndex_Short == count - 2

lastIndex == count - 1

Init == Promise!Init /\ i = 0 /\ j = 0

InPass == ~returned /\ count > 1 /\ i < lastIndex

Compare ==
  /\ InPass /\ j < lastIndex - i
  /\ arr' = IF Promise!Less(arr[j + 1], arr[j]) THEN Promise!Swapped(j, j + 1) ELSE arr
  /\ j' = j + 1
  /\ UNCHANGED <<i, returned>>

NextPass ==
  /\ InPass /\ j >= lastIndex - i
  /\ i' = i + 1 /\ j' = 0
  /\ UNCHANGED <<arr, returned>>

Return ==
  /\ ~returned /\ ~InPass
  /\ returned' = TRUE
  /\ UNCHANGED <<arr, i, j>>

Next == Compare \/ NextPass \/ Return

\* The function runs on its own: a step that can be taken is.
Spec == Init /\ [][Next]_vars /\ WF_vars(Next)

-----------------------------------------------------------------------------
TypeOK ==
  /\ arr \in [0 .. lastIndex -> Promise!Element] \/ count = 0
  /\ i \in 0 .. MaxCount /\ j \in 0 .. MaxCount
  /\ InPass => j \in 0 .. lastIndex - i
  /\ returned \in BOOLEAN

\* BubbleSort swaps only neighbours out of order and leaves none behind.
SortsByAdjacentSwaps == Promise!Spec

=============================================================================
