---------------------------- MODULE InsertionSort ----------------------------
(***************************************************************************)
(* edt::InsertionSort (algorithm/sort/insertion_sort.hpp), one iteration of *)
(* the inner loop to a step.                                               *)
(***************************************************************************)
EXTENDS Naturals, FiniteSets

CONSTANTS Keys, MaxCount

SortAssumption == Keys \subseteq Nat /\ MaxCount \in Nat

VARIABLES arr, i, j, returned

vars == <<arr, i, j, returned>>

Promise == INSTANCE AdjacentSort

size == Cardinality(DOMAIN arr)

Init == Promise!Init /\ i = 1 /\ j = 1

Inserting == ~returned /\ size > 1 /\ i < size

SinksFurther == j > 0 /\ Promise!Less(arr[j], arr[j - 1])

\* Mutant: an element also sinks below its equals.
SinksFurther_BelowEquals == j > 0 /\ ~Promise!Less(arr[j - 1], arr[j])

Sink ==
  /\ Inserting /\ SinksFurther
  /\ arr' = Promise!Swapped(j - 1, j)
  /\ j' = j - 1
  /\ UNCHANGED <<i, returned>>

NextElement ==
  /\ Inserting /\ ~SinksFurther
  /\ i' = i + 1 /\ j' = i + 1
  /\ UNCHANGED <<arr, returned>>

Return ==
  /\ ~returned /\ ~Inserting
  /\ returned' = TRUE
  /\ UNCHANGED <<arr, i, j>>

Next == Sink \/ NextElement \/ Return

\* The function runs on its own: a step that can be taken is.
Spec == Init /\ [][Next]_vars /\ WF_vars(Next)

-----------------------------------------------------------------------------
TypeOK ==
  /\ arr \in [0 .. size - 1 -> Promise!Element] \/ size = 0
  /\ i \in 1 .. MaxCount + 1 /\ j \in 0 .. i
  /\ returned \in BOOLEAN

\* InsertionSort swaps only neighbours out of order and leaves none behind.
SortsByAdjacentSwaps == Promise!Spec

=============================================================================
