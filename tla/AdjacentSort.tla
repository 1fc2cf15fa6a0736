----------------------------- MODULE AdjacentSort -----------------------------
(***************************************************************************)
(* What edt's sorting functions promise: an array is sorted by swaps of    *)
(* neighbours that are out of order, and the function returns only when    *)
(* none are left.  Elements are told apart by the place they started at.   *)
(***************************************************************************)
EXTENDS Naturals

CONSTANTS
  Keys,        \* what elements are compared by
  MaxCount     \* bound on the length of the array

VARIABLES
  arr,         \* a function from 0 .. count - 1
  returned

Element == [key : Keys, from : Nat]

\* Every array of each length; from is ghost, the code compares keys only.
Arrays == UNION { { [p \in 0 .. n - 1 |-> [key |-> k[p], from |-> p]] : k \in [0 .. n - 1 -> Keys] } :
                  n \in 0 .. MaxCount }

Less(a, b) == a.key < b.key

Swapped(p, q) == [arr EXCEPT ![p] = arr[q], ![q] = arr[p]]

Init == arr \in Arrays /\ returned = FALSE

Swap(p) ==
  /\ ~returned /\ {p, p + 1} \subseteq DOMAIN arr
  /\ Less(arr[p + 1], arr[p])
  /\ arr' = Swapped(p, p + 1)
  /\ UNCHANGED returned

Return ==
  /\ ~returned
  /\ \A p, q \in DOMAIN arr : p < q => ~Less(arr[q], arr[p])
  /\ returned' = TRUE
  /\ UNCHANGED arr

Next == (\E p \in DOMAIN arr : Swap(p)) \/ Return

Spec == Init /\ [][Next]_<<arr, returned>>

-----------------------------------------------------------------------------
\* Elements with equal keys never change places.
Stable ==
  \A p, q \in DOMAIN arr : p < q /\ arr[p].key = arr[q].key => arr[p].from < arr[q].from

\* No element is lost or doubled.
Permuted == {arr[p].from : p \in DOMAIN arr} = DOMAIN arr
=============================================================================
