------------------------------ MODULE TypesList ------------------------------
(***************************************************************************)
(* edt::TypesList (template/types_list.hpp) and edt::ValuesList            *)
(* (template/values_list.hpp): lists of types and of values as sequences.  *)
(* A template over one argument - F, Predicate - is a function.            *)
(***************************************************************************)
EXTENDS Integers, Sequences

Mapped(F, list) == [i \in DOMAIN list |-> F[list[i]]]

ValuesList_Concat(a, b) == a \o b
ValuesList_MapToType(F, list) == Mapped(F, list)
ValuesList_MapToValue(F, list) == Mapped(F, list)

TypesList_Concat(a, b) == a \o b
TypesList_MapToType(F, list) == Mapped(F, list)
TypesList_MapToValue(F, list) == Mapped(F, list)

\* The specialization for Head, Tail...; that for a single Head; that for none.
ValuesList_Filter(Predicate, list) ==
  LET Impl[values \in {SubSeq(list, k, Len(list)) : k \in 1 .. Len(list) + 1}] ==
        LET FilteredHead == IF Predicate[Head(values)] THEN <<Head(values)>> ELSE <<>>
        IN CASE values = <<>>    -> <<>>
             [] Len(values) = 1  -> FilteredHead
             [] OTHER            -> ValuesList_Concat(FilteredHead, Impl[Tail(values)])
  IN Impl[list]

TypesList_Filter(Predicate, list) ==
  LET TypeList_FilterImpl[types \in {SubSeq(list, k, Len(list)) : k \in 1 .. Len(list) + 1}] ==
        LET FilteredHead == IF Predicate[Head(types)] THEN <<Head(types)>> ELSE <<>>
        IN CASE types = <<>>    -> <<>>
             [] Len(types) = 1  -> FilteredHead
             [] OTHER           -> TypesList_Concat(FilteredHead, TypeList_FilterImpl[Tail(types)])
  IN TypeList_FilterImpl[list]

\* Of the two specializations that match T, T, Tail... the first is the more
\* specialized; a T that is not in the list does not compile.
TypesList_IndexOf(T, list) ==
  LET Tails == {SubSeq(list, k, Len(list)) : k \in DOMAIN list}
      IndexOfImpl[types \in {t \in Tails : \E i \in DOMAIN t : t[i] = T}] ==
        IF Head(types) = T THEN 0 ELSE 1 + IndexOfImpl[Tail(types)]
  IN IndexOfImpl[list]

\* The same values as arguments of the other template.
ValuesList_ToIntegerSequence(list) == list
ValuesList_FromIntegerSequence(sequence) == sequence
=============================================================================
