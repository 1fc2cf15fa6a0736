--------------------------- MODULE WorstReference ---------------------------
(***************************************************************************)
(* edt::WorstQualifiers and edt::WorstReference (template/): one type that *)
(* binds to what any of a pack of types does, with PureSame and ApplyIf.   *)
(* A type is what it decays to, its cv-qualifiers - of what it refers to,  *)
(* when it is a reference - and its reference, "" for none.                *)
(***************************************************************************)
EXTENDS Naturals, Sequences

CONSTANTS
  Decayed,     \* what types decay to
  MaxPack      \* bound on the length of the pack

WorstAssumption == MaxPack \in Nat \ {0}

VARIABLE pack     \* the arguments of the template

Types == [decayed : Decayed, const : BOOLEAN, volatile : BOOLEAN, ref : {"", "&", "&&"}]

\* <type_traits>: a reference has no qualifiers of its own, and gets none.
is_const_v(T) == T.ref = "" /\ T.const
is_volatile_v(T) == T.ref = "" /\ T.volatile
add_const_t == [T \in Types |-> IF T.ref = "" THEN [T EXCEPT !.const = TRUE] ELSE T]
add_volatile_t == [T \in Types |-> IF T.ref = "" THEN [T EXCEPT !.volatile = TRUE] ELSE T]
add_lvalue_reference_t == [T \in Types |-> [T EXCEPT !.ref = "&"]]
add_rvalue_reference_t == [T \in Types |-> [T EXCEPT !.ref = IF @ = "&" THEN "&" ELSE "&&"]]

ApplyIf(condition, Modifier, T) == IF condition THEN Modifier[T] ELSE T

pureSame(types) == \A i \in DOMAIN types : types[1].decayed = types[i].decayed

WorstQualifiers_t(types) ==
  LET hasConst == \E i \in DOMAIN types : is_const_v(types[i])
      hasVolatile == \E i \in DOMAIN types : is_volatile_v(types[i])
  IN ApplyIf(hasVolatile, add_volatile_t, ApplyIf(hasConst, add_const_t, Head(types)))

WorstReference_t(types) ==
  LET rValueReference == \A i \in DOMAIN types : types[i].ref = "&&"
      lValueReference == \A i \in DOMAIN types : types[i].ref = "&"
  IN ApplyIf(rValueReference, add_rvalue_reference_t,
             ApplyIf(lValueReference, add_lvalue_reference_t, WorstQualifiers_t(types)))

-----------------------------------------------------------------------------
Init == pack \in {<<T>> : T \in Types}

\* One more argument; static_assert keeps out packs of different types.
Next == \E T \in Types : Len(pack) < MaxPack /\ pureSame(Append(pack, T)) /\ pack' = Append(pack, T)

Spec == Init /\ [][Next]_pack

-----------------------------------------------------------------------------
\* Of types that are no references the result has every qualifier any has.  Its
\* reference is the first one's, which is the worst - none, then & - only with the
\* arguments in that order; and of references the first is the result, whatever
\* qualifiers the others refer with.
WorstOfThePack ==
  LET q == WorstQualifiers_t(pack) r == WorstReference_t(pack) IN
  /\ (\A i \in DOMAIN pack : pack[i].ref = "") =>
       /\ q.const <=> \E i \in DOMAIN pack : pack[i].const
       /\ q.volatile <=> \E i \in DOMAIN pack : pack[i].volatile
       /\ r = q
  /\ r.ref = Head(pack).ref
  /\ Head(pack).ref # "" => r = Head(pack) /\ q = Head(pack)
=============================================================================
