------------------------------ MODULE Signature ------------------------------
(***************************************************************************)
(* edt::Signature (template/signature.hpp): what is known at compile time  *)
(* of the type of a pointer to a function, a method or a data member.      *)
(***************************************************************************)
EXTENDS Naturals, FiniteSets

CONSTANTS Classes, void

VARIABLES
  pointer,      \* the type of a pointer
  signature     \* its specializations, {} before Signature is instantiated

vars == <<pointer, signature>>

Qualifiers == {"const", "volatile", "&", "&&", "noexcept"}
Pointers ==
  [kind : {"function"}, Class : {void}, ellipsis : BOOLEAN, qualifiers : SUBSET {"noexcept"}]
    \cup [kind : {"method"}, Class : Classes, ellipsis : BOOLEAN,
          qualifiers : {q \in SUBSET Qualifiers : ~{"&", "&&"} \subseteq q}]
    \cup [kind : {"data member"}, Class : Classes, ellipsis : {FALSE}, qualifiers : {{}}]

-----------------------------------------------------------------------------
(* The specializations: what they declare, Pure and the like as a set.     *)

Function == [Class |-> void, IsMethod |-> FALSE, IsVariable |-> FALSE, flags |-> {"Pure"}]

NoexceptFunction == [Function EXCEPT !.flags = @ \cup {"Noexcept"}]

DataMember(class) == [Class |-> class, IsMethod |-> FALSE, IsVariable |-> TRUE, flags |-> {}]

\* Mutant: IsMethod is the inherited one, which reads the Pure of the base.
Method_InheritsIsMethod(class) == [Function EXCEPT !.Class = class, !.flags = @ \ {"Pure"}]

\* IsMethod is redeclared: an inherited one would read the Pure of the base.
Method(class) ==
  [Function EXCEPT !.Class = class, !.flags = @ \ {"Pure"}, !.IsMethod = TRUE]

\* EDT_SIGNATURE_METHOD_SPECIALIZATION: the qualifiers of each of the
\* specializations derived from Method, and the flags it declares.
MethodSpecializations ==
  {<< {"&"},                                   {"LRef"} >>,
   << {"&&"},                                  {"RRef"} >>,
   << {"const"},                               {"Const"} >>,
   << {"const", "&"},                          {"Const", "LRef"} >>,
   << {"const", "&&"},                         {"Const", "RRef"} >>,
   << {"noexcept"},                            {"Noexcept"} >>,
   << {"&", "noexcept"},                       {"Noexcept", "LRef"} >>,
   << {"&&", "noexcept"},                      {"Noexcept", "RRef"} >>,
   << {"volatile"},                            {"Volatile"} >>,
   << {"volatile", "&"},                       {"Volatile", "LRef"} >>,
   << {"volatile", "&&"},                      {"Volatile", "RRef"} >>,
   << {"const", "noexcept"},                   {"Const", "Noexcept"} >>,
   << {"const", "&", "noexcept"},              {"Const", "Noexcept", "LRef"} >>,
   << {"const", "&&", "noexcept"},             {"Const", "Noexcept", "RRef"} >>,
   << {"const", "volatile"},                   {"Const", "Volatile"} >>,
   << {"const", "volatile", "&"},              {"Const", "Volatile", "LRef"} >>,
   << {"const", "volatile", "&&"},             {"Const", "Volatile", "RRef"} >>,
   << {"volatile", "noexcept"},                {"Volatile", "Noexcept"} >>,
   << {"volatile", "&", "noexcept"},           {"Volatile", "Noexcept", "LRef"} >>,
   << {"volatile", "&&", "noexcept"},          {"Volatile", "Noexcept", "RRef"} >>,
   << {"const", "volatile", "noexcept"},       {"Const", "Volatile", "Noexcept"} >>,
   << {"const", "volatile", "&", "noexcept"},  {"Const", "Volatile", "Noexcept", "LRef"} >>,
   << {"const", "volatile", "&&", "noexcept"}, {"Const", "Volatile", "Noexcept", "RRef"} >>}

\* The specializations that match, but for that of a data member: a list of
\* arguments that ends in an ellipsis matches no Args_...
Matching(p) ==
  IF p.ellipsis THEN {}
  ELSE CASE p.kind = "function" -> {IF p.qualifiers = {} THEN Function ELSE NoexceptFunction}
         [] p.kind = "method"   ->
              {Method(p.Class) : q \in {q \in {{}} : q = p.qualifiers}} \cup
              {[Method(p.Class) EXCEPT !.flags = @ \cup s[2]] :
                 s \in {s \in MethodSpecializations : s[1] = p.qualifiers}}
         [] p.kind = "data member" -> {}

\* The pattern of a data member matches every pointer to a member, methods too,
\* and any other that matches is more specialized.
SignatureOf(p) ==
  IF Matching(p) # {} THEN Matching(p)
  ELSE {DataMember(class) : class \in {p.Class} \ {void}}

-----------------------------------------------------------------------------
Init == pointer \in Pointers /\ signature = {}

SignatureFromPtr == signature' = SignatureOf(pointer) /\ UNCHANGED pointer

Next == SignatureFromPtr

Spec == Init /\ [][Next]_vars

-----------------------------------------------------------------------------
FlagOf == [q \in Qualifiers |->
  CASE q = "const" -> "Const" [] q = "volatile" -> "Volatile" [] q = "&" -> "LRef"
    [] q = "&&" -> "RRef" [] q = "noexcept" -> "Noexcept"]

\* Every pointer but one to a function with an ellipsis has exactly one signature:
\* it is of a method, a variable or neither, as the pointer is, and its flags say
\* its qualifiers and no more.  Only a method with an ellipsis passes for data.
TypesReadBack ==
  [][/\ Cardinality(signature') = (IF pointer.kind = "function" /\ pointer.ellipsis THEN 0 ELSE 1)
     /\ \A s \in signature' :
          /\ s.Class = pointer.Class
          /\ s.IsVariable <=> (pointer.kind = "data member" \/ pointer.ellipsis)
          /\ ~pointer.ellipsis =>
               /\ s.IsMethod <=> pointer.kind = "method"
               /\ s.flags = {FlagOf[q] : q \in pointer.qualifiers}
                              \cup {"Pure" : k \in {pointer.kind} \cap {"function"}}]_vars
=============================================================================
