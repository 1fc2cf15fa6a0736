------------------------- MODULE IntrusivePtrProofs -------------------------
(***************************************************************************)
(* Proofs about IntrusivePtr, for clients that do not assign from inside   *)
(* what the assignment destroys (Aliasing = FALSE): any number of objects  *)
(* and pointers, chains and cycles of any length, operations called from   *)
(* destructors that operations run.                                        *)
(*                                                                         *)
(* The counts are right in the middle of operations only because of what   *)
(* the operations under way have released and not yet overwritten, and the *)
(* pointers that they will use exist only because something else holds the *)
(* objects they are in.  IndInv says both: View is the pointers that       *)
(* count, Ordered and Apart say how operations nest in todo, OperandsStay  *)
(* and OthersStay what keeps the operands' objects from being destroyed.   *)
(* Good takes the state as parameters, so that the lemmas about it are     *)
(* about values and a step is one of them with the next state filled in.   *)
(***************************************************************************)
EXTENDS IntrusivePtr, FiniteSetTheorems, SequenceTheorems, TLAPS

\* What ends a part of an operation or a destruction, and those that end an operation.
Final == {"copy", "move", "null", "gone", "free"}
Ops == Final \ {"free"}
Items == [do : {"body", "release"} \cup Final, slot : Slots, from : Slots]

\* What an item of td is about.
Names(td, i) == {td[i].slot, td[i].from}

\* What the items behind t are about.
Behind(td, t) == {x \in Slots : \E k \in t + 1 .. Len(td) : x \in Names(td, k)}

\* Item t ends the innermost operation under way.
First(td, t) == /\ t \in 1 .. Len(td) /\ td[t].do \in Ops
                /\ \A i \in 1 .. t - 1 : td[i].do \notin Ops

\* The object in whose destructor's body the operation of item t was called.
Caller(td, t) == IF t < Len(td) THEN {td[t + 1].slot} ELSE {}

\* The objects being destroyed.
DyingIn(td) == {x \in Slots : \E k \in 1 .. Len(td) : td[k].do = "free" /\ td[k].slot = x}

\* The pointers released and not yet overwritten or gone.
SpentIn(td) == {x \in Slots : \E k \in 1 .. Len(td) :
                  /\ td[k].do \in Final /\ td[k].slot = x
                  /\ k > 1 => td[k - 1].do # "release"}

\* A release is followed by what ends its part; only the first one may be ahead, of an
\* operation that ends, the others are the pointers inside objects being destroyed; an
\* operation is called from the body of a destructor, whose release comes after it.
Ordered(td) ==
  \A i \in 1 .. Len(td) :
    /\ td[i].do \notin {"copy", "move"} => td[i].from = td[i].slot
    /\ td[i].do \in {"copy", "move"} => td[i].from # td[i].slot
    /\ td[i].do = "body" => /\ i = 1 /\ Len(td) > 2 /\ td[2].do = "release" /\ td[3].do = "free"
                            /\ td[2].slot = td[1].slot
    /\ td[i].do = "release" => /\ i < Len(td) /\ td[i + 1].do \in Final
                               /\ td[i + 1].slot = td[i].slot
                               /\ i > 1 => td[i + 1].do = "free"
    /\ td[i].do = "free" => /\ td[i].slot \in Objects
                            /\ i < Len(td) /\ td[i + 1].do \in Final
    /\ td[i].do = "gone" => td[i].slot \in Roots
    /\ td[i].do \in Ops /\ i < Len(td) => td[i + 1].do = "release"

\* No pointer is named by two parts, but the object whose destructor's body runs by an
\* operation that it called.
Apart(td) ==
  \A i, j \in 1 .. Len(td) :
    i < j /\ td[i].do \in Final /\ td[j].do \in Final /\ Names(td, i) \cap Names(td, j) # {}
      => td[i].do \in Ops /\ j = i + 2 /\ td[i + 1].do = "release"

\* The pointers that count: those that exist and are not spent.
View == [s \in Slots |-> IF s \in Live \ SpentIn(todo) THEN p_[s] ELSE nullptr]

\* The pointers q without those in S, and q after a move from s to d.
Cut(q, S) == [s \in Slots |-> IF s \in S THEN nullptr ELSE q[s]]
Moved(q, d, s) == [q EXCEPT ![d] = q[s], ![s] = nullptr]

\* Without its target, the innermost operation's operands are still held by pointers in
\* b, or by the object that called it: its release destroys neither of them.
OperandsStay(td, v, b) ==
  \A t \in 1 .. Len(td) : First(td, t) =>
    \A x \in Names(td, t) \cap Objects :
      x \in Caller(td, t) \/ x \in Held([v EXCEPT ![td[t].slot] = nullptr], b \cup Caller(td, t))

\* When the innermost operation has released its target, and when it has ended, what the
\* operations around it are about is held by pointers none of them is about.
OthersStay(td, v, b, a) ==
  \A t \in 1 .. Len(td) : First(td, t) =>
    \A x \in (Behind(td, t) \cap a) \ DyingIn(td) :
      /\ x \in Held(Cut([v EXCEPT ![td[t].slot] = nullptr], Behind(td, t)), b)
      /\ td[t].do = "move" => x \in Held(Cut(Moved(v, td[t].slot, td[t].from), Behind(td, t)), b)

Pointing(v, o) == {s \in Slots : v[s] = o}

\* The counts r are those of the pointers v; an object is being destroyed (in d) as
\* soon as its count is zero, and its memory is there (in a) as long as it is.
Counted(v, r, a, d) ==
  /\ \A s \in Slots : v[s] \in a \cup {nullptr}
  /\ \A o \in a : r[o] = Cardinality(Pointing(v, o))
  /\ \A o \in d : r[o] = 0
  /\ \A o \in a \ d : r[o] > 0

Pointers == [Slots -> Objects \cup {nullptr}]

Typed(td, v, b, a, r) ==
  /\ td \in Seq(Items) /\ v \in Pointers /\ r \in [Objects -> Nat]
  /\ b \subseteq Roots /\ a \subseteq Objects
  /\ \A s \in Slots : s \notin b \cup a \/ s \in SpentIn(td) => v[s] = nullptr

Good(td, v, b, a, r) ==
  /\ Ordered(td) /\ Apart(td)
  /\ \A i \in 1 .. Len(td) : Names(td, i) \subseteq b \cup a
  /\ Counted(v, r, a, DyingIn(td))
  /\ OperandsStay(td, v, b) /\ OthersStay(td, v, b, a)

IndInv ==
  /\ TypeOK
  /\ \A o \in Objects \ made : refs[o] = 0
  /\ Good(todo, View, built, alive, refs)

-----------------------------------------------------------------------------
(* What is reachable.                                                      *)

\* Held, spelt out: what is held is in every closed set the pointers in S lead into.
LEMMA HeldMember ==
  ASSUME NEW q, NEW S, NEW x
  PROVE  x \in Held(q, S) <=>
           /\ x \in Objects
           /\ \A T \in SUBSET Objects : (\A s \in S : q[s] \in T \cup {nullptr}) /\ Closed(q, T) => x \in T
<1>1. ASSUME NEW T
      PROVE  {q[s] : s \in S} \ {nullptr} \subseteq T <=> \A s \in S : q[s] \in T \cup {nullptr}
  OBVIOUS
<1> QED BY <1>1 DEF Held, Reach

\* Only objects are held.
LEMMA HeldObjects ==
  ASSUME NEW q, NEW S
  PROVE  Held(q, S) \in SUBSET Objects
BY HeldMember

\* What a pointer in S, or in something held, points to is held.
LEMMA HeldStep ==
  ASSUME NEW q \in Pointers, NEW S \in SUBSET Slots, NEW y \in S \cup Held(q, S), q[y] # nullptr
  PROVE  q[y] \in Held(q, S)
<1>1. y \in Slots /\ q[y] \in Objects
  BY HeldObjects DEF Slots, Pointers
<1> SUFFICES ASSUME NEW T \in SUBSET Objects, \A s \in S : q[s] \in T \cup {nullptr}, Closed(q, T)
             PROVE  q[y] \in T
  BY <1>1, HeldMember
<1>2. y \in S \/ y \in T
  BY HeldMember
<1> QED BY <1>2 DEF Closed

\* Pointers that agree on everything held hold as much.
LEMMA HeldAgree ==
  ASSUME NEW q, NEW r, NEW S, NEW U, \A s \in S : s \in U \/ q[s] = nullptr, NEW C \in SUBSET Objects,
         \A s \in S : q[s] \in C \cup {nullptr}, Closed(q, C),
         \A y \in S \cup C : q[y] \in {nullptr, r[y]}
  PROVE  Held(q, S) \subseteq C /\ Held(q, S) \subseteq Held(r, U)
<1>1. Held(q, S) \subseteq C
  BY HeldMember
<1>2. ASSUME NEW x \in Held(q, S) PROVE x \in Held(r, U)
  <2> SUFFICES ASSUME NEW T \in SUBSET Objects, \A s \in U : r[s] \in T \cup {nullptr}, Closed(r, T)
               PROVE  x \in T
    BY HeldMember
  <2>1. \A s \in S : q[s] \in (T \cap C) \cup {nullptr}
    OBVIOUS
  <2>2. Closed(q, T \cap C)
    BY DEF Closed
  <2> QED BY <2>1, <2>2, HeldMember
<1> QED BY <1>1, <1>2

\* More pointers, or pointers that point to more, hold more.
LEMMA HeldMore ==
  ASSUME NEW q \in Pointers, NEW r \in Pointers, NEW S \in SUBSET Slots, NEW U \in SUBSET Slots,
         \A y \in Slots : q[y] \in {nullptr, r[y]}, \A s \in S : s \in U \/ q[s] = nullptr
  PROVE  Held(q, S) \subseteq Held(r, U)
<1>1. \A s \in Slots : q[s] \in Objects \cup {nullptr}
  BY DEF Pointers
<1>2. Closed(q, Objects)
  BY <1>1 DEF Closed, Slots
<1> QED BY <1>1, <1>2, HeldAgree DEF Slots

\* Something held is what a pointer in S, or in something else held, points to.
LEMMA HeldBySome ==
  ASSUME NEW q \in Pointers, NEW S \in SUBSET Slots, NEW x \in Held(q, S)
  PROVE  \E y \in S \cup Held(q, S) : q[y] = x
<1> SUFFICES ASSUME \A y \in S \cup Held(q, S) : q[y] # x PROVE FALSE
  OBVIOUS
<1> DEFINE T == Held(q, S) \ {x}
<1>1. T \in SUBSET Objects /\ x \notin T
  BY HeldObjects
<1>2. \A s \in S \cup T : q[s] \in T \cup {nullptr}
  BY HeldStep
<1> HIDE DEF T
<1> QED BY <1>1, <1>2, HeldMember DEF Closed

\* The first way to an object does not lead through its own pointer.
LEMMA HeldWithoutOwn ==
  ASSUME NEW q \in Pointers, NEW S \in SUBSET Slots, NEW x \in Held(q, S), x \notin S
  PROVE  x \in Held([q EXCEPT ![x] = nullptr], S)
<1> DEFINE r == [q EXCEPT ![x] = nullptr]
<1>1. x \in Slots /\ x \in Objects /\ nullptr \notin Slots
  BY HeldObjects, PtrAssumption DEF Slots
<1>2. \A y \in Slots \ {x} : r[y] = q[y]
  BY DEF Pointers
<1> HIDE DEF r
<1> SUFFICES ASSUME NEW T \in SUBSET Objects, \A s \in S : r[s] \in T \cup {nullptr}, Closed(r, T),
                    x \notin T
             PROVE  FALSE
  BY <1>1, HeldMember DEF r
<1>3. \A s \in S \cup T : r[s] = q[s]
  BY <1>2 DEF Slots
<1> QED BY <1>3, HeldMember DEF Closed

-----------------------------------------------------------------------------
(* What is left to do.                                                     *)

\* The types of what an item says.
LEMMA ItemParts ==
  ASSUME NEW td \in Seq(Items), NEW i \in 1 .. Len(td)
  PROVE  /\ td[i].slot \in Slots /\ td[i].from \in Slots /\ td[i].do \in {"body", "release"} \cup Final
         /\ td[i].slot \in Names(td, i) /\ td[i].from \in Names(td, i) /\ Names(td, i) \subseteq Slots
<1>1. td[i] \in Items
  OBVIOUS
<1> QED BY <1>1 DEF Items, Names

\* The model's Spent, as the set SpentIn of the pointers it holds of.
LEMMA SpentCode ==
  ASSUME todo \in Seq(Items), Ordered(todo), Apart(todo), NEW s \in Slots
  PROVE  Spent(s) <=> s \in SpentIn(todo)
<1>0. DOMAIN todo = 1 .. Len(todo) /\ \A i \in 1 .. Len(todo) : todo[i] \in Items
  OBVIOUS
<1>1. ASSUME NEW i \in 1 .. Len(todo), todo[i].do \in Final, todo[i].slot = s,
             i > 1 => todo[i - 1].do # "release",
             NEW j \in 1 .. i, todo[j].do = "release", todo[j].slot = s
      PROVE  FALSE
  <2>1. j + 1 \in 1 .. i /\ todo[j + 1].do \in Final /\ todo[j + 1].slot = s
    BY <1>0, <1>1 DEF Ordered, Final
  <2>2. j + 1 # i
    BY <1>1
  <2>3. todo[j + 1 + 1].do = "release" /\ i = j + 1 + 2
    <3>1. j + 1 \in 1 .. Len(todo) /\ j + 1 < i
      BY <2>1, <2>2
    <3>2. s \in Names(todo, j + 1) /\ s \in Names(todo, i)
      BY <1>1, <2>1 DEF Names
    <3> QED BY <1>1, <2>1, <3>1, <3>2 DEF Apart
  <2> QED BY <1>1, <2>3
<1>2. ASSUME NEW i \in 1 .. Len(todo), todo[i].slot = s, i > 1, todo[i - 1].do = "release"
      PROVE  todo[i - 1].slot = s
  BY <1>0, <1>2 DEF Ordered
<1>3. \A i \in 1 .. Len(todo) : todo[i].do \notin {"body", "release"} <=> todo[i].do \in Final
  BY <1>0 DEF Items, Final
<1> QED BY <1>0, <1>1, <1>2, <1>3 DEF Spent, SpentIn

\* What is left to do without its first item.
LEMMA TailItems ==
  ASSUME NEW td \in Seq(Items), td # <<>>
  PROVE  /\ Tail(td) \in Seq(Items) /\ Len(td) \in Nat \ {0} /\ Len(Tail(td)) = Len(td) - 1
         /\ \A i \in 1 .. Len(td) - 1 : Tail(td)[i] = td[i + 1]
         /\ Head(td) = td[1] /\ 1 \in 1 .. Len(td)
OBVIOUS

\* Dropping the first item leaves the rest in order.
LEMMA TailIsOrdered ==
  ASSUME NEW td \in Seq(Items), td # <<>>, Ordered(td), Apart(td)
  PROVE  Ordered(Tail(td)) /\ Apart(Tail(td))
<1> DEFINE R == Tail(td)
<1>1. Len(td) \in Nat \ {0} /\ Len(R) = Len(td) - 1 /\ \A i \in 1 .. Len(td) - 1 : R[i] = td[i + 1]
  BY TailItems
<1> HIDE DEF R
<1>2. Ordered(R)
  <2> SUFFICES ASSUME NEW i \in 1 .. Len(R)
               PROVE  /\ R[i].do \notin {"copy", "move"} => R[i].from = R[i].slot
                      /\ R[i].do \in {"copy", "move"} => R[i].from # R[i].slot
                      /\ R[i].do # "body"
                      /\ R[i].do = "release" => /\ i < Len(R) /\ R[i + 1].do \in Final
                                                /\ R[i + 1].slot = R[i].slot
                                                /\ i > 1 => R[i + 1].do = "free"
                      /\ R[i].do = "free" => /\ R[i].slot \in Objects
                                             /\ i < Len(R) /\ R[i + 1].do \in Final
                      /\ R[i].do = "gone" => R[i].slot \in Roots
                      /\ R[i].do \in Ops /\ i < Len(R) => R[i + 1].do = "release"
    BY DEF Ordered
  <2>1. i + 1 \in 1 .. Len(td) /\ i + 1 > 1 /\ R[i] = td[i + 1] /\ (i < Len(R) => R[i + 1] = td[i + 2])
    BY <1>1
  <2> QED BY <1>1, <2>1 DEF Ordered
<1>3. Apart(R)
  <2> SUFFICES ASSUME NEW i \in 1 .. Len(R), NEW j \in 1 .. Len(R),
                      i < j, R[i].do \in Final, R[j].do \in Final, Names(R, i) \cap Names(R, j) # {}
               PROVE  R[i].do \in Ops /\ j = i + 2 /\ R[i + 1].do = "release"
    BY DEF Apart
  <2>1. /\ i + 1 \in 1 .. Len(td) /\ j + 1 \in 1 .. Len(td)
        /\ R[i] = td[i + 1] /\ R[j] = td[j + 1] /\ R[i + 1] = td[i + 2]
    BY <1>1
  <2>2. Names(R, i) = Names(td, i + 1) /\ Names(R, j) = Names(td, j + 1)
    BY <2>1 DEF Names
  <2> QED BY <2>1, <2>2 DEF Apart
<1> QED BY <1>2, <1>3 DEF R

\* The items of the rest are the later items of the whole.
LEMMA TailParts ==
  ASSUME NEW td \in Seq(Items), td # <<>>, NEW t \in 1 .. Len(Tail(td))
  PROVE  /\ Tail(td)[t] = td[t + 1] /\ t + 1 \in 1 .. Len(td)
         /\ Names(Tail(td), t) = Names(td, t + 1)
         /\ Behind(Tail(td), t) = Behind(td, t + 1)
         /\ Caller(Tail(td), t) = Caller(td, t + 1)
         /\ td[1].do \notin Ops => (First(Tail(td), t) <=> First(td, t + 1))
<1> DEFINE R == Tail(td)
<1>1. Len(td) \in Nat \ {0} /\ Len(R) = Len(td) - 1 /\ \A i \in 1 .. Len(td) - 1 : R[i] = td[i + 1]
  BY TailItems
<1>a. t \in 1 .. Len(R)
  OBVIOUS
<1> HIDE DEF R
<1>2. R[t] = td[t + 1] /\ t + 1 \in 1 .. Len(td) /\ Names(R, t) = Names(td, t + 1)
  BY <1>1 DEF Names
<1>3. Behind(R, t) = Behind(td, t + 1)
  <2>1. ASSUME NEW x, NEW k \in t + 1 .. Len(R), x \in Names(R, k)
        PROVE  \E l \in t + 1 + 1 .. Len(td) : x \in Names(td, l)
    <3>1. k + 1 \in t + 1 + 1 .. Len(td) /\ R[k] = td[k + 1]
      BY <1>1
    <3> QED BY <2>1, <3>1 DEF Names
  <2>2. ASSUME NEW x, NEW k \in t + 1 + 1 .. Len(td), x \in Names(td, k)
        PROVE  \E l \in t + 1 .. Len(R) : x \in Names(R, l)
    <3>1. k - 1 \in t + 1 .. Len(R) /\ R[k - 1] = td[k]
      BY <1>1
    <3> QED BY <2>2, <3>1 DEF Names
  <2> QED BY <2>1, <2>2 DEF Behind
<1>4. Caller(R, t) = Caller(td, t + 1)
  <2>1. t < Len(R) => R[t + 1] = td[t + 1 + 1]
    BY <1>1
  <2>2. t < Len(R) <=> t + 1 < Len(td)
    BY <1>1
  <2> QED BY <2>1, <2>2 DEF Caller
<1>5. ASSUME td[1].do \notin Ops PROVE First(R, t) <=> First(td, t + 1)
  <2>1. \A i \in 1 .. t - 1 : R[i] = td[i + 1] /\ i + 1 \in 1 .. t + 1 - 1
    BY <1>1
  <2>2. \A i \in 1 .. t + 1 - 1 : i = 1 \/ (i - 1 \in 1 .. t - 1 /\ R[i - 1] = td[i])
    BY <1>1
  <2>3. (\A i \in 1 .. t - 1 : R[i].do \notin Ops) <=> (\A i \in 1 .. t + 1 - 1 : td[i].do \notin Ops)
    <3>1. ASSUME \A i \in 1 .. t - 1 : R[i].do \notin Ops, NEW i \in 1 .. t + 1 - 1
          PROVE  td[i].do \notin Ops
      BY <1>5, <2>2, <3>1
    <3>2. ASSUME \A i \in 1 .. t + 1 - 1 : td[i].do \notin Ops, NEW i \in 1 .. t - 1
          PROVE  R[i].do \notin Ops
      BY <2>1, <3>2
    <3> QED BY <3>1, <3>2
  <2> QED BY <1>a, <1>2, <2>3 DEF First
<1> QED BY <1>2, <1>3, <1>4, <1>5 DEF R

\* Only the caller of an operation is named by two final parts.
LEMMA NamedOnce ==
  ASSUME NEW td \in Seq(Items), Ordered(td), Apart(td),
         NEW i \in 1 .. Len(td), td[i].do \in Final, NEW j \in 1 .. Len(td), td[j].do \in Final,
         i < j, NEW x \in Names(td, i), x \in Names(td, j)
  PROVE  /\ td[i].do \in Ops /\ j = i + 2 /\ td[i + 1].do = "release" /\ td[i + 1].slot = x
         /\ td[j].do = "free" /\ td[j].slot = x
<1>1. td[i].do \in Ops /\ j = i + 2 /\ td[i + 1].do = "release"
  BY DEF Apart
<1>2. i + 1 \in 1 .. Len(td) /\ i + 1 + 1 = j /\ i + 1 > 1
  BY <1>1
<1>3. td[j].do = "free" /\ td[i + 1].slot = td[j].slot
  BY <1>1, <1>2 DEF Ordered
<1>4. td[j].from = td[j].slot
  BY <1>3 DEF Ordered
<1> QED BY <1>1, <1>3, <1>4 DEF Names

\* A body that returns spends nothing and frees nothing.
LEMMA TailOfBody ==
  ASSUME NEW td \in Seq(Items), td # <<>>, Ordered(td), td[1].do = "body"
  PROVE  SpentIn(Tail(td)) = SpentIn(td) /\ DyingIn(Tail(td)) = DyingIn(td)
<1> DEFINE R == Tail(td)
<1>1. Len(td) \in Nat \ {0} /\ Len(R) = Len(td) - 1 /\ \A i \in 1 .. Len(td) - 1 : R[i] = td[i + 1]
  BY TailItems
<1>2. Len(td) > 2 /\ td[2].do = "release"
  BY <1>1 DEF Ordered
<1> HIDE DEF R
<1>3. ASSUME NEW i \in 1 .. Len(td), td[i].do \in Final
      PROVE  /\ i - 1 \in 1 .. Len(R) /\ R[i - 1] = td[i]
             /\ (i > 1 => td[i - 1].do # "release") <=> (i - 1 > 1 => R[i - 1 - 1].do # "release")
  <2>1. i # 1 /\ i # 2
    BY <1>2, <1>3 DEF Final
  <2> QED BY <1>1, <2>1
<1>4. ASSUME NEW i \in 1 .. Len(R), R[i].do \in Final
      PROVE  /\ i + 1 \in 1 .. Len(td) /\ R[i] = td[i + 1]
             /\ (i > 1 => R[i - 1].do # "release") <=> (i + 1 > 1 => td[i + 1 - 1].do # "release")
  <2>1. i # 1
    BY <1>1, <1>2, <1>4 DEF Final
  <2> QED BY <1>1, <2>1
<1>5. SpentIn(R) = SpentIn(td)
  BY <1>3, <1>4 DEF SpentIn
<1>6. DyingIn(R) = DyingIn(td)
  <2>1. ASSUME NEW i \in 1 .. Len(td), td[i].do = "free" PROVE i - 1 \in 1 .. Len(R) /\ R[i - 1] = td[i]
    BY <1>3, <2>1 DEF Final
  <2>2. ASSUME NEW i \in 1 .. Len(R), R[i].do = "free" PROVE i + 1 \in 1 .. Len(td) /\ R[i] = td[i + 1]
    BY <1>4, <2>2 DEF Final
  <2> QED BY <2>1, <2>2 DEF DyingIn
<1> QED BY <1>5, <1>6 DEF R

\* Once a pointer is released it is spent, until its last part is done.
LEMMA TailOfRelease ==
  ASSUME NEW td \in Seq(Items), td # <<>>, Ordered(td), Apart(td), td[1].do = "release"
  PROVE  /\ SpentIn(Tail(td)) = SpentIn(td) \cup {td[1].slot} /\ td[1].slot \notin SpentIn(td)
         /\ DyingIn(Tail(td)) = DyingIn(td)
<1> DEFINE R == Tail(td)
           s == td[1].slot
<1>1. Len(td) \in Nat \ {0} /\ Len(R) = Len(td) - 1 /\ \A i \in 1 .. Len(td) - 1 : R[i] = td[i + 1]
  BY TailItems
<1>2. Len(td) > 1 /\ td[2].do \in Final /\ td[2].slot = s /\ s \in Slots
  <2>1. 1 \in 1 .. Len(td)
    BY <1>1
  <2> QED BY <2>1, ItemParts DEF Ordered
<1> HIDE DEF R
<1>3. ASSUME NEW i \in 1 .. Len(td), td[i].do \in Final
      PROVE  /\ i - 1 \in 1 .. Len(R) /\ R[i - 1] = td[i]
             /\ i = 2 \/ ((i > 1 => td[i - 1].do # "release") <=> (i - 1 > 1 => R[i - 1 - 1].do # "release"))
  <2>1. i # 1
    BY <1>2, <1>3 DEF Final
  <2> QED BY <1>1, <2>1
<1>4. ASSUME NEW i \in 1 .. Len(R), R[i].do \in Final
      PROVE  /\ i + 1 \in 1 .. Len(td) /\ R[i] = td[i + 1]
             /\ i = 1 \/ ((i > 1 => R[i - 1].do # "release") <=> (i + 1 > 1 => td[i + 1 - 1].do # "release"))
  BY <1>1
<1>5. ASSUME NEW i \in 1 .. Len(td), td[i].do \in Final, td[i].slot = s, i > 1 => td[i - 1].do # "release"
      PROVE  FALSE
  <2>1. i > 2
    BY <1>2, <1>5 DEF Final
  <2>2. 2 \in 1 .. Len(td) /\ s \in Names(td, 2) /\ s \in Names(td, i)
    BY <1>2, <1>5 DEF Names
  <2>3. i = 2 + 2 /\ td[2 + 1].do = "release"
    BY <1>2, <1>5, <2>1, <2>2, NamedOnce
  <2> QED BY <1>5, <2>3
<1>6. s \notin SpentIn(td)
  BY <1>5 DEF SpentIn
<1>7. s \in SpentIn(R)
  <2>1. R[1] = td[2] /\ 1 \in 1 .. Len(R)
    BY <1>1, <1>2
  <2> QED BY <1>2, <2>1 DEF SpentIn
<1>8. SpentIn(R) = SpentIn(td) \cup {s}
  <2>1. ASSUME NEW x \in SpentIn(td) PROVE x \in SpentIn(R)
    BY <1>2, <1>3, <2>1 DEF SpentIn
  <2>2. ASSUME NEW x \in SpentIn(R), x # s PROVE x \in SpentIn(td)
    <3>1. PICK k \in 1 .. Len(R) : R[k].do \in Final /\ R[k].slot = x /\ (k > 1 => R[k - 1].do # "release")
      BY DEF SpentIn
    <3>2. k # 1
      BY <1>1, <1>2, <2>2, <3>1
    <3> QED BY <1>4, <3>1, <3>2 DEF SpentIn
  <2> QED BY <1>7, <2>1, <2>2
<1>9. DyingIn(R) = DyingIn(td)
  <2>1. ASSUME NEW i \in 1 .. Len(td), td[i].do = "free" PROVE i - 1 \in 1 .. Len(R) /\ R[i - 1] = td[i]
    BY <1>3, <2>1 DEF Final
  <2>2. ASSUME NEW i \in 1 .. Len(R), R[i].do = "free" PROVE i + 1 \in 1 .. Len(td) /\ R[i] = td[i + 1]
    BY <1>4, <2>2 DEF Final
  <2> QED BY <2>1, <2>2 DEF DyingIn
<1> QED BY <1>6, <1>8, <1>9 DEF R

\* An item that is done gives back its pointer; freeing ends the destruction.
LEMMA TailOfFinal ==
  ASSUME NEW td \in Seq(Items), td # <<>>, Ordered(td), Apart(td), td[1].do \in Final
  PROVE  /\ td[1].slot \in SpentIn(td) /\ SpentIn(Tail(td)) = SpentIn(td) \ {td[1].slot}
         /\ td[1].do # "free" => DyingIn(Tail(td)) = DyingIn(td)
         /\ td[1].do = "free" => /\ td[1].slot \in DyingIn(td)
                                 /\ DyingIn(Tail(td)) = DyingIn(td) \ {td[1].slot}
<1> DEFINE R == Tail(td)
           s == td[1].slot
<1>1. Len(td) \in Nat \ {0} /\ Len(R) = Len(td) - 1 /\ \A i \in 1 .. Len(td) - 1 : R[i] = td[i + 1]
  BY TailItems
<1>2. s \in Slots /\ 1 \in 1 .. Len(td) /\ s \in Names(td, 1)
  <2>1. 1 \in 1 .. Len(td)
    BY <1>1
  <2> QED BY <2>1, ItemParts
<1> HIDE DEF R
<1>3. ASSUME NEW i \in 2 .. Len(td)
      PROVE  /\ i - 1 \in 1 .. Len(R) /\ R[i - 1] = td[i]
             /\ (i > 1 => td[i - 1].do # "release") <=> (i - 1 > 1 => R[i - 1 - 1].do # "release")
  <2>1. i - 1 \in 1 .. Len(R) /\ R[i - 1] = td[i] /\ i > 1
    BY <1>1
  <2>2. CASE i = 2
    <3>1. td[i - 1].do # "release" /\ ~(i - 1 > 1)
      BY <2>2 DEF Final
    <3> QED BY <2>1, <3>1, Zenon
  <2>3. CASE i # 2
    <3>1. i - 1 > 1 /\ R[i - 1 - 1] = td[i - 1]
      BY <1>1, <2>3
    <3> QED BY <2>1, <3>1, Zenon
  <2> QED BY <2>2, <2>3
<1>4. ASSUME NEW i \in 1 .. Len(R)
      PROVE  /\ i + 1 \in 2 .. Len(td) /\ R[i] = td[i + 1]
             /\ (i > 1 => R[i - 1].do # "release") <=> (i + 1 > 1 => td[i + 1 - 1].do # "release")
  <2>1. i + 1 \in 2 .. Len(td) /\ R[i] = td[i + 1] /\ i + 1 > 1 /\ td[i + 1 - 1] = td[i]
    BY <1>1
  <2>2. CASE i = 1
    <3>1. td[i].do # "release" /\ ~(i > 1)
      BY <2>2 DEF Final
    <3> QED BY <2>1, <3>1, Zenon
  <2>3. CASE i # 1
    <3>1. i > 1 /\ R[i - 1] = td[i]
      BY <1>1, <2>3
    <3> QED BY <2>1, <3>1, Zenon
  <2> QED BY <2>2, <2>3
<1>5. ASSUME NEW i \in 2 .. Len(td), td[i].do \in Final, td[i].slot = s
      PROVE  i > 1 /\ td[i - 1].do = "release" /\ td[1].do # "free" /\ td[i].do = "free"
  <2>1. i \in 1 .. Len(td) /\ 1 < i /\ s \in Names(td, i)
    BY <1>1, <1>5 DEF Names
  <2>2. i = 1 + 2 /\ td[1 + 1].do = "release" /\ td[1].do \in Ops /\ td[i].do = "free"
    BY <1>2, <1>5, <2>1, NamedOnce
  <2> QED BY <2>2 DEF Ops
<1>6. s \in SpentIn(td)
  BY <1>2 DEF SpentIn
<1>7. SpentIn(R) = SpentIn(td) \ {s}
  <2>1. ASSUME NEW x \in SpentIn(td), x # s PROVE x \in SpentIn(R)
    <3>1. PICK k \in 1 .. Len(td) : td[k].do \in Final /\ td[k].slot = x /\ (k > 1 => td[k - 1].do # "release")
      BY DEF SpentIn
    <3>2. k \in 2 .. Len(td)
      BY <1>1, <2>1, <3>1
    <3> QED BY <1>3, <3>1, <3>2 DEF SpentIn
  <2>2. ASSUME NEW x \in SpentIn(R) PROVE x \in SpentIn(td) /\ x # s
    <3>1. PICK k \in 1 .. Len(R) : R[k].do \in Final /\ R[k].slot = x /\ (k > 1 => R[k - 1].do # "release")
      BY DEF SpentIn
    <3>2. k + 1 \in 2 .. Len(td) /\ td[k + 1].do \in Final /\ td[k + 1].slot = x
          /\ (k + 1 > 1 => td[k + 1 - 1].do # "release")
      BY <1>4, <3>1
    <3>3. x # s
      BY <1>5, <3>2
    <3>4. k + 1 \in 1 .. Len(td) /\ x \in Slots
      BY <3>2 DEF SpentIn
    <3> QED BY <3>2, <3>3, <3>4 DEF SpentIn
  <2> QED BY <2>1, <2>2
<1>8. ASSUME NEW x, x \in DyingIn(R) PROVE x \in DyingIn(td) /\ (td[1].do = "free" => x # s)
  <2>1. PICK k \in 1 .. Len(R) : R[k].do = "free" /\ R[k].slot = x
    BY <1>8 DEF DyingIn
  <2>2. k + 1 \in 2 .. Len(td) /\ td[k + 1].do = "free" /\ td[k + 1].slot = x
    BY <1>4, <2>1
  <2>3. k + 1 \in 1 .. Len(td) /\ x \in Slots
    BY <1>8, <2>2 DEF DyingIn
  <2> QED BY <1>5, <2>2, <2>3 DEF DyingIn, Final
<1>9. ASSUME NEW x, x \in DyingIn(td), td[1].do # "free" \/ x # s PROVE x \in DyingIn(R)
  <2>1. PICK k \in 1 .. Len(td) : td[k].do = "free" /\ td[k].slot = x
    BY <1>9 DEF DyingIn
  <2>2. k \in 2 .. Len(td) /\ x \in Slots
    BY <1>1, <1>9, <2>1 DEF DyingIn
  <2> QED BY <1>3, <2>1, <2>2 DEF DyingIn
<1>10. td[1].do = "free" => s \in DyingIn(td)
  BY <1>2 DEF DyingIn
<1> QED BY <1>6, <1>7, <1>8, <1>9, <1>10 DEF R

\* What a release puts in front: the destruction of an object nothing else names.
LEMMA DestroyItems ==
  ASSUME NEW td \in Seq(Items), NEW o \in Objects
  PROVE  /\ Destroy(o) \o td \in Seq(Items) /\ Len(td) \in Nat /\ Len(Destroy(o) \o td) = Len(td) + 3
         /\ (Destroy(o) \o td)[1] = Do("body", o, o)
         /\ (Destroy(o) \o td)[2] = Do("release", o, o)
         /\ (Destroy(o) \o td)[3] = Do("free", o, o)
         /\ \A i \in 1 .. Len(td) : (Destroy(o) \o td)[i + 3] = td[i]
<1>1. \A what \in {"body", "release", "free"} : Do(what, o, o) \in Items
  BY DEF Do, Items, Final, Slots
<1>2. Destroy(o) \in Seq(Items)
  BY <1>1 DEF Destroy
<1>3. /\ Len(Destroy(o)) = 3 /\ Destroy(o)[1] = Do("body", o, o)
      /\ Destroy(o)[2] = Do("release", o, o) /\ Destroy(o)[3] = Do("free", o, o)
  BY DEF Destroy
<1> DEFINE N == Destroy(o) \o td
<1>4. /\ N \in Seq(Items) /\ Len(N) = Len(Destroy(o)) + Len(td)
      /\ \A i \in 1 .. Len(Destroy(o)) + Len(td) :
           N[i] = IF i <= Len(Destroy(o)) THEN Destroy(o)[i] ELSE td[i - Len(Destroy(o))]
  BY <1>2, ConcatProperties
<1>5. Len(td) \in Nat
  OBVIOUS
<1> HIDE DEF N
<1>6. Len(N) = 3 + Len(td) /\ \A i \in 1 .. 3 + Len(td) : N[i] = IF i <= 3 THEN Destroy(o)[i] ELSE td[i - 3]
  BY <1>3, <1>4
<1>7. N[1] = Destroy(o)[1] /\ N[2] = Destroy(o)[2] /\ N[3] = Destroy(o)[3]
  BY <1>5, <1>6
<1>8. \A i \in 1 .. Len(td) : N[i + 3] = td[i]
  <2> SUFFICES ASSUME NEW i \in 1 .. Len(td) PROVE N[i + 3] = td[i]
    OBVIOUS
  <2>1. PICK k \in 1 .. 3 + Len(td) : k = i + 3
    BY <1>5
  <2>2. N[k] = td[k - 3] /\ k - 3 = i
    BY <1>6, <2>1
  <2> QED BY <2>1, <2>2
<1> QED BY <1>3, <1>4, <1>5, <1>6, <1>7, <1>8 DEF N

\* Destroying an object nothing under way is about keeps what is left in order.
LEMMA DestroyIsOrdered ==
  ASSUME NEW td \in Seq(Items), td # <<>>, Ordered(td), Apart(td), td[1].do \in Final,
         NEW o \in Objects, \A i \in 1 .. Len(td) : o \notin Names(td, i)
  PROVE  /\ Ordered(Destroy(o) \o td) /\ Apart(Destroy(o) \o td)
         /\ SpentIn(Destroy(o) \o td) = SpentIn(td)
         /\ DyingIn(Destroy(o) \o td) = DyingIn(td) \cup {o}
         /\ \A t \in 1 .. Len(Destroy(o) \o td) : First(Destroy(o) \o td, t) =>
              /\ t - 3 \in 1 .. Len(td) /\ First(td, t - 3)
              /\ (Destroy(o) \o td)[t] = td[t - 3] /\ Names(Destroy(o) \o td, t) = Names(td, t - 3)
              /\ Behind(Destroy(o) \o td, t) = Behind(td, t - 3)
              /\ Caller(Destroy(o) \o td, t) = Caller(td, t - 3)
<1> DEFINE N == Destroy(o) \o td
<1>1. /\ N \in Seq(Items) /\ Len(td) \in Nat \ {0} /\ Len(N) = Len(td) + 3
      /\ N[1] = Do("body", o, o) /\ N[2] = Do("release", o, o) /\ N[3] = Do("free", o, o)
      /\ \A i \in 1 .. Len(td) : N[i + 3] = td[i]
  BY DestroyItems, TailItems
<1> HIDE DEF N
<1>2. /\ N[1].do = "body" /\ N[1].slot = o /\ N[1].from = o
      /\ N[2].do = "release" /\ N[2].slot = o /\ N[2].from = o
      /\ N[3].do = "free" /\ N[3].slot = o /\ N[3].from = o /\ Names(N, 3) = {o}
  BY <1>1 DEF Do, Names
<1>3. ASSUME NEW i \in 4 .. Len(N)
      PROVE  i - 3 \in 1 .. Len(td) /\ N[i] = td[i - 3] /\ (i < Len(N) => N[i + 1] = td[i - 3 + 1])
  <2>1. i - 3 \in 1 .. Len(td) /\ N[i - 3 + 3] = td[i - 3]
    BY <1>1
  <2>2. i < Len(N) => i - 3 + 1 \in 1 .. Len(td) /\ N[i - 3 + 1 + 3] = td[i - 3 + 1]
    BY <1>1
  <2> QED BY <2>1, <2>2
<1>4. Ordered(N)
  <2> SUFFICES ASSUME NEW i \in 1 .. Len(N)
               PROVE  /\ N[i].do \notin {"copy", "move"} => N[i].from = N[i].slot
                      /\ N[i].do \in {"copy", "move"} => N[i].from # N[i].slot
                      /\ N[i].do = "body" => /\ i = 1 /\ Len(N) > 2 /\ N[2].do = "release" /\ N[3].do = "free"
                                             /\ N[2].slot = N[1].slot
                      /\ N[i].do = "release" => /\ i < Len(N) /\ N[i + 1].do \in Final
                                                /\ N[i + 1].slot = N[i].slot
                                                /\ i > 1 => N[i + 1].do = "free"
                      /\ N[i].do = "free" => /\ N[i].slot \in Objects
                                             /\ i < Len(N) /\ N[i + 1].do \in Final
                      /\ N[i].do = "gone" => N[i].slot \in Roots
                      /\ N[i].do \in Ops /\ i < Len(N) => N[i + 1].do = "release"
    BY DEF Ordered
  <2>1. CASE i = 1
    BY <1>1, <1>2, <2>1 DEF Final, Ops
  <2>2. CASE i = 2
    BY <1>1, <1>2, <2>2 DEF Final, Ops
  <2>3. CASE i = 3
    <3>1. N[4] = td[1]
      BY <1>1
    <3> QED BY <1>1, <1>2, <2>3, <3>1 DEF Final, Ops
  <2>4. CASE i > 3
    <3>1. i \in 4 .. Len(N)
      BY <2>4, <1>1
    <3>2. /\ i - 3 \in 1 .. Len(td) /\ N[i] = td[i - 3] /\ (i < Len(N) => N[i + 1] = td[i - 3 + 1])
          /\ i < Len(N) <=> i - 3 < Len(td)
      BY <1>1, <1>3, <3>1
    <3>3. N[i].do # "body"
      <4>1. i - 3 = 1 => N[i].do \in Final
        BY <3>2
      <4> QED BY <3>2, <4>1 DEF Ordered, Final
    <3>4. N[i].do # "release" \/ i - 3 > 1
      BY <3>2 DEF Final
    <3> QED BY <3>2, <3>3, <3>4 DEF Ordered
  <2> QED BY <1>1, <2>1, <2>2, <2>3, <2>4
<1>5. Apart(N)
  <2> SUFFICES ASSUME NEW i \in 1 .. Len(N), NEW j \in 1 .. Len(N),
                      i < j, N[i].do \in Final, N[j].do \in Final, Names(N, i) \cap Names(N, j) # {}
               PROVE  N[i].do \in Ops /\ j = i + 2 /\ N[i + 1].do = "release"
    BY DEF Apart
  <2>1. i > 2 /\ j \in 4 .. Len(N)
    BY <1>1, <1>2 DEF Final
  <2>2. j - 3 \in 1 .. Len(td) /\ N[j] = td[j - 3] /\ Names(N, j) = Names(td, j - 3)
    BY <1>3, <2>1 DEF Names
  <2>3. i # 3
    BY <1>2, <2>2
  <2>4. i \in 4 .. Len(N)
    BY <2>1, <2>3
  <2>5. /\ i - 3 \in 1 .. Len(td) /\ N[i] = td[i - 3] /\ Names(N, i) = Names(td, i - 3)
        /\ N[i + 1] = td[i - 3 + 1]
    BY <1>3, <2>4 DEF Names
  <2> QED BY <2>2, <2>5 DEF Apart
<1>6. SpentIn(N) = SpentIn(td)
  <2>1. ASSUME NEW x \in SpentIn(N) PROVE x \in SpentIn(td)
    <3>1. PICK k \in 1 .. Len(N) : N[k].do \in Final /\ N[k].slot = x /\ (k > 1 => N[k - 1].do # "release")
      BY DEF SpentIn
    <3>2. k \in 4 .. Len(N)
      BY <1>1, <1>2, <3>1 DEF Final
    <3>3. k - 3 \in 1 .. Len(td) /\ N[k] = td[k - 3]
      BY <1>3, <3>2
    <3>4. k - 3 > 1 => k - 1 \in 4 .. Len(N) /\ N[k - 1] = td[k - 1 - 3]
      BY <1>3, <3>2
    <3>5. k - 3 > 1 => td[k - 3 - 1].do # "release"
      BY <3>1, <3>2, <3>4
    <3> QED BY <3>1, <3>3, <3>5 DEF SpentIn
  <2>2. ASSUME NEW x \in SpentIn(td) PROVE x \in SpentIn(N)
    <3>1. PICK k \in 1 .. Len(td) : td[k].do \in Final /\ td[k].slot = x /\ (k > 1 => td[k - 1].do # "release")
      BY DEF SpentIn
    <3>2. k + 3 \in 1 .. Len(N) /\ N[k + 3] = td[k]
      BY <1>1
    <3>3. k > 1 => N[k - 1 + 3] = td[k - 1]
      BY <1>1
    <3>4. k = 1 => N[k + 3 - 1] = N[3]
      OBVIOUS
    <3>5. k + 3 > 1 => N[k + 3 - 1].do # "release"
      BY <1>2, <3>1, <3>3, <3>4
    <3> QED BY <3>1, <3>2, <3>5 DEF SpentIn
  <2> QED BY <2>1, <2>2
<1>7. DyingIn(N) = DyingIn(td) \cup {o}
  <2>1. ASSUME NEW x \in DyingIn(N) PROVE x \in DyingIn(td) \cup {o}
    <3>1. PICK k \in 1 .. Len(N) : N[k].do = "free" /\ N[k].slot = x
      BY DEF DyingIn
    <3>2. k \in 4 .. Len(N) => k - 3 \in 1 .. Len(td) /\ N[k] = td[k - 3]
      BY <1>3
    <3>3. k \in 4 .. Len(N) \/ k \in {1, 2, 3}
      BY <1>1
    <3> QED BY <1>2, <3>1, <3>2, <3>3 DEF DyingIn
  <2>2. ASSUME NEW x \in DyingIn(td) PROVE x \in DyingIn(N)
    <3>1. PICK k \in 1 .. Len(td) : td[k].do = "free" /\ td[k].slot = x
      BY DEF DyingIn
    <3>2. k + 3 \in 1 .. Len(N) /\ N[k + 3] = td[k]
      BY <1>1
    <3> QED BY <3>1, <3>2 DEF DyingIn
  <2>3. o \in DyingIn(N)
    <3>1. 3 \in 1 .. Len(N) /\ o \in Slots
      BY <1>1 DEF Slots
    <3> QED BY <1>2, <3>1 DEF DyingIn
  <2> QED BY <2>1, <2>2, <2>3
<1>8. ASSUME NEW t \in 1 .. Len(N), First(N, t)
      PROVE  /\ t - 3 \in 1 .. Len(td) /\ First(td, t - 3)
             /\ N[t] = td[t - 3] /\ Names(N, t) = Names(td, t - 3)
             /\ Behind(N, t) = Behind(td, t - 3)
             /\ Caller(N, t) = Caller(td, t - 3)
  <2>1. t \in 4 .. Len(N)
    BY <1>1, <1>2, <1>8 DEF First, Ops, Final
  <2>2. t - 3 \in 1 .. Len(td) /\ N[t] = td[t - 3] /\ Names(N, t) = Names(td, t - 3) /\ Len(N) = Len(td) + 3
    BY <1>1, <1>3, <2>1 DEF Names
  <2>3. \A i \in 1 .. t - 3 - 1 : i + 3 \in 1 .. t - 1 /\ N[i + 3] = td[i]
    BY <1>1, <2>1
  <2>4. First(td, t - 3)
    BY <1>8, <2>2, <2>3 DEF First
  <2>5. Behind(N, t) = Behind(td, t - 3)
    <3>1. ASSUME NEW x, NEW k \in t + 1 .. Len(N), x \in Names(N, k)
          PROVE  \E l \in t - 3 + 1 .. Len(td) : x \in Names(td, l)
      <4>1. k \in 4 .. Len(N) /\ k - 3 \in t - 3 + 1 .. Len(td)
        BY <1>1, <2>1
      <4>2. N[k] = td[k - 3]
        BY <1>3, <4>1
      <4> QED BY <3>1, <4>1, <4>2 DEF Names
    <3>2. ASSUME NEW x, NEW k \in t - 3 + 1 .. Len(td), x \in Names(td, k)
          PROVE  \E l \in t + 1 .. Len(N) : x \in Names(N, l)
      <4>1. k + 3 \in t + 1 .. Len(N) /\ k \in 1 .. Len(td)
        BY <1>1, <2>1
      <4>2. N[k + 3] = td[k]
        BY <1>1, <4>1
      <4> QED BY <3>2, <4>1, <4>2 DEF Names
    <3> QED BY <3>1, <3>2 DEF Behind
  <2>6. Caller(N, t) = Caller(td, t - 3)
    <3>1. t < Len(N) => N[t + 1] = td[t - 3 + 1]
      BY <1>3, <2>1
    <3>2. t < Len(N) <=> t - 3 < Len(td)
      BY <2>1, <2>2
    <3> QED BY <3>1, <3>2 DEF Caller
  <2> QED BY <2>2, <2>4, <2>5, <2>6
<1> QED BY <1>4, <1>5, <1>6, <1>7, <1>8 DEF N

\* What an operation puts in front that is called when rest is left to do: that
\* of the destructor whose body calls, or nothing.
Begun(what, d, s, rest) == <<Do("release", d, d), Do(what, d, s)>> \o rest

CallsFrom(rest) == rest = <<>> \/ (Len(rest) > 1 /\ rest[1].do = "release" /\ rest[2].do = "free")

\* The items of a call: the release, what follows it, and the rest.
LEMMA BegunItems ==
  ASSUME NEW what \in Ops, NEW d \in Slots, NEW s \in Slots, NEW rest \in Seq(Items)
  PROVE  /\ Begun(what, d, s, rest) \in Seq(Items)
         /\ Len(rest) \in Nat /\ Len(Begun(what, d, s, rest)) = Len(rest) + 2
         /\ Begun(what, d, s, rest)[1] = Do("release", d, d)
         /\ Begun(what, d, s, rest)[2] = Do(what, d, s)
         /\ \A i \in 1 .. Len(rest) : Begun(what, d, s, rest)[i + 2] = rest[i]
<1> DEFINE two == <<Do("release", d, d), Do(what, d, s)>>
<1>1. Do("release", d, d) \in Items /\ Do(what, d, s) \in Items
  BY DEF Do, Items, Ops
<1>2. two \in Seq(Items) /\ Len(two) = 2 /\ two[1] = Do("release", d, d) /\ two[2] = Do(what, d, s)
  BY <1>1
<1> HIDE DEF two
<1> DEFINE N == two \o rest
<1>3. /\ N \in Seq(Items) /\ Len(N) = Len(two) + Len(rest)
      /\ \A i \in 1 .. Len(two) + Len(rest) : N[i] = IF i <= Len(two) THEN two[i] ELSE rest[i - Len(two)]
  BY <1>2, ConcatProperties
<1>4. Len(rest) \in Nat /\ N = Begun(what, d, s, rest)
  BY DEF Begun, two
<1> HIDE DEF N
<1>5. Len(N) = 2 + Len(rest) /\ \A i \in 1 .. 2 + Len(rest) : N[i] = IF i <= 2 THEN two[i] ELSE rest[i - 2]
  BY <1>2, <1>3
<1>6. N[1] = two[1] /\ N[2] = two[2]
  BY <1>4, <1>5
<1>7. \A i \in 1 .. Len(rest) : N[i + 2] = rest[i]
  <2> SUFFICES ASSUME NEW i \in 1 .. Len(rest) PROVE N[i + 2] = rest[i]
    OBVIOUS
  <2>1. PICK k \in 1 .. 2 + Len(rest) : k = i + 2
    BY <1>4
  <2>2. N[k] = rest[k - 2] /\ k - 2 = i
    BY <1>5, <2>1
  <2> QED BY <2>1, <2>2
<1> QED BY <1>2, <1>3, <1>4, <1>5, <1>6, <1>7

\* A call on pointers that nothing around it names keeps what is left in order.
LEMMA BegunIsOrdered ==
  ASSUME NEW what \in Ops, NEW d \in Slots, NEW s \in Slots, NEW rest \in Seq(Items),
         Ordered(rest), Apart(rest), CallsFrom(rest),
         d \notin Behind(rest, 2), s \notin Behind(rest, 2),
         what \in {"copy", "move"} <=> d # s,
         what = "gone" => d \in Roots
  PROVE  /\ Ordered(Begun(what, d, s, rest)) /\ Apart(Begun(what, d, s, rest))
         /\ SpentIn(Begun(what, d, s, rest)) = SpentIn(rest) /\ d \notin SpentIn(rest)
         /\ DyingIn(Begun(what, d, s, rest)) = DyingIn(rest)
         /\ \A t \in 1 .. Len(Begun(what, d, s, rest)) : First(Begun(what, d, s, rest), t) => t = 2
         /\ Names(Begun(what, d, s, rest), 2) = {d, s}
         /\ Behind(Begun(what, d, s, rest), 2) = Behind(rest, 0)
         /\ Caller(Begun(what, d, s, rest), 2) = IF rest = <<>> THEN {} ELSE {rest[1].slot}
<1> DEFINE N == Begun(what, d, s, rest)
<1>1. /\ N \in Seq(Items) /\ Len(rest) \in Nat /\ Len(N) = Len(rest) + 2
      /\ N[1] = Do("release", d, d) /\ N[2] = Do(what, d, s)
      /\ \A i \in 1 .. Len(rest) : N[i + 2] = rest[i]
  BY BegunItems
<1> HIDE DEF N
<1>2. /\ N[1].do = "release" /\ N[1].slot = d /\ N[1].from = d
      /\ N[2].do = what /\ N[2].slot = d /\ N[2].from = s /\ Names(N, 2) = {d, s}
  BY <1>1 DEF Do, Names
<1>3. ASSUME NEW i \in 3 .. Len(N)
      PROVE  i - 2 \in 1 .. Len(rest) /\ N[i] = rest[i - 2] /\ (i < Len(N) => N[i + 1] = rest[i - 2 + 1])
  <2>1. i - 2 \in 1 .. Len(rest) /\ N[i - 2 + 2] = rest[i - 2]
    BY <1>1
  <2>2. i < Len(N) => i - 2 + 1 \in 1 .. Len(rest) /\ N[i - 2 + 1 + 2] = rest[i - 2 + 1]
    BY <1>1
  <2> QED BY <2>1, <2>2
<1>a. /\ what \in Final \ {"free"} /\ what \notin {"body", "release", "free"}
      /\ 2 < Len(N) => N[3].do = "release" /\ 3 < Len(N) /\ N[4].do = "free"
  <2>1. what \in Final \ {"free"} /\ what \notin {"body", "release", "free"}
    BY DEF Ops, Final
  <2>2. 2 < Len(N) => rest # <<>>
    BY <1>1
  <2>3. rest # <<>> => Len(rest) > 1 /\ rest[1].do = "release" /\ rest[2].do = "free"
    BY DEF CallsFrom
  <2>4. rest # <<>> => N[1 + 2] = rest[1] /\ N[2 + 2] = rest[2] /\ 3 < Len(N)
    BY <1>1, <2>3
  <2> QED BY <2>1, <2>2, <2>3, <2>4
<1>4. Ordered(N)
  <2> SUFFICES ASSUME NEW i \in 1 .. Len(N)
               PROVE  /\ N[i].do \notin {"copy", "move"} => N[i].from = N[i].slot
                      /\ N[i].do \in {"copy", "move"} => N[i].from # N[i].slot
                      /\ N[i].do # "body"
                      /\ N[i].do = "release" => /\ i < Len(N) /\ N[i + 1].do \in Final
                                                /\ N[i + 1].slot = N[i].slot
                                                /\ i > 1 => N[i + 1].do = "free"
                      /\ N[i].do = "free" => /\ N[i].slot \in Objects
                                             /\ i < Len(N) /\ N[i + 1].do \in Final
                      /\ N[i].do = "gone" => N[i].slot \in Roots
                      /\ N[i].do \in Ops /\ i < Len(N) => N[i + 1].do = "release"
    BY DEF Ordered
  <2>1. CASE i = 1
    BY <1>1, <1>2, <1>a, <2>1 DEF Ops, Final
  <2>2. CASE i = 2
    BY <1>1, <1>2, <1>a, <2>2 DEF Ops
  <2>3. CASE i > 2
    <3>1. i \in 3 .. Len(N)
      BY <1>1, <2>3
    <3>2. /\ i - 2 \in 1 .. Len(rest) /\ N[i] = rest[i - 2] /\ (i < Len(N) => N[i + 1] = rest[i - 2 + 1])
          /\ i < Len(N) <=> i - 2 < Len(rest)
      BY <1>1, <1>3, <3>1
    <3>3. N[i].do # "body"
      <4>1. i = 3 => N[i].do = "release"
        BY <1>a, <3>1
      <4> QED BY <3>1, <3>2, <4>1 DEF Ordered
    <3>4. N[i].do = "release" => N[i + 1].do = "free"
      <4>1. i = 3 => N[i + 1].do = "free"
        BY <1>a, <3>1
      <4> QED BY <3>1, <3>2, <4>1 DEF Ordered
    <3> QED BY <3>2, <3>3, <3>4 DEF Ordered
  <2> QED BY <1>1, <2>1, <2>2, <2>3
<1>b. ASSUME NEW j \in 5 .. Len(N) PROVE d \notin Names(N, j) /\ s \notin Names(N, j)
  <2>1. j - 2 \in 2 + 1 .. Len(rest) /\ N[j] = rest[j - 2]
    BY <1>1, <1>3
  <2>2. Names(N, j) = Names(rest, j - 2)
    BY <2>1 DEF Names
  <2> QED BY <2>1, <2>2 DEF Behind
<1>5. Apart(N)
  <2> SUFFICES ASSUME NEW i \in 1 .. Len(N), NEW j \in 1 .. Len(N),
                      i < j, N[i].do \in Final, N[j].do \in Final, Names(N, i) \cap Names(N, j) # {}
               PROVE  N[i].do \in Ops /\ j = i + 2 /\ N[i + 1].do = "release"
    BY DEF Apart
  <2>1. i > 1 /\ j \in 3 .. Len(N)
    BY <1>1, <1>2 DEF Final
  <2>2. CASE i = 2
    <3>1. j = 4
      <4>1. j # 3
        BY <1>a, <2>1 DEF Final
      <4>2. ~(j \in 5 .. Len(N))
        BY <1>2, <1>b, <2>2
      <4> QED BY <2>1, <4>1, <4>2
    <3> QED BY <1>2, <1>a, <2>1, <2>2, <3>1
  <2>3. CASE i > 2
    <3>1. i \in 3 .. Len(N)
      BY <2>3, <1>1
    <3>2. /\ i - 2 \in 1 .. Len(rest) /\ N[i] = rest[i - 2] /\ Names(N, i) = Names(rest, i - 2)
          /\ N[i + 1] = rest[i - 2 + 1]
          /\ j - 2 \in 1 .. Len(rest) /\ N[j] = rest[j - 2] /\ Names(N, j) = Names(rest, j - 2)
      BY <1>3, <2>1, <3>1 DEF Names
    <3> QED BY <3>2 DEF Apart
  <2> QED BY <2>1, <2>2, <2>3
<1>6. SpentIn(N) = SpentIn(rest)
  <2>1. ASSUME NEW x \in SpentIn(N) PROVE x \in SpentIn(rest)
    <3>1. PICK k \in 1 .. Len(N) : N[k].do \in Final /\ N[k].slot = x /\ (k > 1 => N[k - 1].do # "release")
      BY DEF SpentIn
    <3>2. k \in 5 .. Len(N)
      <4>1. k # 1 /\ k # 2
        BY <1>2, <3>1 DEF Final
      <4>2. k # 3 /\ k # 4
        BY <1>a, <3>1 DEF Final
      <4> QED BY <1>1, <4>1, <4>2
    <3>3. k - 2 \in 1 .. Len(rest) /\ N[k] = rest[k - 2]
      BY <1>3, <3>2
    <3>4. k - 1 \in 3 .. Len(N) /\ N[k - 1] = rest[k - 1 - 2]
      BY <1>3, <3>2
    <3>5. rest[k - 2 - 1].do # "release"
      BY <3>1, <3>2, <3>4
    <3> QED BY <3>1, <3>3, <3>5 DEF SpentIn
  <2>2. ASSUME NEW x \in SpentIn(rest) PROVE x \in SpentIn(N)
    <3>1. PICK k \in 1 .. Len(rest) : rest[k].do \in Final /\ rest[k].slot = x /\ (k > 1 => rest[k - 1].do # "release")
      BY DEF SpentIn
    <3>2. k + 2 \in 1 .. Len(N) /\ N[k + 2] = rest[k]
      BY <1>1
    <3>3. k > 1 => N[k - 1 + 2] = rest[k - 1]
      BY <1>1
    <3>4. k # 1
      <4>1. rest # <<>>
        OBVIOUS
      <4> QED BY <3>1, <4>1 DEF CallsFrom, Final
    <3>5. N[k + 2 - 1].do # "release"
      BY <3>1, <3>3, <3>4
    <3> QED BY <3>1, <3>2, <3>5 DEF SpentIn
  <2> QED BY <2>1, <2>2
<1>7. DyingIn(N) = DyingIn(rest)
  <2>1. ASSUME NEW x \in DyingIn(N) PROVE x \in DyingIn(rest)
    <3>1. PICK k \in 1 .. Len(N) : N[k].do = "free" /\ N[k].slot = x
      BY DEF DyingIn
    <3>2. k \in 3 .. Len(N) => k - 2 \in 1 .. Len(rest) /\ N[k] = rest[k - 2]
      BY <1>3
    <3>3. k \in 3 .. Len(N) \/ k \in {1, 2}
      BY <1>1
    <3> QED BY <1>2, <1>a, <3>1, <3>2, <3>3 DEF DyingIn
  <2>2. ASSUME NEW x \in DyingIn(rest) PROVE x \in DyingIn(N)
    <3>1. PICK k \in 1 .. Len(rest) : rest[k].do = "free" /\ rest[k].slot = x
      BY DEF DyingIn
    <3>2. k + 2 \in 1 .. Len(N) /\ N[k + 2] = rest[k]
      BY <1>1
    <3> QED BY <3>1, <3>2 DEF DyingIn
  <2> QED BY <2>1, <2>2
<1>8. ASSUME NEW t \in 1 .. Len(N), First(N, t) PROVE t = 2
  <2>1. t # 1
    BY <1>2, <1>8 DEF First, Ops, Final
  <2>2. t > 2 => 2 \in 1 .. t - 1
    OBVIOUS
  <2> QED BY <1>2, <1>8, <2>1, <2>2 DEF First
<1>9. Behind(N, 2) = Behind(rest, 0)
  <2>1. ASSUME NEW x, NEW k \in 2 + 1 .. Len(N), x \in Names(N, k)
        PROVE  \E l \in 0 + 1 .. Len(rest) : x \in Names(rest, l)
    <3>1. k - 2 \in 0 + 1 .. Len(rest) /\ N[k] = rest[k - 2]
      BY <1>1, <1>3
    <3> QED BY <2>1, <3>1 DEF Names
  <2>2. ASSUME NEW x, NEW k \in 0 + 1 .. Len(rest), x \in Names(rest, k)
        PROVE  \E l \in 2 + 1 .. Len(N) : x \in Names(N, l)
    <3>1. k + 2 \in 2 + 1 .. Len(N) /\ N[k + 2] = rest[k]
      BY <1>1
    <3> QED BY <2>2, <3>1 DEF Names
  <2> QED BY <2>1, <2>2 DEF Behind
<1>10. Caller(N, 2) = IF rest = <<>> THEN {} ELSE {rest[1].slot}
  <2>1. 2 < Len(N) <=> rest # <<>>
    BY <1>1
  <2>2. rest # <<>> => N[1 + 2] = rest[1]
    BY <1>1, <2>1
  <2>3. rest # <<>> => N[2 + 1] = rest[1]
    BY <2>2
  <2> QED BY <2>1, <2>3 DEF Caller
<1>11. d \notin SpentIn(rest)
  <2> SUFFICES ASSUME NEW k \in 1 .. Len(rest), rest[k].do \in Final, rest[k].slot = d,
                      k > 1 => rest[k - 1].do # "release"
               PROVE  FALSE
    BY DEF SpentIn
  <2>1. rest # <<>>
    OBVIOUS
  <2>2. k # 1 /\ k # 2
    BY <2>1 DEF CallsFrom, Final
  <2>3. k \in 2 + 1 .. Len(rest) /\ d \in Names(rest, k)
    BY <2>2 DEF Names
  <2> QED BY <2>3 DEF Behind
<1> QED BY <1>2, <1>4, <1>5, <1>6, <1>7, <1>8, <1>9, <1>10, <1>11 DEF N

\* What any item names, the item that ends that part names too.
LEMMA NamedByFinal ==
  ASSUME NEW td \in Seq(Items), Ordered(td), NEW i \in 1 .. Len(td), td[i].do # "body",
         NEW x \in Names(td, i)
  PROVE  \E j \in i .. i + 1 : j \in 1 .. Len(td) /\ td[j].do \in Final /\ x \in Names(td, j)
<1>1. CASE td[i].do \in Final
  BY <1>1
<1>2. CASE td[i].do = "release"
  <2>1. i < Len(td) /\ td[i + 1].do \in Final /\ td[i + 1].slot = x
    BY <1>2 DEF Ordered, Names
  <2> QED BY <2>1 DEF Names
<1> QED BY <1>1, <1>2, ItemParts

\* An object being destroyed is named by an operation only if it called it.
LEMMA DyingNamed ==
  ASSUME NEW td \in Seq(Items), Ordered(td), Apart(td), NEW t \in 1 .. Len(td), First(td, t),
         NEW x \in Names(td, t), x \in DyingIn(td)
  PROVE  x \in Caller(td, t)
<1>1. PICK k \in 1 .. Len(td) : td[k].do = "free" /\ td[k].slot = x
  BY DEF DyingIn
<1>2. td[t].do \in Final /\ td[k].do \in Final /\ td[k].do \notin Ops /\ k # t /\ x \in Names(td, k)
  BY <1>1 DEF First, Ops, Final, Names
<1>3. ~(k < t)
  BY <1>2, NamedOnce
<1>4. t < k
  BY <1>2, <1>3
<1>5. k = t + 2 /\ td[t + 1].slot = x
  BY <1>2, <1>4, NamedOnce
<1> QED BY <1>5 DEF Caller

\* What is left to do names an object that is gone no more.
LEMMA FreedUnnamed ==
  ASSUME NEW td \in Seq(Items), td # <<>>, Ordered(td), Apart(td), td[1].do = "free",
         NEW i \in 1 .. Len(Tail(td))
  PROVE  td[1].slot \notin Names(Tail(td), i)
<1> DEFINE s == td[1].slot
<1> SUFFICES ASSUME s \in Names(td, i + 1) PROVE FALSE
  BY TailParts
<1>1. i + 1 \in 1 .. Len(td) /\ i + 1 > 1
  BY TailItems
<1>2. PICK l \in 1 .. Len(td) : l = i + 1
  BY <1>1
<1>3. td[l].do # "body"
  BY <1>1, <1>2 DEF Ordered
<1>4. PICK j \in l .. l + 1 : j \in 1 .. Len(td) /\ td[j].do \in Final /\ s \in Names(td, j)
  BY <1>2, <1>3, NamedByFinal
<1>5. 1 \in 1 .. Len(td) /\ td[1].do \in Final /\ s \in Names(td, 1) /\ 1 < j
  BY <1>1, <1>2, <1>4 DEF Final, Names
<1>6. td[1].do \in Ops
  BY <1>4, <1>5, NamedOnce
<1> QED BY <1>6 DEF Ops

\* When the pointers were u and b existed: the operations' operands were held by
\* other pointers.  Now they are w and c exists, and nothing that held them is lost.
Sheltered(td, u, w, b, c, a) ==
  /\ \A i \in 1 .. Len(td) : Names(td, i) \cap Objects \subseteq a
  /\ \A y \in Slots \ Behind(td, 0) : u[y] \in {nullptr, w[y]}
  /\ \A y \in b : y \in c \/ u[y] = nullptr
  /\ \A x \in (Behind(td, 0) \cap a) \ DyingIn(td) : x \in Held(Cut(u, Behind(td, 0)), b)

\* Operations stay possible when what they name is held by pointers they do not.
LEMMA KeptBehind ==
  ASSUME NEW td \in Seq(Items), Ordered(td), Apart(td),
         NEW b \in SUBSET Slots, NEW c \in SUBSET Slots, NEW a \in SUBSET Objects,
         NEW u \in Pointers, NEW w \in Pointers, Sheltered(td, u, w, b, c, a)
  PROVE  OperandsStay(td, w, c) /\ OthersStay(td, w, c, a)
<1> USE DEF Sheltered
<1> DEFINE B == Behind(td, 0)
           q == Cut(u, B)
<1>1. q \in Pointers /\ \A y \in Slots : (y \in B => q[y] = nullptr) /\ (y \notin B => q[y] = u[y])
  BY DEF Cut, Pointers
<1>2. ASSUME NEW t \in 1 .. Len(td)
      PROVE  /\ td[t].slot \in B /\ td[t].from \in B /\ Names(td, t) \subseteq B /\ Behind(td, t) \subseteq B
             /\ td[t].slot \in Slots /\ td[t].from \in Slots
  <2>1. t \in 0 + 1 .. Len(td)
    OBVIOUS
  <2>2. Names(td, t) \subseteq B
    BY <2>1, ItemParts DEF Behind
  <2>3. Behind(td, t) \subseteq B
    BY DEF Behind
  <2> QED BY <2>2, <2>3, ItemParts
<1>a. \A y \in b : y \in c \/ q[y] = nullptr
  BY <1>1
<1>b. \A x \in (B \cap a) \ DyingIn(td) : x \in Held(q, b)
  OBVIOUS
<1>c. \A y \in Slots \ B : q[y] \in {nullptr, w[y]}
  BY <1>1
<1> HIDE DEF B, q
<1>3. ASSUME NEW t \in 1 .. Len(td), First(td, t), NEW x \in Names(td, t) \cap Objects
      PROVE  x \in Caller(td, t) \/ x \in Held([w EXCEPT ![td[t].slot] = nullptr], c \cup Caller(td, t))
  <2> DEFINE r == [w EXCEPT ![td[t].slot] = nullptr]
  <2>1. CASE x \in DyingIn(td)
    BY <1>3, <2>1, DyingNamed
  <2>2. CASE x \notin DyingIn(td)
    <3>1. x \in Held(q, b)
      BY <1>2, <1>b, <2>2
    <3>2. r \in Pointers
      BY DEF Pointers
    <3>3. \A y \in Slots : q[y] \in {nullptr, r[y]}
      BY <1>1, <1>2, <1>c DEF Pointers
    <3>4. Caller(td, t) \subseteq Slots
      <4>1. t < Len(td) => t + 1 \in 1 .. Len(td)
        OBVIOUS
      <4> QED BY <4>1, ItemParts DEF Caller
    <3> HIDE DEF r
    <3>5. Held(q, b) \subseteq Held(r, c \cup Caller(td, t))
      <4>1. c \cup Caller(td, t) \in SUBSET Slots /\ \A y \in b : y \in c \cup Caller(td, t) \/ q[y] = nullptr
        BY <3>4, <1>a
      <4> QED BY <1>1, <3>2, <3>3, <4>1, HeldMore
    <3> QED BY <3>1, <3>5 DEF r
  <2> QED BY <2>1, <2>2
<1>4. ASSUME NEW t \in 1 .. Len(td), First(td, t), NEW x \in (Behind(td, t) \cap a) \ DyingIn(td)
      PROVE  /\ x \in Held(Cut([w EXCEPT ![td[t].slot] = nullptr], Behind(td, t)), c)
             /\ x \in Held(Cut(Moved(w, td[t].slot, td[t].from), Behind(td, t)), c)
  <2> DEFINE r1 == Cut([w EXCEPT ![td[t].slot] = nullptr], Behind(td, t))
             r2 == Cut(Moved(w, td[t].slot, td[t].from), Behind(td, t))
  <2>1. x \in Held(q, b)
    BY <1>2, <1>b
  <2>2. r1 \in Pointers /\ r2 \in Pointers
    BY <1>2 DEF Pointers, Cut, Moved
  <2>3. \A y \in Slots \ B : r1[y] = w[y] /\ r2[y] = w[y]
    <3> SUFFICES ASSUME NEW y \in Slots \ B PROVE r1[y] = w[y] /\ r2[y] = w[y]
      OBVIOUS
    <3>1. y \notin Behind(td, t) /\ y # td[t].slot /\ y # td[t].from
      BY <1>2
    <3> QED BY <3>1 DEF Pointers, Cut, Moved
  <2> HIDE DEF r1, r2
  <2>4. \A y \in Slots : q[y] \in {nullptr, r1[y]} /\ q[y] \in {nullptr, r2[y]}
    BY <1>1, <1>c, <2>3
  <2>5. Held(q, b) \subseteq Held(r1, c) /\ Held(q, b) \subseteq Held(r2, c)
    BY <1>1, <1>a, <2>2, <2>4, HeldMore
  <2> QED BY <2>1, <2>5 DEF r1, r2
<1> QED BY <1>3, <1>4 DEF OperandsStay, OthersStay

-----------------------------------------------------------------------------
(* Counting.                                                               *)

\* Overwriting a pointer moves at most one from what it pointed to to what it points to.
LEMMA Repoint ==
  ASSUME NEW v \in Pointers, NEW s \in Slots, NEW x \in Objects \cup {nullptr}, NEW o \in Objects
  PROVE  /\ [v EXCEPT ![s] = x] \in Pointers
         /\ Cardinality(Pointing([v EXCEPT ![s] = x], o))
              = Cardinality(Pointing(v, o)) - (IF v[s] = o THEN 1 ELSE 0) + (IF x = o THEN 1 ELSE 0)
         /\ Cardinality(Pointing(v, o)) = 1 /\ v[s] = o => \A y \in Slots \ {s} : v[y] # o
         /\ Cardinality(Pointing(v, o)) \in Nat
         /\ Cardinality(Pointing(v, o)) = 0 <=> \A y \in Slots : v[y] # o
<1> DEFINE w == [v EXCEPT ![s] = x]
           P == Pointing(v, o)
           Q == Pointing(w, o)
           M == P \ {s}
<1>1. IsFiniteSet(Slots)
  BY PtrAssumption, FS_Union DEF Slots
<1>2. P \in SUBSET Slots /\ IsFiniteSet(P)
  BY <1>1, FS_Subset DEF Pointing
<1>3. s \in P <=> v[s] = o
  BY DEF Pointing
<1>4. P = {} <=> \A y \in Slots : v[y] # o
  BY DEF Pointing
<1>5. M = {} => \A y \in Slots \ {s} : v[y] # o
  BY DEF Pointing
<1>6. Q = IF x = o THEN M \cup {s} ELSE M
  BY DEF Pointers, Pointing
<1>7. w \in Pointers
  BY DEF Pointers
<1>8. s \notin M
  OBVIOUS
<1> HIDE DEF P, Q, M, w
<1>9. IsFiniteSet(M) /\ Cardinality(M) = IF s \in P THEN Cardinality(P) - 1 ELSE Cardinality(P)
  BY <1>2, FS_RemoveElement DEF M
<1>10. Cardinality(P) \in Nat /\ Cardinality(M) \in Nat
  BY <1>2, <1>9, FS_CardinalityType
<1>11. Cardinality(M \cup {s}) = Cardinality(M) + 1
  BY <1>8, <1>9, FS_AddElement
<1>12. Cardinality(Q) = Cardinality(P) - (IF v[s] = o THEN 1 ELSE 0) + (IF x = o THEN 1 ELSE 0)
  BY <1>3, <1>6, <1>9, <1>10, <1>11
<1>13. Cardinality(P) = 0 <=> \A y \in Slots : v[y] # o
  BY <1>2, <1>4, FS_EmptySet
<1>14. Cardinality(P) = 1 /\ v[s] = o => \A y \in Slots \ {s} : v[y] # o
  <2>1. Cardinality(M) = 0 => M = {}
    BY <1>9, FS_EmptySet
  <2> QED BY <1>3, <1>5, <1>9, <2>1
<1> QED BY <1>7, <1>10, <1>12, <1>13, <1>14 DEF P, Q, w

\* A count is zero when nothing points.
LEMMA NonePointing ==
  ASSUME NEW v \in Pointers, NEW o \in Objects
  PROVE  Cardinality(Pointing(v, o)) \in Nat /\ (Cardinality(Pointing(v, o)) = 0 <=> \A y \in Slots : v[y] # o)
BY Repoint DEF Slots

\* What points to an object is counted, so the object is not being destroyed.
LEMMA CountedSource ==
  ASSUME NEW v \in Pointers, NEW r \in [Objects -> Nat], NEW a \in SUBSET Objects, NEW d,
         Counted(v, r, a, d),
         NEW y \in Slots, v[y] # nullptr
  PROVE  v[y] \in a /\ v[y] \in Objects /\ v[y] \notin d /\ r[v[y]] \in Nat \ {0}
<1>1. v[y] \in a /\ v[y] \in Objects
  BY DEF Counted
<1>2. r[v[y]] = Cardinality(Pointing(v, v[y])) /\ r[v[y]] \in Nat
  BY <1>1 DEF Counted
<1>3. r[v[y]] # 0
  BY <1>1, <1>2, NonePointing
<1>4. v[y] \notin d
  BY <1>3 DEF Counted
<1> QED BY <1>1, <1>2, <1>3, <1>4

Added(r, x) == IF x = nullptr THEN r ELSE [r EXCEPT ![x] = @ + 1]
Removed(r, x) == IF x = nullptr THEN r ELSE [r EXCEPT ![x] = @ - 1]

\* A copy adds a pointer and counts it.
LEMMA CopiedCounts ==
  ASSUME NEW v \in Pointers, NEW r \in [Objects -> Nat], NEW a \in SUBSET Objects, NEW d,
         nullptr \notin d, Counted(v, r, a, d),
         NEW s \in Slots, v[s] = nullptr, NEW x \in (a \ d) \cup {nullptr}
  PROVE  /\ [v EXCEPT ![s] = x] \in Pointers /\ Added(r, x) \in [Objects -> Nat]
         /\ Counted([v EXCEPT ![s] = x], Added(r, x), a, d)
<1> DEFINE w == [v EXCEPT ![s] = x]
           r2 == Added(r, x)
<1>1. r2 \in [Objects -> Nat] /\ \A o \in Objects : r2[o] = r[o] + (IF x = o THEN 1 ELSE 0)
  BY PtrAssumption DEF Added
<1>2. x \in Objects \cup {nullptr} /\ nullptr \notin Objects
  BY PtrAssumption
<1>3. w \in Pointers /\ \A y \in Slots : w[y] \in a \cup {nullptr}
  BY <1>2 DEF Pointers, Counted
<1>4. \A o \in a : r2[o] = Cardinality(Pointing(w, o))
  <2> SUFFICES ASSUME NEW o \in a PROVE r2[o] = Cardinality(Pointing(w, o))
    OBVIOUS
  <2>1. o \in Objects /\ r[o] = Cardinality(Pointing(v, o)) /\ r[o] \in Nat
    BY DEF Counted
  <2>2. Cardinality(Pointing(w, o))
          = Cardinality(Pointing(v, o)) - (IF v[s] = o THEN 1 ELSE 0) + (IF x = o THEN 1 ELSE 0)
    BY <1>2, <2>1, Repoint
  <2> HIDE DEF w, r2
  <2> QED BY <1>1, <1>2, <2>1, <2>2
<1> HIDE DEF w, r2
<1>5. (\A o \in d : r2[o] = 0) /\ (\A o \in a \ d : r2[o] > 0)
  <2>1. \A o \in d : r[o] = 0 /\ o # x
    BY <1>2 DEF Counted
  <2>2. \A o \in d : o \in Objects => r2[o] = 0
    BY <1>1, <2>1
  <2>3. \A o \in a \ d : r[o] > 0 /\ r[o] \in Nat
    BY DEF Counted
  <2>4. \A o \in a \ d : r2[o] > 0
    BY <1>1, <2>3
  <2>5. \A o \in d : o \notin Objects => r2[o] = r[o]
    BY <1>2 DEF r2, Added
  <2> QED BY <2>1, <2>2, <2>4, <2>5
<1> QED BY <1>1, <1>3, <1>4, <1>5 DEF Counted, w, r2

\* A move leaves every number of pointers as it was.
LEMMA MovedCounts ==
  ASSUME NEW v \in Pointers, NEW r \in [Objects -> Nat], NEW a \in SUBSET Objects, NEW d,
         Counted(v, r, a, d),
         NEW s \in Slots, v[s] = nullptr, NEW f \in Slots, f # s
  PROVE  Moved(v, s, f) \in Pointers /\ Counted(Moved(v, s, f), r, a, d)
<1> DEFINE m == [v EXCEPT ![s] = v[f]]
           w == Moved(v, s, f)
<1>1. v[f] \in Objects \cup {nullptr} /\ nullptr \notin Objects /\ nullptr \in Objects \cup {nullptr}
  BY PtrAssumption DEF Pointers
<1>2. m \in Pointers
  BY DEF Pointers
<1>5. m[f] = v[f] /\ w = [m EXCEPT ![f] = nullptr]
  BY DEF Pointers, Moved
<1>3. w \in Pointers /\ \A y \in Slots : w[y] \in a \cup {nullptr}
  BY DEF Pointers, Moved, Counted
<1>4. \A o \in a : r[o] = Cardinality(Pointing(w, o))
  <2> SUFFICES ASSUME NEW o \in a PROVE r[o] = Cardinality(Pointing(w, o))
    OBVIOUS
  <2>1. o \in Objects /\ r[o] = Cardinality(Pointing(v, o)) /\ r[o] \in Nat
    BY DEF Counted
  <2>2. Cardinality(Pointing(m, o))
          = Cardinality(Pointing(v, o)) - (IF v[s] = o THEN 1 ELSE 0) + (IF v[f] = o THEN 1 ELSE 0)
    BY <1>1, <2>1, Repoint
  <2> HIDE DEF m, w
  <2>3. Cardinality(Pointing([m EXCEPT ![f] = nullptr], o))
          = Cardinality(Pointing(m, o)) - (IF m[f] = o THEN 1 ELSE 0) + (IF nullptr = o THEN 1 ELSE 0)
    BY <1>1, <1>2, <2>1, Repoint
  <2> QED BY <1>1, <1>5, <2>1, <2>2, <2>3
<1> QED BY <1>3, <1>4 DEF Counted

\* A pointer to an object made with it.
LEMMA FirstCounts ==
  ASSUME NEW v \in Pointers, NEW r \in [Objects -> Nat], NEW a \in SUBSET Objects,
         NEW d \in SUBSET a, Counted(v, r, a, d),
         NEW s \in Slots, v[s] = nullptr, NEW x \in Objects \ a, r[x] = 0
  PROVE  /\ [v EXCEPT ![s] = x] \in Pointers /\ Added(r, x) \in [Objects -> Nat]
         /\ Counted([v EXCEPT ![s] = x], Added(r, x), a \cup {x}, d)
<1> DEFINE w == [v EXCEPT ![s] = x]
           r2 == Added(r, x)
<1>1. r2 \in [Objects -> Nat] /\ \A o \in Objects : r2[o] = r[o] + (IF x = o THEN 1 ELSE 0)
  BY PtrAssumption DEF Added
<1>2. nullptr \notin Objects /\ x \in Objects \cup {nullptr}
  BY PtrAssumption
<1>3. w \in Pointers /\ \A y \in Slots : w[y] \in (a \cup {x}) \cup {nullptr}
  BY <1>2 DEF Pointers, Counted
<1>4. \A o \in a \cup {x} : r[o] = Cardinality(Pointing(v, o))
  <2>1. \A y \in Slots : v[y] # x
    BY <1>2 DEF Counted
  <2>2. Cardinality(Pointing(v, x)) = 0
    BY <2>1, NonePointing
  <2> QED BY <2>2 DEF Counted
<1>5. \A o \in a \cup {x} : r2[o] = Cardinality(Pointing(w, o))
  <2> SUFFICES ASSUME NEW o \in a \cup {x} PROVE r2[o] = Cardinality(Pointing(w, o))
    OBVIOUS
  <2>1. o \in Objects /\ r[o] = Cardinality(Pointing(v, o)) /\ r[o] \in Nat
    BY <1>4
  <2>2. Cardinality(Pointing(w, o))
          = Cardinality(Pointing(v, o)) - (IF v[s] = o THEN 1 ELSE 0) + (IF x = o THEN 1 ELSE 0)
    BY <1>2, <2>1, Repoint
  <2> HIDE DEF w, r2
  <2> QED BY <1>1, <1>2, <2>1, <2>2
<1> HIDE DEF w, r2
<1>6. (\A o \in d : r2[o] = 0) /\ (\A o \in (a \cup {x}) \ d : r2[o] > 0)
  <2>1. \A o \in d : o # x /\ r2[o] = 0
    BY <1>1 DEF Counted
  <2>2. \A o \in a \ d : r2[o] > 0
    <3>1. \A o \in a \ d : r[o] > 0 /\ r[o] \in Nat
      BY DEF Counted
    <3> QED BY <1>1, <3>1
  <2>3. r2[x] > 0
    BY <1>1
  <2> QED BY <2>1, <2>2, <2>3
<1> QED BY <1>1, <1>3, <1>5, <1>6 DEF Counted, w, r2

\* Two pointers that are exchanged.
LEMMA SwappedCounts ==
  ASSUME NEW v \in Pointers, NEW r \in [Objects -> Nat], NEW a \in SUBSET Objects, NEW d,
         Counted(v, r, a, d),
         NEW s \in Slots, NEW f \in Slots
  PROVE  /\ [v EXCEPT ![s] = v[f], ![f] = v[s]] \in Pointers
         /\ Counted([v EXCEPT ![s] = v[f], ![f] = v[s]], r, a, d)
<1> DEFINE m == [v EXCEPT ![s] = v[f]]
           w == [v EXCEPT ![s] = v[f], ![f] = v[s]]
<1>1. v[f] \in Objects \cup {nullptr} /\ v[s] \in Objects \cup {nullptr}
  BY DEF Pointers
<1>2. m \in Pointers /\ m[f] = v[f] /\ w = [m EXCEPT ![f] = v[s]]
  BY DEF Pointers
<1>3. w \in Pointers /\ \A y \in Slots : w[y] \in a \cup {nullptr}
  BY DEF Pointers, Counted
<1>4. \A o \in a : r[o] = Cardinality(Pointing(w, o))
  <2> SUFFICES ASSUME NEW o \in a PROVE r[o] = Cardinality(Pointing(w, o))
    OBVIOUS
  <2>1. o \in Objects /\ r[o] = Cardinality(Pointing(v, o)) /\ r[o] \in Nat
    BY DEF Counted
  <2>2. Cardinality(Pointing(m, o))
          = Cardinality(Pointing(v, o)) - (IF v[s] = o THEN 1 ELSE 0) + (IF v[f] = o THEN 1 ELSE 0)
    BY <1>1, <2>1, Repoint
  <2> HIDE DEF m, w
  <2>3. Cardinality(Pointing([m EXCEPT ![f] = v[s]], o))
          = Cardinality(Pointing(m, o)) - (IF m[f] = o THEN 1 ELSE 0) + (IF v[s] = o THEN 1 ELSE 0)
    <3>1. \A x \in Objects \cup {nullptr} :
            Cardinality(Pointing([m EXCEPT ![f] = x], o))
              = Cardinality(Pointing(m, o)) - (IF m[f] = o THEN 1 ELSE 0) + (IF x = o THEN 1 ELSE 0)
      <4> TAKE x \in Objects \cup {nullptr}
      <4>1. m \in Pointers /\ o \in Objects
        BY <1>2, <2>1
      <4> QED BY <4>1, Repoint
    <3> QED BY <1>1, <3>1
  <2> QED BY <1>2, <2>1, <2>2, <2>3
<1> QED BY <1>3, <1>4 DEF Counted

\* One that gives up its reference to x; d also has x then, if that was the last.
LEMMA ReleasedCounts ==
  ASSUME NEW v \in Pointers, NEW r \in [Objects -> Nat], NEW a \in SUBSET Objects, NEW d,
         Counted(v, r, a, d),
         NEW s \in Slots, NEW e, e = IF v[s] # nullptr /\ r[v[s]] = 1 THEN d \cup {v[s]} ELSE d
  PROVE  /\ [v EXCEPT ![s] = nullptr] \in Pointers /\ Removed(r, v[s]) \in [Objects -> Nat]
         /\ Counted([v EXCEPT ![s] = nullptr], Removed(r, v[s]), a, e)
<1> DEFINE w == [v EXCEPT ![s] = nullptr]
           x == v[s]
           r2 == Removed(r, x)
<1>1. x \in Objects \cup {nullptr} /\ nullptr \notin Objects /\ nullptr \in Objects \cup {nullptr}
  BY PtrAssumption DEF Pointers
<1>2. x # nullptr => x \in a /\ x \in Objects /\ x \notin d /\ r[x] \in Nat \ {0}
  BY CountedSource
<1> HIDE DEF x
<1>3. r2 \in [Objects -> Nat] /\ \A o \in Objects : r2[o] = r[o] - (IF x = o THEN 1 ELSE 0)
  BY <1>1, <1>2 DEF Removed
<1>4. w \in Pointers /\ \A y \in Slots : w[y] \in a \cup {nullptr}
  BY DEF Pointers, Counted
<1>5. \A o \in a : r2[o] = Cardinality(Pointing(w, o))
  <2> SUFFICES ASSUME NEW o \in a PROVE r2[o] = Cardinality(Pointing(w, o))
    OBVIOUS
  <2>1. o \in Objects /\ r[o] = Cardinality(Pointing(v, o)) /\ r[o] \in Nat
    BY DEF Counted
  <2>2. Cardinality(Pointing(w, o))
          = Cardinality(Pointing(v, o)) - (IF v[s] = o THEN 1 ELSE 0) + (IF nullptr = o THEN 1 ELSE 0)
    BY <1>1, <2>1, Repoint
  <2> HIDE DEF w, r2
  <2> QED BY <1>1, <1>3, <2>1, <2>2 DEF x
<1> HIDE DEF w, r2
<1>6. e = IF x # nullptr /\ r[x] = 1 THEN d \cup {x} ELSE d
  BY DEF x
<1>7. (\A o \in e : r2[o] = 0) /\ (\A o \in a \ e : r2[o] > 0)
  <2>1. \A o \in d : r[o] = 0 /\ (o \in Objects => r2[o] = 0)
    BY <1>2, <1>3 DEF Counted
  <2>2. \A o \in d : o \notin Objects => r2[o] = r[o]
    BY <1>1 DEF r2, Removed
  <2>3. x # nullptr /\ r[x] = 1 => r2[x] = 0
    BY <1>2, <1>3
  <2>4. \A o \in a \ d : r[o] > 0 /\ r[o] \in Nat /\ o \in Objects
    BY DEF Counted
  <2>5. \A o \in a \ e : r2[o] > 0
    BY <1>1, <1>3, <1>6, <2>4
  <2> QED BY <1>6, <2>1, <2>2, <2>3, <2>5
<1> QED BY <1>3, <1>4, <1>5, <1>7 DEF Counted, w, r2, x

\* With one reference left there is no other pointer.
LEMMA SolePointer ==
  ASSUME NEW v \in Pointers, NEW s \in Slots, v[s] \in Objects, Cardinality(Pointing(v, v[s])) = 1
  PROVE  \A y \in Slots \ {s} : v[y] # v[s]
BY Repoint

\* CopiedCounts for a copy from f.
LEMMA CopyCounts ==
  ASSUME NEW td, NEW v, NEW b, NEW a, NEW r, Typed(td, v, b, a, r), Counted(v, r, a, DyingIn(td)),
         NEW s \in Slots, v[s] = nullptr, NEW f \in Slots
  PROVE  /\ [v EXCEPT ![s] = v[f]] \in Pointers /\ Added(r, v[f]) \in [Objects -> Nat]
         /\ Counted([v EXCEPT ![s] = v[f]], Added(r, v[f]), a, DyingIn(td))
<1>1. v \in Pointers /\ r \in [Objects -> Nat] /\ a \in SUBSET Objects
  BY DEF Typed
<1>2. nullptr \notin DyingIn(td)
  BY PtrAssumption DEF DyingIn, Slots
<1>3. v[f] # nullptr => v[f] \in a /\ v[f] \notin DyingIn(td)
  <2> SUFFICES ASSUME v[f] # nullptr PROVE v[f] \in a /\ v[f] \notin DyingIn(td)
    OBVIOUS
  <2>1. ASSUME NEW d, Counted(v, r, a, d) PROVE v[f] \in a /\ v[f] \notin d
    BY <1>1, <2>1, CountedSource
  <2> QED BY <2>1
<1> DEFINE x == v[f]
<1>4. x \in (a \ DyingIn(td)) \cup {nullptr}
  BY <1>3
<1> HIDE DEF x
<1>5. /\ [v EXCEPT ![s] = x] \in Pointers /\ Added(r, x) \in [Objects -> Nat]
      /\ Counted([v EXCEPT ![s] = x], Added(r, x), a, DyingIn(td))
  BY <1>1, <1>2, <1>4, CopiedCounts
<1> QED BY <1>5 DEF x

\* If there is an operation under way there is an innermost one.
LEMMA FirstOp ==
  ASSUME NEW td \in Seq(Items), NEW j \in 1 .. Len(td), td[j].do \in Ops
  PROVE  \E t \in 1 .. j : First(td, t)
<1> DEFINE less == {xy \in Nat \X Nat : xy[1] < xy[2]}
           T == {k \in 1 .. j : td[k].do \in Ops}
<1>1. T \subseteq Nat /\ T # {}
  OBVIOUS
<1>2. PICK t \in T : \A y \in T : ~(<<y, t>> \in less)
  <2>1. IsWellFoundedOn(less, Nat)
    BY NatLessThanWellFounded DEF OpToRel
  <2> HIDE DEF less, T
  <2> QED BY <1>1, <2>1, WFMin
<1>3. \A i \in 1 .. t - 1 : td[i].do \notin Ops
  <2> SUFFICES ASSUME NEW i \in 1 .. t - 1, td[i].do \in Ops PROVE FALSE
    OBVIOUS
  <2>1. i \in T /\ <<i, t>> \in less
    BY <1>2
  <2> QED BY <1>2, <2>1
<1> QED BY <1>2, <1>3 DEF First

\* The pointer inside an object that is being destroyed is out of reach.
LEMMA ReleasedDying ==
  ASSUME NEW td, NEW v, NEW b, NEW a, NEW r, Typed(td, v, b, a, r), Good(td, v, b, a, r),
         td # <<>>, td[1].do = "release", NEW t \in 1 .. Len(td), First(td, t)
  PROVE  /\ t > 1 /\ (t = 2 => td[t].slot = td[1].slot)
         /\ t > 2 => /\ td[1].slot \in Objects \ b /\ td[1].slot \notin Names(td, t)
                     /\ td[1].slot \notin Caller(td, t)
                     /\ \A y \in Slots : v[y] # td[1].slot
<1> DEFINE s == td[1].slot
<1>1. /\ td \in Seq(Items) /\ Ordered(td) /\ Apart(td) /\ Counted(v, r, a, DyingIn(td)) /\ v \in Pointers
      /\ b \subseteq Roots
  BY DEF Typed, Good
<1>2. Len(td) > 1 /\ td[2].do \in Final /\ td[2].slot = s /\ 1 \in 1 .. Len(td) /\ 2 \in 1 .. Len(td)
  <2>1. 1 \in 1 .. Len(td)
    BY <1>1, TailItems
  <2> QED BY <1>1, <2>1 DEF Ordered
<1>3. t > 1
  BY DEF First, Ops, Final
<1>4. ASSUME t > 2
      PROVE  s \in Objects \ b /\ s \notin Names(td, t) /\ s \notin Caller(td, t) /\ \A y \in Slots : v[y] # s
  <2>1. td[2].do = "free"
    <3>1. 2 \in 1 .. t - 1
      BY <1>4
    <3> QED BY <1>2, <3>1 DEF First, Ops
  <2>2. s \in Objects /\ s \in DyingIn(td)
    <3>1. s \in Objects
      BY <1>1, <1>2, <2>1 DEF Ordered
    <3> QED BY <1>2, <2>1, <3>1 DEF DyingIn, Slots
  <2>3. s \notin b
    BY <1>1, <2>2, PtrAssumption
  <2>4. ASSUME NEW k \in 1 .. Len(td), k > 2, td[k].do \in Final, s \in Names(td, k) PROVE FALSE
    <3>1. s \in Names(td, 2)
      BY <1>2 DEF Names
    <3>2. td[2].do \in Ops
      BY <1>1, <1>2, <2>4, <3>1, NamedOnce
    <3> QED BY <2>1, <3>2 DEF Ops
  <2>5. s \notin Names(td, t)
    BY <1>4, <2>4 DEF First, Ops
  <2>6. s \notin Caller(td, t)
    <3> SUFFICES ASSUME t < Len(td), td[t + 1].slot = s PROVE FALSE
      BY DEF Caller
    <3>1. PICK l \in 1 .. Len(td) : l = t + 1
      OBVIOUS
    <3>2. td[l].do = "release" /\ td[l].slot = s /\ l > 1
      BY <1>1, <3>1 DEF Ordered, First
    <3>3. l < Len(td) /\ td[l + 1].do \in Final /\ td[l + 1].slot = s
      BY <1>1, <3>2 DEF Ordered
    <3>4. l + 1 \in 1 .. Len(td) /\ l + 1 > 2 /\ s \in Names(td, l + 1)
      BY <3>2, <3>3 DEF Names
    <3> QED BY <2>4, <3>3, <3>4
  <2>7. \A y \in Slots : v[y] # s
    <3>1. s \in Slots /\ nullptr \in Objects \cup {nullptr} /\ r[s] = 0
      BY <1>1, <2>2 DEF Slots, Counted
    <3>2. s \in a => Cardinality(Pointing(v, s)) = 0
      BY <1>1, <3>1 DEF Counted
    <3>3. s \in a => \A y \in Slots : v[y] # s
      BY <1>1, <2>2, <3>2, NonePointing
    <3>4. s \notin a => \A y \in Slots : v[y] # s
      BY <1>1, <2>2, PtrAssumption DEF Counted
    <3> QED BY <3>3, <3>4
  <2> QED BY <2>2, <2>3, <2>5, <2>6, <2>7
<1> QED BY <1>2, <1>3, <1>4

\* What the pointers still hold when one of them gives up its reference.
LEMMA ReleasedStay ==
  ASSUME NEW td, NEW v, NEW b, NEW a, NEW r, Typed(td, v, b, a, r), Good(td, v, b, a, r),
         td # <<>>, td[1].do = "release"
  PROVE  /\ OperandsStay(Tail(td), [v EXCEPT ![td[1].slot] = nullptr], b)
         /\ OthersStay(Tail(td), [v EXCEPT ![td[1].slot] = nullptr], b, a)
<1> DEFINE s == td[1].slot
           w == [v EXCEPT ![s] = nullptr]
<1>1. /\ td \in Seq(Items) /\ Ordered(td) /\ Apart(td) /\ v \in Pointers
      /\ OperandsStay(td, v, b) /\ OthersStay(td, v, b, a) /\ b \subseteq Slots
      /\ td[1].do \notin Ops
  BY DEF Typed, Good, Final, Ops, Slots
<1>d. DyingIn(Tail(td)) = DyingIn(td)
  BY <1>1, TailOfRelease
<1>2. s \in Slots /\ nullptr \notin Slots
  <2>1. 1 \in 1 .. Len(td)
    BY <1>1, TailItems
  <2> QED BY <1>1, <2>1, ItemParts, PtrAssumption DEF Slots
<1>3. w \in Pointers /\ w[s] = nullptr /\ \A y \in Slots \ {s} : w[y] = v[y]
  BY <1>1, <1>2 DEF Pointers
<1> HIDE DEF w
<1> SUFFICES ASSUME NEW n \in 1 .. Len(Tail(td)), First(Tail(td), n), NEW t \in 1 .. Len(td), t = n + 1
             PROVE  /\ \A x \in Names(td, t) \cap Objects :
                          x \in Caller(td, t) \/ x \in Held([w EXCEPT ![td[t].slot] = nullptr], b \cup Caller(td, t))
                    /\ \A x \in (Behind(td, t) \cap a) \ DyingIn(td) :
                          /\ x \in Held(Cut([w EXCEPT ![td[t].slot] = nullptr], Behind(td, t)), b)
                          /\ td[t].do = "move" => x \in Held(Cut(Moved(w, td[t].slot, td[t].from), Behind(td, t)), b)
  <2>1. ASSUME NEW n \in 1 .. Len(Tail(td))
        PROVE  /\ n + 1 \in 1 .. Len(td) /\ Tail(td)[n] = td[n + 1]
               /\ Names(Tail(td), n) = Names(td, n + 1) /\ Behind(Tail(td), n) = Behind(td, n + 1)
               /\ Caller(Tail(td), n) = Caller(td, n + 1)
    BY <1>1, TailParts
  <2> QED BY <1>d, <2>1 DEF OperandsStay, OthersStay, w
<1>4. First(td, t)
  BY <1>1, TailParts
<1>5. /\ td[t].slot \in Names(td, t) /\ td[t].from \in Names(td, t) /\ td[t].slot \in Slots /\ td[t].from \in Slots
      /\ td[t].do = "move" => td[t].from # td[t].slot
  BY <1>1, ItemParts DEF Ordered
<1>6. CASE t = 2
  <2>1. td[t].slot = s
    BY <1>4, <1>6, ReleasedDying
  <2>2. [w EXCEPT ![td[t].slot] = nullptr] = [v EXCEPT ![td[t].slot] = nullptr]
    BY <1>1, <2>1 DEF w, Pointers
  <2>3. td[t].do = "move" => Moved(w, td[t].slot, td[t].from) = Moved(v, td[t].slot, td[t].from)
    BY <1>1, <1>5, <2>1 DEF w, Pointers, Moved
  <2> QED BY <1>1, <1>4, <2>2, <2>3 DEF OperandsStay, OthersStay
<1>7. CASE t > 2
  <2>1. s \in Objects \ b /\ s \notin Names(td, t) /\ s \notin Caller(td, t) /\ \A y \in Slots : v[y] # s
    BY <1>4, <1>7, ReleasedDying
  <2> DEFINE q1 == [v EXCEPT ![td[t].slot] = nullptr]
             q2 == Cut([v EXCEPT ![td[t].slot] = nullptr], Behind(td, t))
             q3 == Cut(Moved(v, td[t].slot, td[t].from), Behind(td, t))
             r1 == [w EXCEPT ![td[t].slot] = nullptr]
             r2 == Cut([w EXCEPT ![td[t].slot] = nullptr], Behind(td, t))
             r3 == Cut(Moved(w, td[t].slot, td[t].from), Behind(td, t))
  <2>2. /\ \A y \in Slots : q1[y] # s /\ q2[y] # s /\ q3[y] # s
        /\ \A y \in Slots : /\ q1[y] \in Slots \cup {nullptr} /\ q2[y] \in Slots \cup {nullptr}
                            /\ q3[y] \in Slots \cup {nullptr}
        /\ \A y \in Slots : /\ q1[y] \in Objects \cup {nullptr} /\ q2[y] \in Objects \cup {nullptr}
                            /\ q3[y] \in Objects \cup {nullptr}
    BY <1>1, <1>2, <1>5, <2>1 DEF Pointers, Cut, Moved, Slots
  <2>3. \A y \in Slots \ {s} : q1[y] = r1[y] /\ q2[y] = r2[y] /\ q3[y] = r3[y]
    BY <1>1, <1>2, <1>3, <1>5, <2>1 DEF Pointers, Cut, Moved
  <2> DEFINE C == Objects \ {s}
  <2> HIDE DEF q1, q2, q3, r1, r2, r3
  <2>4. \A y \in Slots : q1[y] \in C \cup {nullptr} /\ q2[y] \in C \cup {nullptr} /\ q3[y] \in C \cup {nullptr}
    BY <2>2
  <2>5. Closed(q1, C) /\ Closed(q2, C) /\ Closed(q3, C)
    BY <2>4 DEF Closed, Slots
  <2>6. Caller(td, t) \subseteq Slots
    <3>1. t < Len(td) => t + 1 \in 1 .. Len(td)
      OBVIOUS
    <3> QED BY <1>1, <3>1, ItemParts DEF Caller
  <2>7. \A S \in SUBSET (Slots \ {s}) : \A y \in S \cup C : /\ q1[y] \in {nullptr, r1[y]}
                                                         /\ q2[y] \in {nullptr, r2[y]} /\ q3[y] \in {nullptr, r3[y]}
    BY <2>3 DEF Slots
  <2>8. Held(q1, b \cup Caller(td, t)) \subseteq Held(r1, b \cup Caller(td, t))
    <3>1. b \cup Caller(td, t) \in SUBSET (Slots \ {s})
      BY <1>1, <2>1, <2>6
    <3> QED BY <2>4, <2>5, <2>7, <3>1, HeldAgree
  <2>9. Held(q2, b) \subseteq Held(r2, b) /\ Held(q3, b) \subseteq Held(r3, b)
    <3>1. b \in SUBSET (Slots \ {s})
      BY <1>1, <2>1
    <3> QED BY <2>4, <2>5, <2>7, <3>1, HeldAgree
  <2>10. \A x \in Names(td, t) \cap Objects : x \in Caller(td, t) \/ x \in Held(q1, b \cup Caller(td, t))
    BY <1>1, <1>4 DEF OperandsStay, q1
  <2>11. \A x \in (Behind(td, t) \cap a) \ DyingIn(td) :
            x \in Held(q2, b) /\ (td[t].do = "move" => x \in Held(q3, b))
    BY <1>1, <1>4 DEF OthersStay, q2, q3
  <2>12. \A x \in Names(td, t) \cap Objects : x \in Caller(td, t) \/ x \in Held(r1, b \cup Caller(td, t))
    BY <2>8, <2>10
  <2>13. \A x \in (Behind(td, t) \cap a) \ DyingIn(td) :
            x \in Held(r2, b) /\ (td[t].do = "move" => x \in Held(r3, b))
    BY <2>9, <2>11
  <2> QED BY <2>12, <2>13 DEF r1, r2, r3
<1>8. t > 1
  BY <1>4, ReleasedDying
<1>9. t = 2 \/ t > 2
  BY <1>8
<1> QED BY <1>6, <1>7, <1>9, Zenon

\* What counts as pointed to is counted and not being destroyed.
LEMMA Pointed ==
  ASSUME NEW td, NEW v, NEW b, NEW a, NEW r, Typed(td, v, b, a, r), Good(td, v, b, a, r),
         NEW y \in Slots, v[y] # nullptr
  PROVE  /\ v[y] \in a /\ v[y] \in Objects /\ v[y] \notin DyingIn(td) /\ r[v[y]] \in Nat \ {0}
         /\ r[v[y]] = 1 => \A z \in Slots \ {y} : v[z] # v[y]
<1>1. /\ v \in Pointers /\ r \in [Objects -> Nat] /\ a \in SUBSET Objects
      /\ Counted(v, r, a, DyingIn(td))
  BY DEF Typed, Good
<1>2. /\ v[y] \in a /\ v[y] \in Objects /\ v[y] \notin DyingIn(td) /\ r[v[y]] \in Nat \ {0}
  BY <1>1, CountedSource
<1>3. r[v[y]] = Cardinality(Pointing(v, v[y])) /\ nullptr \in Objects \cup {nullptr}
  BY <1>1, <1>2 DEF Counted
<1>4. r[v[y]] = 1 => \A z \in Slots \ {y} : v[z] # v[y]
  BY <1>1, <1>2, <1>3, SolePointer
<1> QED BY <1>2, <1>4

\* An object that the last reference is about to be given up to is named by nothing
\* left to do: what is named has another pointer that holds it.
LEMMA LastUnnamed ==
  ASSUME NEW td, NEW v, NEW b, NEW a, NEW r, Typed(td, v, b, a, r), Good(td, v, b, a, r),
         td # <<>>, td[1].do = "release", NEW o \in Objects, v[td[1].slot] = o, r[o] = 1,
         NEW i \in 1 .. Len(td)
  PROVE  o \notin Names(td, i)
<1> DEFINE s == td[1].slot
<1>1. /\ td \in Seq(Items) /\ Ordered(td) /\ Apart(td) /\ v \in Pointers /\ r \in [Objects -> Nat]
      /\ Counted(v, r, a, DyingIn(td)) /\ a \in SUBSET Objects /\ b \subseteq Slots
  BY DEF Typed, Good, Slots
<1>2. s \in Slots /\ nullptr \notin Slots
  <2>1. 1 \in 1 .. Len(td)
    BY <1>1, TailItems
  <2> QED BY <1>1, <2>1, ItemParts, PtrAssumption DEF Slots
<1>3. o \in a /\ o \notin DyingIn(td) /\ \A y \in Slots \ {s} : v[y] # o
  <2>1. v[s] # nullptr
    BY PtrAssumption
  <2>2. /\ v[s] \in a /\ v[s] \notin DyingIn(td)
        /\ r[v[s]] = 1 => \A y \in Slots \ {s} : v[y] # v[s]
    BY <1>2, <2>1, Pointed
  <2> QED BY <2>2
<1> SUFFICES ASSUME o \in Names(td, i) PROVE FALSE
  OBVIOUS
<1>4. td[i].do # "body"
  BY <1>1 DEF Ordered
<1>5. PICK j \in 1 .. Len(td) : td[j].do \in Final /\ o \in Names(td, j)
  BY <1>1, <1>4, NamedByFinal
<1>6. td[j].do \in Ops
  <2>1. td[j].do = "free" => td[j].slot = o
    BY <1>1, <1>5 DEF Ordered, Names
  <2>2. td[j].do = "free" => o \in DyingIn(td)
    BY <2>1 DEF DyingIn, Slots
  <2> QED BY <1>3, <1>5, <2>2 DEF Ops
<1>7. PICK t \in 1 .. j : First(td, t)
  BY <1>1, <1>6, FirstOp
<1>8. t \in 1 .. Len(td) /\ td[t].do \in Ops /\ td[t].slot \in Slots
  <2>1. t \in 1 .. Len(td)
    BY <1>7
  <2> QED BY <1>1, <1>7, <2>1, ItemParts DEF First
<1>9. Caller(td, t) \subseteq Slots /\ Caller(td, t) \subseteq DyingIn(td)
  <2> SUFFICES ASSUME t < Len(td)
               PROVE  td[t + 1].slot \in Slots /\ td[t + 1].slot \in DyingIn(td)
    BY DEF Caller
  <2>1. PICK l \in 1 .. Len(td) : l = t + 1
    BY <1>8
  <2>2. td[l].do = "release" /\ l > 1
    BY <1>1, <1>8, <2>1 DEF Ordered
  <2>3. l < Len(td) /\ td[l + 1].do = "free" /\ td[l + 1].slot = td[l].slot
    BY <1>1, <2>2 DEF Ordered
  <2>4. l + 1 \in 1 .. Len(td) /\ td[l].slot \in Slots
    BY <1>1, <2>3, ItemParts
  <2> QED BY <2>1, <2>3, <2>4 DEF DyingIn
<1>10. t = 2 => td[t].slot = s
  BY <1>7, <1>8, ReleasedDying
<1>11. t > 2 => s \notin b /\ s \notin Caller(td, t) /\ \A y \in Slots : v[y] # s
  BY <1>7, <1>8, ReleasedDying
<1>12. t = 2 \/ t > 2
  <2>1. t > 1
    BY <1>7, <1>8, ReleasedDying
  <2> QED BY <2>1
<1>13. ASSUME NEW q \in Pointers, q[td[t].slot] = nullptr, \A y \in Slots : q[y] \in {nullptr, v[y]},
              NEW S \in SUBSET Slots, S \subseteq b \cup Caller(td, t), o \in Held(q, S)
       PROVE  FALSE
  <2>1. PICK y \in S \cup Held(q, S) : q[y] = o
    BY <1>13, HeldBySome
  <2>2. y \in Slots
    BY <2>1, HeldObjects DEF Slots
  <2>3. y = s /\ q[s] = o
    BY <1>2, <1>3, <1>13, <2>1, <2>2 DEF Slots
  <2>4. t > 2
    BY <1>2, <1>10, <1>12, <1>13, <2>3 DEF Slots
  <2>5. s \in Held(q, S)
    BY <1>11, <1>13, <2>1, <2>3, <2>4
  <2>6. PICK z \in S \cup Held(q, S) : q[z] = s
    BY <1>13, <2>5, HeldBySome
  <2>7. z \in Slots
    BY <2>6, HeldObjects DEF Slots
  <2> QED BY <1>2, <1>11, <1>13, <2>4, <2>6, <2>7
<1> DEFINE q1 == [v EXCEPT ![td[t].slot] = nullptr]
           q2 == Cut(q1, Behind(td, t))
<1>14. /\ q1 \in Pointers /\ q2 \in Pointers /\ q1[td[t].slot] = nullptr /\ q2[td[t].slot] = nullptr
       /\ \A y \in Slots : q1[y] \in {nullptr, v[y]} /\ q2[y] \in {nullptr, v[y]}
  BY <1>1, <1>8 DEF Pointers, Cut
<1>15. CASE t = j
  <2>1. o \in Caller(td, t) \/ o \in Held(q1, b \cup Caller(td, t))
    BY <1>5, <1>7, <1>8, <1>15 DEF Good, OperandsStay
  <2> HIDE DEF q1
  <2>2. b \cup Caller(td, t) \in SUBSET Slots
    BY <1>1, <1>9
  <2> QED BY <1>3, <1>9, <1>13, <1>14, <2>1, <2>2
<1>16. CASE t < j
  <2>1. o \in Behind(td, t)
    <3>1. j \in t + 1 .. Len(td)
      BY <1>16
    <3> QED BY <1>5, <3>1 DEF Behind, Slots
  <2>2. o \in Held(q2, b)
    BY <1>3, <1>7, <1>8, <2>1 DEF Good, OthersStay
  <2> HIDE DEF q2
  <2>3. b \in SUBSET Slots /\ b \subseteq b \cup Caller(td, t)
    BY <1>1
  <2> QED BY <1>13, <1>14, <2>2, <2>3
<1>17. t = j \/ t < j
  BY <1>7
<1> QED BY <1>15, <1>16, <1>17

-----------------------------------------------------------------------------
(* The steps.                                                              *)

\* The body of a destructor returns.
LEMMA GoodBody ==
  ASSUME NEW td, NEW v, NEW b, NEW a, NEW r, Typed(td, v, b, a, r), Good(td, v, b, a, r),
         td # <<>>, td[1].do = "body"
  PROVE  Typed(Tail(td), v, b, a, r) /\ Good(Tail(td), v, b, a, r)
<1>1. /\ td \in Seq(Items) /\ Ordered(td) /\ Apart(td) /\ td[1].do \notin Ops
      /\ OperandsStay(td, v, b) /\ OthersStay(td, v, b, a)
  BY DEF Typed, Good, Ops, Final
<1>2. Tail(td) \in Seq(Items) /\ Ordered(Tail(td)) /\ Apart(Tail(td))
  BY <1>1, TailItems, TailIsOrdered
<1>3. SpentIn(Tail(td)) = SpentIn(td) /\ DyingIn(Tail(td)) = DyingIn(td)
  BY <1>1, TailOfBody
<1>4. ASSUME NEW i \in 1 .. Len(Tail(td))
      PROVE  /\ Tail(td)[i] = td[i + 1] /\ i + 1 \in 1 .. Len(td)
             /\ Names(Tail(td), i) = Names(td, i + 1)
             /\ Behind(Tail(td), i) = Behind(td, i + 1)
             /\ Caller(Tail(td), i) = Caller(td, i + 1)
             /\ First(Tail(td), i) <=> First(td, i + 1)
  BY <1>1, TailParts
<1>5. OperandsStay(Tail(td), v, b) /\ OthersStay(Tail(td), v, b, a)
  BY <1>1, <1>3, <1>4 DEF OperandsStay, OthersStay
<1>6. \A i \in 1 .. Len(Tail(td)) : Names(Tail(td), i) \subseteq b \cup a
  BY <1>4 DEF Good
<1> QED BY <1>2, <1>3, <1>5, <1>6 DEF Typed, Good

\* An object whose pointer is released goes away: no operation is about it.
LEMMA GoodFree ==
  ASSUME NEW td, NEW v, NEW b, NEW a, NEW r, Typed(td, v, b, a, r), Good(td, v, b, a, r),
         td # <<>>, td[1].do = "free"
  PROVE  Typed(Tail(td), v, b, a \ {td[1].slot}, r) /\ Good(Tail(td), v, b, a \ {td[1].slot}, r)
<1> DEFINE s == td[1].slot
           c == a \ {s}
<1>1. /\ td \in Seq(Items) /\ Ordered(td) /\ Apart(td) /\ td[1].do \notin Ops /\ td[1].do \in Final
      /\ OperandsStay(td, v, b) /\ OthersStay(td, v, b, a) /\ Counted(v, r, a, DyingIn(td))
      /\ v \in Pointers /\ r \in [Objects -> Nat] /\ a \in SUBSET Objects /\ b \subseteq Roots
  BY DEF Typed, Good, Ops, Final
<1>2. Tail(td) \in Seq(Items) /\ Ordered(Tail(td)) /\ Apart(Tail(td))
  BY <1>1, TailItems, TailIsOrdered
<1>3. /\ s \in SpentIn(td) /\ SpentIn(Tail(td)) = SpentIn(td) \ {s}
      /\ s \in DyingIn(td) /\ DyingIn(Tail(td)) = DyingIn(td) \ {s}
  BY <1>1, TailOfFinal
<1>4. ASSUME NEW i \in 1 .. Len(Tail(td))
      PROVE  /\ Tail(td)[i] = td[i + 1] /\ i + 1 \in 1 .. Len(td)
             /\ Names(Tail(td), i) = Names(td, i + 1)
             /\ Behind(Tail(td), i) = Behind(td, i + 1)
             /\ Caller(Tail(td), i) = Caller(td, i + 1)
             /\ First(Tail(td), i) <=> First(td, i + 1)
  BY <1>1, TailParts
<1>5. s \in Objects /\ s \in Slots
  <2>1. 1 \in 1 .. Len(td)
    BY <1>1, TailItems
  <2> QED BY <1>1, <2>1 DEF Ordered, Slots
<1>6. \A y \in Slots : v[y] # s
  <2>1. ASSUME NEW y \in Slots, v[y] = s PROVE FALSE
    <3>1. v[y] # nullptr
      BY <1>5, <2>1, PtrAssumption
    <3>2. v[y] \notin DyingIn(td)
      BY <3>1, Pointed
    <3> QED BY <1>3, <2>1, <3>2
  <2> QED BY <2>1
<1>7. \A S : (S \cap c) \ DyingIn(Tail(td)) \subseteq (S \cap a) \ DyingIn(td)
  BY <1>3
<1>8. OperandsStay(Tail(td), v, b) /\ OthersStay(Tail(td), v, b, c)
  <2>1. OperandsStay(Tail(td), v, b)
    BY <1>1, <1>4 DEF OperandsStay
  <2> HIDE DEF c
  <2>2. OthersStay(Tail(td), v, b, c)
    BY <1>1, <1>4, <1>7 DEF OthersStay
  <2> QED BY <2>1, <2>2
<1>9. \A i \in 1 .. Len(Tail(td)) : Names(Tail(td), i) \subseteq b \cup c
  <2>1. \A i \in 1 .. Len(Tail(td)) : s \notin Names(Tail(td), i)
    BY <1>1, FreedUnnamed
  <2>2. \A i \in 1 .. Len(Tail(td)) : Names(Tail(td), i) \subseteq b \cup a
    BY <1>4 DEF Good
  <2> QED BY <2>1, <2>2
<1>10. Counted(v, r, c, DyingIn(Tail(td)))
  BY <1>1, <1>3, <1>6 DEF Counted
<1>11. \A y \in Slots : y \notin b \cup c \/ y \in SpentIn(Tail(td)) => v[y] = nullptr
  BY <1>3 DEF Typed
<1> QED BY <1>1, <1>2, <1>8, <1>9, <1>10, <1>11 DEF Typed, Good

\* The destruction of an object begins: what was held without it still is.
LEMMA GoodDestroy ==
  ASSUME NEW td \in Seq(Items), td # <<>>, Ordered(td), Apart(td), td[1].do \in Final,
         NEW o \in Objects, \A i \in 1 .. Len(td) : o \notin Names(td, i),
         NEW v, NEW b, NEW a, o \in a, \A i \in 1 .. Len(td) : Names(td, i) \subseteq b \cup a,
         OperandsStay(td, v, b), OthersStay(td, v, b, a)
  PROVE  /\ Destroy(o) \o td \in Seq(Items) /\ Ordered(Destroy(o) \o td) /\ Apart(Destroy(o) \o td)
         /\ SpentIn(Destroy(o) \o td) = SpentIn(td) /\ DyingIn(Destroy(o) \o td) = DyingIn(td) \cup {o}
         /\ OperandsStay(Destroy(o) \o td, v, b) /\ OthersStay(Destroy(o) \o td, v, b, a)
         /\ \A i \in 1 .. Len(Destroy(o) \o td) : Names(Destroy(o) \o td, i) \subseteq b \cup a
<1> DEFINE N == Destroy(o) \o td
<1>1. /\ Ordered(N) /\ Apart(N) /\ SpentIn(N) = SpentIn(td) /\ DyingIn(N) = DyingIn(td) \cup {o}
      /\ \A t \in 1 .. Len(N) : First(N, t) =>
           /\ t - 3 \in 1 .. Len(td) /\ First(td, t - 3)
           /\ N[t] = td[t - 3] /\ Names(N, t) = Names(td, t - 3)
           /\ Behind(N, t) = Behind(td, t - 3)
           /\ Caller(N, t) = Caller(td, t - 3)
  BY DestroyIsOrdered
<1>2. /\ N \in Seq(Items) /\ Len(td) \in Nat /\ Len(N) = Len(td) + 3
      /\ N[1] = Do("body", o, o) /\ N[2] = Do("release", o, o) /\ N[3] = Do("free", o, o)
      /\ \A i \in 1 .. Len(td) : N[i + 3] = td[i]
  BY DestroyItems
<1> HIDE DEF N
<1>3. OperandsStay(N, v, b)
  BY <1>1 DEF OperandsStay
<1>4. OthersStay(N, v, b, a)
  <2> SUFFICES ASSUME NEW t \in 1 .. Len(N), First(N, t), NEW x \in (Behind(N, t) \cap a) \ DyingIn(N)
               PROVE  /\ x \in Held(Cut([v EXCEPT ![N[t].slot] = nullptr], Behind(N, t)), b)
                      /\ N[t].do = "move" => x \in Held(Cut(Moved(v, N[t].slot, N[t].from), Behind(N, t)), b)
    BY DEF OthersStay
  <2>1. PICK l \in 1 .. Len(td) : l = t - 3
    BY <1>1
  <2>2. First(td, l) /\ N[t] = td[l] /\ Behind(N, t) = Behind(td, l)
    BY <1>1, <2>1
  <2>3. x \in (Behind(td, l) \cap a) \ DyingIn(td)
    BY <1>1, <2>2
  <2> QED BY <2>2, <2>3 DEF OthersStay
<1>5. \A i \in 1 .. Len(N) : Names(N, i) \subseteq b \cup a
  <2> SUFFICES ASSUME NEW i \in 1 .. Len(N) PROVE Names(N, i) \subseteq b \cup a
    OBVIOUS
  <2>1. CASE i \in 1 .. 3
    <3>1. N[i].slot = o /\ N[i].from = o
      BY <1>2, <2>1 DEF Do
    <3> QED BY <3>1 DEF Names
  <2>2. CASE i > 3
    <3>1. i - 3 \in 1 .. Len(td) /\ N[i - 3 + 3] = td[i - 3]
      BY <1>2, <2>2
    <3>2. Names(N, i) = Names(td, i - 3)
      BY <1>2, <3>1 DEF Names
    <3> QED BY <3>1, <3>2
  <2> QED BY <1>2, <2>1, <2>2
<1> QED BY <1>1, <1>2, <1>3, <1>4, <1>5 DEF N

\* What is left to do after a release of o.
After(td, o, r) == IF o # nullptr /\ r[o] = 1 THEN Destroy(o) \o Tail(td) ELSE Tail(td)

\* A reference is released and the pointer is spent; at zero the destruction begins.
LEMMA GoodRelease ==
  ASSUME NEW td, NEW v, NEW b, NEW a, NEW r, Typed(td, v, b, a, r), Good(td, v, b, a, r),
         td # <<>>, td[1].do = "release", NEW o, o = v[td[1].slot]
  PROVE  /\ Typed(After(td, o, r), [v EXCEPT ![td[1].slot] = nullptr], b, a, Removed(r, o))
         /\ Good(After(td, o, r), [v EXCEPT ![td[1].slot] = nullptr], b, a, Removed(r, o))
         /\ SpentIn(After(td, o, r)) = SpentIn(td) \cup {td[1].slot}
<1> DEFINE s == td[1].slot
           N == After(td, o, r)
           w == [v EXCEPT ![s] = nullptr]
           r2 == Removed(r, o)
           R == Tail(td)
<1>1. /\ td \in Seq(Items) /\ Ordered(td) /\ Apart(td)
      /\ Counted(v, r, a, DyingIn(td))
      /\ v \in Pointers /\ r \in [Objects -> Nat] /\ a \in SUBSET Objects /\ b \subseteq Roots
  BY DEF Typed, Good
<1>2. R \in Seq(Items) /\ Ordered(R) /\ Apart(R)
  BY <1>1, TailItems, TailIsOrdered
<1>3. SpentIn(R) = SpentIn(td) \cup {s} /\ DyingIn(R) = DyingIn(td)
  BY <1>1, TailOfRelease
<1>4. s \in Slots /\ 1 \in 1 .. Len(td)
  <2>1. 1 \in 1 .. Len(td)
    BY <1>1, TailItems
  <2> QED BY <1>1, <2>1, ItemParts
<1>5. OperandsStay(R, w, b) /\ OthersStay(R, w, b, a)
  BY ReleasedStay
<1>6. ASSUME NEW i \in 1 .. Len(R)
      PROVE  R[i] = td[i + 1] /\ i + 1 \in 1 .. Len(td) /\ Names(R, i) = Names(td, i + 1)
  BY <1>1, TailParts
<1>7. \A i \in 1 .. Len(R) : Names(R, i) \subseteq b \cup a
  BY <1>6 DEF Good
<1>8. \A y \in Slots : y \notin b \cup a \/ y \in SpentIn(R) => w[y] = nullptr
  BY <1>1, <1>3, <1>4 DEF Typed, Pointers
<1>9. /\ w \in Pointers /\ r2 \in [Objects -> Nat]
      /\ Counted(w, r2, a, IF o # nullptr /\ r[o] = 1 THEN DyingIn(td) \cup {o} ELSE DyingIn(td))
  BY <1>1, <1>4, ReleasedCounts
<1>a. N = IF o # nullptr /\ r[o] = 1 THEN Destroy(o) \o R ELSE R
  BY DEF After
<1> HIDE DEF w, r2, N
<1>10. CASE ~(o # nullptr /\ r[o] = 1)
  <2>1. N = R /\ Counted(w, r2, a, DyingIn(R))
    BY <1>3, <1>9, <1>10, <1>a
  <2> HIDE DEF R
  <2>2. Typed(R, w, b, a, r2) /\ Good(R, w, b, a, r2)
    BY <1>1, <1>2, <1>5, <1>7, <1>8, <1>9, <2>1 DEF Typed, Good
  <2> QED BY <1>3, <2>1, <2>2 DEF w, r2, N
<1>11. CASE o # nullptr /\ r[o] = 1
  <2>1. o \in Objects /\ o \in a
    <3>1. v[s] # nullptr
      BY <1>11
    <3>2. v[s] \in a
      BY <1>4, <3>1, Pointed
    <3> QED BY <1>1, <3>2
  <2>2. \A i \in 1 .. Len(td) : o \notin Names(td, i)
    BY <1>11, <2>1, LastUnnamed
  <2>3. R # <<>> /\ R[1].do \in Final
    <3>1. Len(td) > 1 /\ td[2].do \in Final
      BY <1>1, <1>4 DEF Ordered
    <3>2. Len(R) = Len(td) - 1 /\ Len(R) \in Nat
      BY <1>1, <1>2, TailItems
    <3>3. 1 \in 1 .. Len(R)
      BY <3>1, <3>2
    <3>4. R[1] = td[1 + 1]
      BY <1>6, <3>3
    <3> HIDE DEF R
    <3>5. R # <<>>
      BY <3>2, <3>3
    <3> QED BY <3>1, <3>4, <3>5
  <2>4. \A i \in 1 .. Len(R) : o \notin Names(R, i)
    BY <1>6, <2>2
  <2>5. N = Destroy(o) \o R
    BY <1>11, <1>a
  <2>6. /\ Destroy(o) \o R \in Seq(Items) /\ Ordered(Destroy(o) \o R) /\ Apart(Destroy(o) \o R)
        /\ SpentIn(Destroy(o) \o R) = SpentIn(R) /\ DyingIn(Destroy(o) \o R) = DyingIn(R) \cup {o}
        /\ OperandsStay(Destroy(o) \o R, w, b) /\ OthersStay(Destroy(o) \o R, w, b, a)
        /\ \A i \in 1 .. Len(Destroy(o) \o R) : Names(Destroy(o) \o R, i) \subseteq b \cup a
    <3> HIDE DEF R
    <3> QED BY <1>2, <1>5, <1>7, <2>1, <2>3, <2>4, GoodDestroy
  <2>11. Counted(w, r2, a, DyingIn(N))
    BY <1>3, <1>9, <1>11, <2>5, <2>6
  <2>12. Typed(N, w, b, a, r2) /\ Good(N, w, b, a, r2)
    BY <1>1, <1>8, <1>9, <2>5, <2>6, <2>11 DEF Typed, Good
  <2> QED BY <1>3, <2>5, <2>6, <2>12 DEF w, r2, N
<1> QED BY <1>10, <1>11

\* Behind the first item of td is all of the rest.
LEMMA BehindTail ==
  ASSUME NEW td \in Seq(Items), td # <<>>
  PROVE  Behind(Tail(td), 0) = Behind(td, 1)
<1> DEFINE R == Tail(td)
<1>1. Len(td) \in Nat \ {0} /\ Len(R) = Len(td) - 1 /\ \A i \in 1 .. Len(td) - 1 : R[i] = td[i + 1]
  BY TailItems
<1> HIDE DEF R
<1>2. ASSUME NEW x, NEW k \in 0 + 1 .. Len(R), x \in Names(R, k)
      PROVE  \E l \in 1 + 1 .. Len(td) : x \in Names(td, l)
  <2>1. k + 1 \in 1 + 1 .. Len(td) /\ R[k] = td[k + 1]
    BY <1>1
  <2> QED BY <1>2, <2>1 DEF Names
<1>3. ASSUME NEW x, NEW k \in 1 + 1 .. Len(td), x \in Names(td, k)
      PROVE  \E l \in 0 + 1 .. Len(R) : x \in Names(R, l)
  <2>1. k - 1 \in 0 + 1 .. Len(R) /\ R[k - 1] = td[k]
    BY <1>1
  <2> QED BY <1>3, <2>1 DEF Names
<1> QED BY <1>2, <1>3 DEF Behind, R

\* What an operation that ends leaves behind.
LEMMA PartTail ==
  ASSUME NEW td, NEW v, NEW b, NEW a, NEW r, Typed(td, v, b, a, r), Good(td, v, b, a, r),
         td # <<>>, td[1].do \in Ops
  PROVE  /\ Tail(td) \in Seq(Items) /\ Ordered(Tail(td)) /\ Apart(Tail(td))
         /\ SpentIn(Tail(td)) = SpentIn(td) \ {td[1].slot} /\ DyingIn(Tail(td)) = DyingIn(td)
         /\ \A i \in 1 .. Len(Tail(td)) : Names(Tail(td), i) \subseteq b \cup a
         /\ td[1].slot \in Slots \cap (b \cup a) /\ td[1].from \in Slots \cap (b \cup a)
         /\ v[td[1].slot] = nullptr
         /\ td[1].do \in {"copy", "move"} => td[1].from # td[1].slot
         /\ td[1].do = "gone" => td[1].slot \in Roots
         /\ \A i \in 1 .. Len(Tail(td)) : td[1].slot \in Names(Tail(td), i) => td[1].slot \in Objects
<1>1. /\ td \in Seq(Items) /\ Ordered(td) /\ Apart(td) /\ td[1].do \in Final /\ td[1].do # "free"
      /\ 1 \in 1 .. Len(td)
  BY TailItems DEF Typed, Good, Ops
<1>2. Tail(td) \in Seq(Items) /\ Ordered(Tail(td)) /\ Apart(Tail(td))
  BY <1>1, TailItems, TailIsOrdered
<1>3. /\ td[1].slot \in SpentIn(td) /\ SpentIn(Tail(td)) = SpentIn(td) \ {td[1].slot}
      /\ DyingIn(Tail(td)) = DyingIn(td)
  BY <1>1, TailOfFinal
<1>4. ASSUME NEW i \in 1 .. Len(Tail(td))
      PROVE  i + 1 \in 1 .. Len(td) /\ Names(Tail(td), i) = Names(td, i + 1)
  BY <1>1, TailParts
<1>5. \A i \in 1 .. Len(Tail(td)) : Names(Tail(td), i) \subseteq b \cup a
  BY <1>4 DEF Good
<1>6. td[1].slot \in Slots \cap (b \cup a) /\ td[1].from \in Slots \cap (b \cup a)
  <2>1. Names(td, 1) \subseteq b \cup a
    BY <1>1 DEF Good
  <2> QED BY <1>1, <2>1, ItemParts
<1>7. v[td[1].slot] = nullptr
  BY <1>3, <1>6 DEF Typed
<1>8. /\ td[1].do \in {"copy", "move"} => td[1].from # td[1].slot
      /\ td[1].do = "gone" => td[1].slot \in Roots
  BY <1>1 DEF Ordered
<1>9. ASSUME NEW i \in 1 .. Len(Tail(td)), td[1].slot \in Names(Tail(td), i) PROVE td[1].slot \in Objects
  <2>1. PICK l \in 1 .. Len(td) : l = i + 1
    BY <1>4
  <2>2. td[1].slot \in Names(td, l) /\ l > 1
    BY <1>4, <1>9, <2>1
  <2>3. td[l].do # "body"
    BY <1>1, <2>2 DEF Ordered
  <2>4. PICK j \in l .. l + 1 : j \in 1 .. Len(td) /\ td[j].do \in Final /\ td[1].slot \in Names(td, j)
    BY <1>1, <2>2, <2>3, NamedByFinal
  <2>5. 1 < j /\ td[1].slot \in Names(td, 1)
    BY <2>2, <2>4 DEF Names
  <2>6. td[j].do = "free" /\ td[j].slot = td[1].slot
    BY <1>1, <2>4, <2>5, NamedOnce
  <2> QED BY <1>1, <2>4, <2>6 DEF Ordered
<1> QED BY <1>2, <1>3, <1>5, <1>6, <1>7, <1>8, <1>9

\* When an operation has overwritten its pointer, those around it still can go on.
LEMMA PartStay ==
  ASSUME NEW td, NEW v, NEW b, NEW a, NEW r, Typed(td, v, b, a, r), Good(td, v, b, a, r),
         td # <<>>, td[1].do \in Ops, NEW w \in Pointers, NEW c \in SUBSET Slots,
         td[1].do = "move" => w = Moved(v, td[1].slot, td[1].from),
         td[1].do # "move" => \A y \in Slots \ {td[1].slot} : w[y] = v[y],
         \A y \in b : y \in c \/ (y = td[1].slot /\ td[1].do # "move")
  PROVE  OperandsStay(Tail(td), w, c) /\ OthersStay(Tail(td), w, c, a)
<1> DEFINE R == Tail(td)
           B == Behind(R, 0)
           d == td[1].slot
           u == IF td[1].do = "move" THEN Moved(v, d, td[1].from) ELSE [v EXCEPT ![d] = nullptr]
<1>1. /\ R \in Seq(Items) /\ Ordered(R) /\ Apart(R) /\ DyingIn(R) = DyingIn(td)
      /\ \A i \in 1 .. Len(R) : Names(R, i) \subseteq b \cup a
      /\ d \in Slots /\ td[1].from \in Slots
  BY PartTail
<1>2. td \in Seq(Items) /\ v \in Pointers /\ b \subseteq Roots /\ a \in SUBSET Objects /\ OthersStay(td, v, b, a)
  BY DEF Typed, Good
<1>3. First(td, 1) /\ 1 \in 1 .. Len(td)
  BY <1>2, TailItems DEF First
<1>4. B = Behind(td, 1)
  BY <1>2, BehindTail
<1>5. \A x \in (B \cap a) \ DyingIn(R) : x \in Held(Cut(u, B), b)
  <2>1. \A x \in (Behind(td, 1) \cap a) \ DyingIn(td) :
          /\ x \in Held(Cut([v EXCEPT ![d] = nullptr], Behind(td, 1)), b)
          /\ td[1].do = "move" => x \in Held(Cut(Moved(v, d, td[1].from), Behind(td, 1)), b)
    BY <1>2, <1>3 DEF OthersStay
  <2> HIDE DEF B, R
  <2>2. CASE td[1].do = "move"
    BY <1>1, <1>4, <2>1, <2>2
  <2>3. CASE td[1].do # "move"
    BY <1>1, <1>4, <2>1, <2>3
  <2> QED BY <2>2, <2>3
<1>6. u \in Pointers
  BY <1>1, <1>2 DEF Pointers, Moved
<1>7. (td[1].do = "move" => u = w) /\ (td[1].do # "move" => u[d] = nullptr /\ \A y \in Slots \ {d} : u[y] = w[y])
  BY <1>1, <1>2 DEF Pointers
<1> HIDE DEF u
<1>8. (\A y \in Slots : u[y] \in {nullptr, w[y]}) /\ (\A y \in b : y \in c \/ u[y] = nullptr)
  <2>1. CASE td[1].do = "move"
    BY <1>7, <2>1
  <2>2. CASE td[1].do # "move"
    <3>1. \A y \in Slots : u[y] \in {nullptr, w[y]}
      BY <1>7, <2>2
    <3>2. \A y \in b : y \in c \/ u[y] = nullptr
      BY <1>7, <2>2
    <3> QED BY <3>1, <3>2
  <2> QED BY <2>1, <2>2
<1>9. (\A i \in 1 .. Len(R) : Names(R, i) \cap Objects \subseteq a) /\ b \in SUBSET Slots
  BY <1>1, <1>2, PtrAssumption DEF Slots
<1> HIDE DEF R, B
<1>10. \A x \in (Behind(R, 0) \cap a) \ DyingIn(R) : x \in Held(Cut(u, Behind(R, 0)), b)
  BY <1>5 DEF B
<1>11. Sheltered(R, u, w, b, c, a)
  BY <1>8, <1>9, <1>10 DEF Sheltered
<1>12. OperandsStay(R, w, c) /\ OthersStay(R, w, c, a)
  <2>1. R \in Seq(Items) /\ Ordered(R) /\ Apart(R) /\ b \in SUBSET Slots /\ a \in SUBSET Objects
    BY <1>1, <1>2, <1>9
  <2> QED BY <1>6, <1>11, <2>1, KeptBehind
<1> QED BY <1>12 DEF R

\* A pointer released becomes null.
LEMMA GoodNull ==
  ASSUME NEW td, NEW v, NEW b, NEW a, NEW r, Typed(td, v, b, a, r), Good(td, v, b, a, r),
         td # <<>>, td[1].do = "null"
  PROVE  Typed(Tail(td), v, b, a, r) /\ Good(Tail(td), v, b, a, r)
<1>1. td[1].do \in Ops /\ td[1].do # "move"
  BY DEF Ops, Final
<1>2. v \in Pointers /\ b \in SUBSET Slots
  BY DEF Typed, Slots
<1>3. OperandsStay(Tail(td), v, b) /\ OthersStay(Tail(td), v, b, a)
  BY <1>1, <1>2, PartStay
<1>4. /\ Tail(td) \in Seq(Items) /\ Ordered(Tail(td)) /\ Apart(Tail(td))
      /\ SpentIn(Tail(td)) = SpentIn(td) \ {td[1].slot} /\ DyingIn(Tail(td)) = DyingIn(td)
      /\ \A i \in 1 .. Len(Tail(td)) : Names(Tail(td), i) \subseteq b \cup a
  BY <1>1, PartTail
<1> QED BY <1>3, <1>4 DEF Typed, Good

\* A pointer released goes away.
LEMMA GoodGone ==
  ASSUME NEW td, NEW v, NEW b, NEW a, NEW r, Typed(td, v, b, a, r), Good(td, v, b, a, r),
         td # <<>>, td[1].do = "gone"
  PROVE  Typed(Tail(td), v, b \ {td[1].slot}, a, r) /\ Good(Tail(td), v, b \ {td[1].slot}, a, r)
<1> DEFINE s == td[1].slot
           c == b \ {s}
<1>1. td[1].do \in Ops /\ td[1].do # "move"
  BY DEF Ops, Final
<1>2. v \in Pointers /\ c \in SUBSET Slots /\ \A y \in b : y \in c \/ y = s
  BY DEF Typed, Slots
<1>3. OperandsStay(Tail(td), v, c) /\ OthersStay(Tail(td), v, c, a)
  <2> HIDE DEF c
  <2> QED BY <1>1, <1>2, PartStay
<1>4. /\ Tail(td) \in Seq(Items) /\ Ordered(Tail(td)) /\ Apart(Tail(td))
      /\ SpentIn(Tail(td)) = SpentIn(td) \ {s} /\ DyingIn(Tail(td)) = DyingIn(td)
      /\ \A i \in 1 .. Len(Tail(td)) : Names(Tail(td), i) \subseteq b \cup a
      /\ \A i \in 1 .. Len(Tail(td)) : s \in Names(Tail(td), i) => s \in Objects
      /\ v[s] = nullptr
  BY <1>1, PartTail
<1>5. s \notin Objects
  BY <1>1, PartTail, PtrAssumption
<1>6. \A i \in 1 .. Len(Tail(td)) : Names(Tail(td), i) \subseteq c \cup a
  BY <1>4, <1>5
<1>7. \A y \in Slots : y \notin c \cup a \/ y \in SpentIn(Tail(td)) => v[y] = nullptr
  BY <1>4 DEF Typed
<1> QED BY <1>3, <1>4, <1>6, <1>7 DEF Typed, Good

\* The target of a copy assignment takes the source's pointer and counts it.
LEMMA GoodCopy ==
  ASSUME NEW td, NEW v, NEW b, NEW a, NEW r, Typed(td, v, b, a, r), Good(td, v, b, a, r),
         td # <<>>, td[1].do = "copy", NEW x, x = v[td[1].from]
  PROVE  /\ Typed(Tail(td), [v EXCEPT ![td[1].slot] = x], b, a, Added(r, x))
         /\ Good(Tail(td), [v EXCEPT ![td[1].slot] = x], b, a, Added(r, x))
<1> DEFINE s == td[1].slot
           w == [v EXCEPT ![s] = x]
<1>1. td[1].do \in Ops /\ td[1].do # "move"
  BY DEF Ops, Final
<1>2. /\ v \in Pointers /\ r \in [Objects -> Nat] /\ a \in SUBSET Objects /\ b \in SUBSET Slots
      /\ Counted(v, r, a, DyingIn(td))
  BY DEF Typed, Good, Slots
<1>3. /\ Tail(td) \in Seq(Items) /\ Ordered(Tail(td)) /\ Apart(Tail(td))
      /\ SpentIn(Tail(td)) = SpentIn(td) \ {s} /\ DyingIn(Tail(td)) = DyingIn(td)
      /\ \A i \in 1 .. Len(Tail(td)) : Names(Tail(td), i) \subseteq b \cup a
      /\ s \in Slots \cap (b \cup a) /\ td[1].from \in Slots /\ v[s] = nullptr
  BY <1>1, PartTail
<1>6. w \in Pointers /\ Added(r, x) \in [Objects -> Nat] /\ Counted(w, Added(r, x), a, DyingIn(td))
  BY <1>2, <1>3, CopyCounts
<1>7. \A y \in Slots \ {s} : w[y] = v[y]
  BY <1>2 DEF Pointers
<1>8. \A y \in Slots : y \notin b \cup a \/ y \in SpentIn(Tail(td)) => w[y] = nullptr
  <2>1. \A y \in Slots : y \notin b \cup a \/ y \in SpentIn(Tail(td)) => y # s /\ v[y] = nullptr
    BY <1>3 DEF Typed
  <2> QED BY <1>7, <2>1
<1> HIDE DEF w
<1>9. OperandsStay(Tail(td), w, b) /\ OthersStay(Tail(td), w, b, a)
  BY <1>1, <1>2, <1>6, <1>7, PartStay
<1>10. Typed(Tail(td), w, b, a, Added(r, x)) /\ Good(Tail(td), w, b, a, Added(r, x))
  BY <1>3, <1>6, <1>8, <1>9 DEF Typed, Good
<1> QED BY <1>10 DEF w

\* The target of a move assignment takes the source's pointer, the source gives it up.
LEMMA GoodMove ==
  ASSUME NEW td, NEW v, NEW b, NEW a, NEW r, Typed(td, v, b, a, r), Good(td, v, b, a, r),
         td # <<>>, td[1].do = "move"
  PROVE  /\ Typed(Tail(td), Moved(v, td[1].slot, td[1].from), b, a, r)
         /\ Good(Tail(td), Moved(v, td[1].slot, td[1].from), b, a, r)
<1> DEFINE s == td[1].slot
           w == Moved(v, s, td[1].from)
<1>1. td[1].do \in Ops
  BY DEF Ops, Final
<1>2. /\ v \in Pointers /\ r \in [Objects -> Nat] /\ a \in SUBSET Objects /\ b \in SUBSET Slots
      /\ Counted(v, r, a, DyingIn(td))
  BY DEF Typed, Good, Slots
<1>3. /\ Tail(td) \in Seq(Items) /\ Ordered(Tail(td)) /\ Apart(Tail(td))
      /\ SpentIn(Tail(td)) = SpentIn(td) \ {s} /\ DyingIn(Tail(td)) = DyingIn(td)
      /\ \A i \in 1 .. Len(Tail(td)) : Names(Tail(td), i) \subseteq b \cup a
      /\ s \in Slots \cap (b \cup a) /\ td[1].from \in Slots /\ v[s] = nullptr /\ td[1].from # s
  BY <1>1, PartTail
<1>4. w \in Pointers /\ Counted(w, r, a, DyingIn(td))
  <2> DEFINE f == td[1].from
  <2>1. s \in Slots /\ f \in Slots /\ f # s /\ v[s] = nullptr
    BY <1>3
  <2> HIDE DEF s, f
  <2>2. Moved(v, s, f) \in Pointers /\ Counted(Moved(v, s, f), r, a, DyingIn(td))
    BY <1>2, <2>1, MovedCounts
  <2> QED BY <2>2 DEF f
<1>5. \A y \in Slots : y \notin b \cup a \/ y \in SpentIn(Tail(td)) => w[y] = nullptr
  <2>1. \A y \in Slots : y \notin b \cup a \/ y \in SpentIn(Tail(td)) => y # s /\ v[y] = nullptr
    BY <1>3 DEF Typed
  <2>2. \A y \in Slots \ {s} : w[y] \in {nullptr, v[y]}
    BY <1>2 DEF Pointers, Moved
  <2> QED BY <2>1, <2>2
<1>6. OperandsStay(Tail(td), w, b) /\ OthersStay(Tail(td), w, b, a)
  BY <1>1, <1>2, <1>4, PartStay
<1> HIDE DEF w
<1>7. Typed(Tail(td), w, b, a, r) /\ Good(Tail(td), w, b, a, r)
  BY <1>3, <1>4, <1>5, <1>6 DEF Typed, Good
<1> QED BY <1>7 DEF w

\* An operation begins, called when rest is left to do.
LEMMA GoodBegun ==
  ASSUME NEW rest, NEW v, NEW b, NEW a, NEW r, Typed(rest, v, b, a, r), Good(rest, v, b, a, r),
         CallsFrom(rest),
         NEW what \in Ops, NEW d \in Slots, NEW s \in Slots, d \in b \cup a, s \in b \cup a,
         d \notin Behind(rest, 2), s \notin Behind(rest, 2),
         what \in {"copy", "move"} <=> d # s, what = "gone" => d \in Roots,
         NEW own, own = IF rest = <<>> THEN {} ELSE {rest[1].slot},
         \A x \in {d, s} \cap Objects : x \in own \/ x \in Held([v EXCEPT ![d] = nullptr], b \cup own),
         \A x \in (Behind(rest, 0) \cap a) \ DyingIn(rest) :
           /\ x \in Held(Cut([v EXCEPT ![d] = nullptr], Behind(rest, 0)), b)
           /\ what = "move" => x \in Held(Cut(Moved(v, d, s), Behind(rest, 0)), b)
  PROVE  Typed(Begun(what, d, s, rest), v, b, a, r) /\ Good(Begun(what, d, s, rest), v, b, a, r)
<1> DEFINE N == Begun(what, d, s, rest)
<1>1. rest \in Seq(Items) /\ Ordered(rest) /\ Apart(rest)
  BY DEF Typed, Good
<1>2. /\ Ordered(N) /\ Apart(N) /\ SpentIn(N) = SpentIn(rest) /\ DyingIn(N) = DyingIn(rest)
      /\ \A t \in 1 .. Len(N) : First(N, t) => t = 2
      /\ Names(N, 2) = {d, s} /\ Behind(N, 2) = Behind(rest, 0) /\ Caller(N, 2) = own
  BY <1>1, BegunIsOrdered
<1>3. /\ N \in Seq(Items) /\ Len(rest) \in Nat /\ Len(N) = Len(rest) + 2
      /\ N[1] = Do("release", d, d) /\ N[2] = Do(what, d, s)
      /\ \A i \in 1 .. Len(rest) : N[i + 2] = rest[i]
  BY <1>1, BegunItems
<1> HIDE DEF N
<1>4. N[2].slot = d /\ N[2].from = s /\ N[2].do = what
  BY <1>3 DEF Do
<1>5. OperandsStay(N, v, b)
  <2> SUFFICES ASSUME NEW t \in 1 .. Len(N), First(N, t), NEW x \in Names(N, t) \cap Objects
               PROVE  x \in Caller(N, t) \/ x \in Held([v EXCEPT ![N[t].slot] = nullptr], b \cup Caller(N, t))
    BY DEF OperandsStay
  <2>1. t = 2
    BY <1>2
  <2>2. x \in {d, s} \cap Objects
    BY <1>2, <2>1
  <2>3. x \in own \/ x \in Held([v EXCEPT ![d] = nullptr], b \cup own)
    BY <2>2
  <2> QED BY <1>2, <1>4, <2>1, <2>3
<1>6. OthersStay(N, v, b, a)
  <2> SUFFICES ASSUME NEW t \in 1 .. Len(N), First(N, t), NEW x \in (Behind(N, t) \cap a) \ DyingIn(N)
               PROVE  /\ x \in Held(Cut([v EXCEPT ![N[t].slot] = nullptr], Behind(N, t)), b)
                      /\ N[t].do = "move" => x \in Held(Cut(Moved(v, N[t].slot, N[t].from), Behind(N, t)), b)
    BY DEF OthersStay
  <2>1. t = 2
    BY <1>2
  <2>2. x \in (Behind(rest, 0) \cap a) \ DyingIn(rest)
    BY <1>2, <2>1
  <2>3. /\ x \in Held(Cut([v EXCEPT ![d] = nullptr], Behind(rest, 0)), b)
        /\ what = "move" => x \in Held(Cut(Moved(v, d, s), Behind(rest, 0)), b)
    BY <2>2
  <2> QED BY <1>2, <1>4, <2>1, <2>3
<1>7. \A i \in 1 .. Len(N) : Names(N, i) \subseteq b \cup a
  <2> SUFFICES ASSUME NEW i \in 1 .. Len(N) PROVE Names(N, i) \subseteq b \cup a
    OBVIOUS
  <2>1. CASE i \in 1 .. 2
    <3>1. N[i].slot \in {d, s} /\ N[i].from \in {d, s}
      BY <1>3, <2>1 DEF Do
    <3> QED BY <3>1 DEF Names
  <2>2. CASE i > 2
    <3>1. i - 2 \in 1 .. Len(rest) /\ N[i - 2 + 2] = rest[i - 2]
      BY <1>3, <2>2
    <3>2. Names(N, i) = Names(rest, i - 2)
      BY <1>3, <3>1 DEF Names
    <3> QED BY <3>1, <3>2 DEF Good
  <2> QED BY <1>3, <2>1, <2>2
<1>8. Typed(N, v, b, a, r) /\ Good(N, v, b, a, r)
  BY <1>2, <1>3, <1>5, <1>6, <1>7 DEF Typed, Good
<1> QED BY <1>8 DEF N

\* What was possible stays possible when there are more pointers.
LEMMA GrowStay ==
  ASSUME NEW td, NEW v, NEW b, NEW a, NEW r, Typed(td, v, b, a, r), Good(td, v, b, a, r),
         NEW w \in Pointers, NEW c \in SUBSET Slots, NEW e \in SUBSET Objects,
         \A y \in Slots : v[y] \in {nullptr, w[y]}, b \subseteq c, e \cap (b \cup a) \subseteq a
  PROVE  OperandsStay(td, w, c) /\ OthersStay(td, w, c, e)
<1>1. /\ td \in Seq(Items) /\ Ordered(td) /\ v \in Pointers /\ b \in SUBSET Slots
      /\ OperandsStay(td, v, b) /\ OthersStay(td, v, b, a)
      /\ \A i \in 1 .. Len(td) : Names(td, i) \subseteq b \cup a
  BY DEF Typed, Good, Slots
<1>2. ASSUME NEW t \in 1 .. Len(td), First(td, t), NEW x \in Names(td, t) \cap Objects
      PROVE  x \in Caller(td, t) \/ x \in Held([w EXCEPT ![td[t].slot] = nullptr], c \cup Caller(td, t))
  <2> DEFINE q == [v EXCEPT ![td[t].slot] = nullptr]
             u == [w EXCEPT ![td[t].slot] = nullptr]
  <2>1. x \in Caller(td, t) \/ x \in Held(q, b \cup Caller(td, t))
    BY <1>1, <1>2 DEF OperandsStay
  <2>2. q \in Pointers /\ u \in Pointers /\ \A y \in Slots : q[y] \in {nullptr, u[y]}
    BY <1>1 DEF Pointers
  <2>3. Caller(td, t) \subseteq Slots
    <3>1. t < Len(td) => t + 1 \in 1 .. Len(td)
      OBVIOUS
    <3> QED BY <1>1, <3>1, ItemParts DEF Caller
  <2> HIDE DEF q, u
  <2>4. b \cup Caller(td, t) \in SUBSET Slots /\ c \cup Caller(td, t) \in SUBSET Slots
    BY <1>1, <2>3
  <2>5. Held(q, b \cup Caller(td, t)) \subseteq Held(u, c \cup Caller(td, t))
    BY <2>2, <2>4, HeldMore
  <2> QED BY <2>1, <2>5 DEF u
<1>3. ASSUME NEW t \in 1 .. Len(td), First(td, t), NEW x \in (Behind(td, t) \cap e) \ DyingIn(td)
      PROVE  /\ x \in Held(Cut([w EXCEPT ![td[t].slot] = nullptr], Behind(td, t)), c)
             /\ td[t].do = "move" => x \in Held(Cut(Moved(w, td[t].slot, td[t].from), Behind(td, t)), c)
  <2> DEFINE q1 == Cut([v EXCEPT ![td[t].slot] = nullptr], Behind(td, t))
             q2 == Cut(Moved(v, td[t].slot, td[t].from), Behind(td, t))
             u1 == Cut([w EXCEPT ![td[t].slot] = nullptr], Behind(td, t))
             u2 == Cut(Moved(w, td[t].slot, td[t].from), Behind(td, t))
  <2>1. x \in a
    <3>1. x \in b \cup a
      BY <1>1 DEF Behind
    <3> QED BY <3>1
  <2>2. x \in Held(q1, b) /\ (td[t].do = "move" => x \in Held(q2, b))
    BY <1>1, <1>3, <2>1 DEF OthersStay
  <2>3. td[t].slot \in Slots /\ td[t].from \in Slots
    BY <1>1, ItemParts
  <2>4. q1 \in Pointers /\ u1 \in Pointers /\ \A y \in Slots : q1[y] \in {nullptr, u1[y]}
    BY <1>1 DEF Pointers, Cut
  <2>5. q2 \in Pointers /\ u2 \in Pointers /\ \A y \in Slots : q2[y] \in {nullptr, u2[y]}
    BY <1>1, <2>3 DEF Pointers, Cut, Moved
  <2> HIDE DEF q1, q2, u1, u2
  <2>6. Held(q1, b) \subseteq Held(u1, c) /\ Held(q2, b) \subseteq Held(u2, c)
    BY <1>1, <2>4, <2>5, HeldMore
  <2> QED BY <2>2, <2>6 DEF u1, u2
<1> QED BY <1>2, <1>3 DEF OperandsStay, OthersStay

\* A pointer or an object is added.
LEMMA GoodGrown ==
  ASSUME NEW td, NEW v, NEW b, NEW a, NEW r, Typed(td, v, b, a, r), Good(td, v, b, a, r),
         NEW w \in Pointers, NEW c \in SUBSET Roots, NEW e \in SUBSET Objects, NEW r2 \in [Objects -> Nat],
         Counted(w, r2, e, DyingIn(td)), b \subseteq c, a \subseteq e, e \cap (b \cup a) \subseteq a,
         \A y \in Slots : v[y] \in {nullptr, w[y]},
         \A y \in Slots : y \notin c \cup e \/ y \in SpentIn(td) => w[y] = nullptr
  PROVE  Typed(td, w, c, e, r2) /\ Good(td, w, c, e, r2)
<1>1. c \in SUBSET Slots
  BY DEF Slots
<1>2. OperandsStay(td, w, c) /\ OthersStay(td, w, c, e)
  BY <1>1, GrowStay
<1>3. \A i \in 1 .. Len(td) : Names(td, i) \subseteq c \cup e
  BY DEF Good
<1> QED BY <1>2, <1>3 DEF Typed, Good

\* Pointers trade what they point to, and one may be added.
LEMMA GoodTraded ==
  ASSUME NEW td, NEW v, NEW b, NEW a, NEW r, Typed(td, v, b, a, r), Good(td, v, b, a, r),
         NEW w \in Pointers, NEW c \in SUBSET Roots, Counted(w, r, a, DyingIn(td)), b \subseteq c,
         \A x \in (Behind(td, 0) \cap a) \ DyingIn(td) : x \in Held(Cut(w, Behind(td, 0)), b),
         \A y \in Slots : y \notin c \cup a \/ y \in SpentIn(td) => w[y] = nullptr
  PROVE  Typed(td, w, c, a, r) /\ Good(td, w, c, a, r)
<1>1. /\ td \in Seq(Items) /\ Ordered(td) /\ Apart(td)
      /\ b \in SUBSET Slots /\ c \in SUBSET Slots /\ a \in SUBSET Objects
  BY DEF Typed, Good, Slots
<1>2. \A i \in 1 .. Len(td) : Names(td, i) \cap Objects \subseteq a
  BY PtrAssumption DEF Typed, Good
<1>3. OperandsStay(td, w, c) /\ OthersStay(td, w, c, a)
  <2>1. Sheltered(td, w, w, b, c, a)
    BY <1>2 DEF Sheltered
  <2> QED BY <1>1, <2>1, KeptBehind
<1>4. \A i \in 1 .. Len(td) : Names(td, i) \subseteq c \cup a
  BY DEF Good
<1> QED BY <1>3, <1>4 DEF Typed, Good

-----------------------------------------------------------------------------
(* Calls.                                                                  *)

\* Only pointers that exist are spent, only objects that exist are being destroyed.
LEMMA NamedSpent ==
  ASSUME NEW td, NEW v, NEW b, NEW a, NEW r, Typed(td, v, b, a, r), Good(td, v, b, a, r)
  PROVE  SpentIn(td) \subseteq b \cup a /\ DyingIn(td) \subseteq a
<1>1. \A i \in 1 .. Len(td) : Names(td, i) \subseteq b \cup a /\ td[i].slot \in Names(td, i)
  BY DEF Good, Names
<1>2. \A i \in 1 .. Len(td) : td[i].do = "free" => td[i].slot \in Objects /\ td[i].slot \notin b
  BY PtrAssumption DEF Good, Ordered, Typed
<1> QED BY <1>1, <1>2 DEF SpentIn, DyingIn

\* What is left to do when a client calls, and what its operands are.
LEMMA CallState ==
  ASSUME IndInv, Typed(todo, View, built, alive, refs), MayCall
  PROVE  /\ Typed(Rest, View, built, alive, refs) /\ Good(Rest, View, built, alive, refs) /\ CallsFrom(Rest)
         /\ Own = IF Rest = <<>> THEN {} ELSE {Rest[1].slot}
         /\ Operands = Behind(Rest, 2) /\ Dying = DyingIn(Rest) /\ SpentIn(Rest) = SpentIn(todo)
         /\ Own \subseteq DyingIn(Rest) /\ Behind(Rest, 0) \subseteq Behind(Rest, 2) \cup DyingIn(Rest)
<1> USE DEF IndInv
<1>0. todo \in Seq(Items) /\ Ordered(todo) /\ Apart(todo)
  BY DEF Typed, Good
<1>1. Len(Destroy(nullptr)) = 3
  BY DEF Destroy
<1>2. Dying = DyingIn(todo)
  <2>1. DOMAIN todo = 1 .. Len(todo)
    BY <1>0
  <2>2. \A i \in 1 .. Len(todo) : todo[i].slot \in Slots
    BY <1>0, ItemParts
  <2> QED BY <2>1, <2>2 DEF Dying, DyingIn
<1>3. CASE Idle
  <2>1. Rest = <<>> /\ todo = <<>> /\ Len(todo) = 0
    BY <1>3 DEF Idle, Rest
  <2>2. Own = {} /\ Operands = {} /\ Behind(<<>>, 2) = {} /\ Behind(<<>>, 0) = {}
    <3>1. Own = {}
      BY <2>1 DEF Own, Next1
    <3>2. 1 + Len(Destroy(nullptr)) .. Len(todo) = {}
      BY <1>1, <2>1
    <3>3. Operands = {}
      BY <3>2 DEF Operands
    <3>4. Behind(<<>>, 2) = {} /\ Behind(<<>>, 0) = {}
      BY DEF Behind
    <3> QED BY <3>1, <3>3, <3>4
  <2> QED BY <1>2, <2>1, <2>2 DEF CallsFrom
<1>4. CASE ~Idle
  <2>1. todo # <<>> /\ todo[1].do = "body" /\ Rest = Tail(todo)
    BY <1>0, <1>4, TailItems DEF MayCall, Next1, Rest, Idle
  <2>2. Typed(Rest, View, built, alive, refs) /\ Good(Rest, View, built, alive, refs)
    BY <2>1, GoodBody
  <2>3. DyingIn(Rest) = DyingIn(todo) /\ SpentIn(Rest) = SpentIn(todo)
    BY <1>0, <2>1, TailOfBody
  <2> DEFINE R == Tail(todo)
  <2>4. /\ Len(todo) \in Nat \ {0} /\ Len(R) = Len(todo) - 1 /\ \A i \in 1 .. Len(todo) - 1 : R[i] = todo[i + 1]
        /\ Head(todo) = todo[1]
    BY <1>0, <2>1, TailItems
  <2>5. /\ Len(todo) > 2 /\ todo[2].do = "release" /\ todo[3].do = "free" /\ todo[2].slot = todo[1].slot
        /\ todo[3].slot = todo[2].slot
    <3>1. 1 \in 1 .. Len(todo)
      BY <2>4
    <3>2. Len(todo) > 2 /\ todo[2].do = "release" /\ todo[3].do = "free" /\ todo[2].slot = todo[1].slot
      BY <1>0, <2>1, <3>1 DEF Ordered
    <3>3. 2 \in 1 .. Len(todo)
      BY <3>2
    <3>4. todo[2 + 1].slot = todo[2].slot
      BY <1>0, <3>2, <3>3 DEF Ordered
    <3> QED BY <3>2, <3>4
  <2>6. Own = {todo[1].slot}
    BY <2>1, <2>4 DEF Own, Next1, Slot
  <2> HIDE DEF R
  <2>7. R[1] = todo[1 + 1] /\ R[2] = todo[2 + 1] /\ R # <<>> /\ Len(R) > 1
    BY <2>4, <2>5
  <2>8. CallsFrom(R)
    BY <2>5, <2>7 DEF CallsFrom
  <2>9. R[1].slot = todo[1].slot /\ R[2].slot = todo[1].slot /\ R[1].do = "release" /\ R[2].do = "free"
    BY <2>5, <2>7
  <2>10. R \in Seq(Items) /\ Ordered(R) /\ 1 \in 1 .. Len(R) /\ 2 \in 1 .. Len(R)
    BY <2>1, <2>2, <2>7 DEF Typed, Good, R
  <2>11. todo[1].slot \in DyingIn(R)
    <3>1. R[2].slot \in Slots
      BY <2>10, ItemParts
    <3> QED BY <2>9, <2>10, <3>1 DEF DyingIn
  <2>12. Operands = Behind(R, 2)
    <3>1. ASSUME NEW x, x \in Operands PROVE x \in Behind(R, 2)
      <4>1. PICK n \in 1 + Len(Destroy(nullptr)) .. Len(todo) : x \in {todo[n].slot, todo[n].from}
        BY <3>1 DEF Operands
      <4>2. PICK l \in 2 + 1 .. Len(R) : n = l + 1
        <5>1. n - 1 \in 2 + 1 .. Len(R) /\ n = n - 1 + 1
          BY <1>1, <2>4, <4>1
        <5> QED BY <5>1
      <4>3. R[l] = todo[n] /\ n \in 1 .. Len(todo)
        BY <1>1, <2>4, <4>1, <4>2
      <4>4. x \in Names(R, l)
        BY <4>1, <4>3 DEF Names
      <4>5. x \in Slots
        BY <1>0, <4>1, <4>3, ItemParts
      <4> QED BY <4>4, <4>5 DEF Behind
    <3>2. ASSUME NEW x, x \in Behind(R, 2) PROVE x \in Operands
      <4>1. PICK l \in 2 + 1 .. Len(R) : x \in Names(R, l)
        BY <3>2 DEF Behind
      <4>2. PICK n \in 1 + Len(Destroy(nullptr)) .. Len(todo) : n = l + 1
        BY <1>1, <2>4
      <4>3. R[l] = todo[n]
        BY <2>4, <4>2
      <4> QED BY <4>1, <4>2, <4>3 DEF Names, Operands
    <3> QED BY <3>1, <3>2
  <2>13. Behind(R, 0) \subseteq Behind(R, 2) \cup DyingIn(R)
    <3> SUFFICES ASSUME NEW x \in Slots, NEW k \in 0 + 1 .. Len(R), x \in Names(R, k), x \notin Behind(R, 2)
                 PROVE  x = todo[1].slot
      BY <2>11 DEF Behind
    <3>1. k = 1 \/ k = 2
      BY DEF Behind
    <3>2. R[k].from = R[k].slot
      BY <2>9, <2>10, <3>1 DEF Ordered
    <3> QED BY <2>9, <3>1, <3>2 DEF Names
  <2>14. R = Rest
    BY <2>1 DEF R
  <2> QED BY <1>2, <2>2, <2>3, <2>6, <2>7, <2>8, <2>9, <2>11, <2>12, <2>13, <2>14
<1> QED BY <1>3, <1>4

\* What the invariant says of the state.
LEMMA ViewTyped ==
  ASSUME IndInv
  PROVE  /\ todo \in Seq(Items) /\ Ordered(todo) /\ Apart(todo)
         /\ Typed(todo, View, built, alive, refs) /\ Good(todo, View, built, alive, refs)
         /\ p_ \in Pointers /\ SpentIn(todo) \subseteq Live /\ DyingIn(todo) \subseteq alive
         /\ \A s \in Slots : /\ Spent(s) <=> s \in SpentIn(todo)
                             /\ View[s] = IF s \in Live \ SpentIn(todo) THEN p_[s] ELSE nullptr
<1>1. Items = [do : {"body", "release", "copy", "move", "null", "gone", "free"}, slot : Slots, from : Slots]
  BY DEF Items, Final
<1>2. todo \in Seq(Items) /\ p_ \in Pointers
  BY <1>1 DEF IndInv, TypeOK, Pointers
<1>3. Ordered(todo) /\ Apart(todo) /\ Good(todo, View, built, alive, refs)
  BY DEF IndInv, Good
<1>4. \A s \in Slots : View[s] = IF s \in Live \ SpentIn(todo) THEN p_[s] ELSE nullptr
  BY DEF View
<1>5. View \in Pointers
  BY <1>2 DEF View, Pointers
<1>6. Typed(todo, View, built, alive, refs)
  BY <1>2, <1>4, <1>5 DEF Typed, IndInv, TypeOK, Live
<1>7. \A s \in Slots : Spent(s) <=> s \in SpentIn(todo)
  BY <1>2, <1>3, SpentCode
<1>8. SpentIn(todo) \subseteq Live /\ DyingIn(todo) \subseteq alive
  BY <1>3, <1>6, NamedSpent DEF Live
<1> QED BY <1>2, <1>3, <1>4, <1>6, <1>7, <1>8

\* The pointers a call sees are those that count.
LEMMA CallView ==
  ASSUME IndInv, MayCall
  PROVE  /\ SpentIn(todo) \subseteq Behind(Rest, 2) /\ Own \subseteq alive
         /\ \A y \in Live : y \in Slots /\ Unspent[y] = View[y]
         /\ \A y \in Slots : View[y] \in (alive \ DyingIn(Rest)) \cup {nullptr}
<1>1. /\ Typed(todo, View, built, alive, refs) /\ Live \subseteq Slots
      /\ \A s \in Slots : /\ Spent(s) <=> s \in SpentIn(todo)
                          /\ View[s] = IF s \in Live \ SpentIn(todo) THEN p_[s] ELSE nullptr
  BY ViewTyped DEF Typed, Live, Slots
<1>2. /\ Typed(Rest, View, built, alive, refs) /\ Good(Rest, View, built, alive, refs)
      /\ CallsFrom(Rest) /\ SpentIn(Rest) = SpentIn(todo) /\ Own \subseteq DyingIn(Rest)
  BY <1>1, CallState
<1>3. Own \subseteq alive
  BY <1>2, NamedSpent
<1>4. SpentIn(Rest) \subseteq Behind(Rest, 2)
  <2> SUFFICES ASSUME NEW x \in Slots, NEW k \in 1 .. Len(Rest), Rest[k].do \in Final, Rest[k].slot = x,
                      k > 1 => Rest[k - 1].do # "release"
               PROVE  x \in Behind(Rest, 2)
    BY DEF SpentIn
  <2>1. Rest \in Seq(Items)
    BY <1>2 DEF Typed
  <2>2. Rest # <<>>
    BY <2>1
  <2>3. Rest[1].do = "release"
    BY <1>2, <2>2 DEF CallsFrom
  <2>4. k # 1 /\ k # 2
    BY <2>3 DEF Final
  <2>5. k \in 2 + 1 .. Len(Rest)
    BY <2>1, <2>4
  <2> QED BY <2>5 DEF Behind, Names
<1>5. \A y \in Live : y \in Slots /\ Unspent[y] = View[y]
  BY <1>1 DEF Unspent
<1>6. \A y \in Slots : View[y] \in (alive \ DyingIn(Rest)) \cup {nullptr}
  BY <1>2, Pointed
<1> QED BY <1>2, <1>3, <1>4, <1>5, <1>6

\* What the code asks of the pointers a call leaves, said of those that count.
LEMMA Asked ==
  ASSUME IndInv, MayCall, NEW q, NEW u,
         \A y \in Live : q[y] = u[y] /\ u[y] \in (alive \ DyingIn(Rest)) \cup {nullptr}
  PROVE  /\ Held(q, built \cup Own) \subseteq alive \cap Held(u, built \cup Own)
         /\ KeepsOperands(q) =>
              \A x \in (Behind(Rest, 0) \cap alive) \ DyingIn(Rest) : x \in Held(Cut(u, Behind(Rest, 0)), built)
<1> DEFINE C == alive \ DyingIn(Rest)
           B == Behind(Rest, 0)
<1>1. /\ Typed(todo, View, built, alive, refs) /\ Own \subseteq alive
      /\ \A y \in Live : y \in Slots
  BY ViewTyped, CallView
<1>2. C \in SUBSET Objects /\ built \cap alive = {}
  BY <1>1, PtrAssumption DEF Typed
<1>3. /\ Operands = Behind(Rest, 2) /\ Dying = DyingIn(Rest) /\ B \subseteq Behind(Rest, 2) \cup DyingIn(Rest)
      /\ Good(Rest, View, built, alive, refs) /\ Typed(Rest, View, built, alive, refs)
  BY <1>1, CallState
<1>4. DyingIn(Rest) \subseteq alive
  BY <1>3, NamedSpent
<1>5. Behind(Rest, 2) \subseteq B
  BY DEF Behind
<1>6. Held(q, built \cup Own) \subseteq C /\ Held(q, built \cup Own) \subseteq Held(u, built \cup Own)
  <2>1. \A y \in (built \cup Own) \cup C : y \in Live
    BY <1>1 DEF Live
  <2> HIDE DEF C
  <2>2. \A y \in (built \cup Own) \cup C : q[y] \in C \cup {nullptr} /\ q[y] = u[y]
    BY <2>1 DEF C
  <2>3. Closed(q, C)
    BY <2>2 DEF Closed
  <2> QED BY <1>2, <2>2, <2>3, HeldAgree
<1>7. ASSUME KeepsOperands(q), NEW x \in (B \cap alive) \ DyingIn(Rest) PROVE x \in Held(Cut(u, B), built)
  <2> DEFINE r == [s \in Slots |-> IF s \in Operands THEN nullptr ELSE q[s]]
             w == Cut(u, B)
  <2>1. x \in Operands \cap (alive \ Dying)
    BY <1>3
  <2>2. x \in Held(r, built)
    BY <1>7, <2>1 DEF KeepsOperands
  <2>3. ASSUME NEW y \in built \cup C PROVE r[y] \in C \cup {nullptr} /\ r[y] \in {nullptr, w[y]}
    <3>1. y \in Live /\ y \in Slots /\ y \notin DyingIn(Rest)
      BY <1>1, <1>2, <1>4 DEF Live
    <3>2. q[y] = u[y] /\ u[y] \in C \cup {nullptr}
      BY <3>1
    <3>3. r[y] = IF y \in Operands THEN nullptr ELSE q[y]
      BY <3>1
    <3>4. w[y] = IF y \in B THEN nullptr ELSE u[y]
      BY <3>1 DEF Cut
    <3>5. y \in Operands <=> y \in B
      BY <1>3, <1>5, <3>1
    <3> HIDE DEF r, w, B, C
    <3> QED BY <3>2, <3>3, <3>4, <3>5
  <2> HIDE DEF r, w, C
  <2>4. Closed(r, C)
    BY <2>3 DEF Closed
  <2>5. Held(r, built) \subseteq Held(w, built)
    BY <1>2, <2>3, <2>4, HeldAgree
  <2> QED BY <2>2, <2>5 DEF w
<1> QED BY <1>6, <1>7

\* What a client may use exists, counts, and can be reached without its own pointer.
LEMMA MayUse ==
  ASSUME IndInv, MayCall, NEW s \in Accessible
  PROVE  /\ s \in Slots /\ s \in built \cup alive /\ s \notin Behind(Rest, 2) /\ s \notin SpentIn(todo)
         /\ View[s] = p_[s] /\ Unspent[s] = p_[s]
         /\ s \in Objects => s \in Own \/ s \in Held([View EXCEPT ![s] = nullptr], built \cup Own)
<1>1. /\ SpentIn(todo) \subseteq Behind(Rest, 2) /\ Own \subseteq alive
      /\ \A y \in Live : y \in Slots /\ Unspent[y] = View[y]
      /\ \A y \in Slots : View[y] \in (alive \ DyingIn(Rest)) \cup {nullptr}
  BY CallView
<1>2. /\ Typed(todo, View, built, alive, refs) /\ View \in Pointers /\ built \subseteq Roots
      /\ \A y \in Slots : View[y] = IF y \in Live \ SpentIn(todo) THEN p_[y] ELSE nullptr
  BY ViewTyped DEF Typed
<1>3. Operands = Behind(Rest, 2)
  BY <1>2, CallState
<1>4. Held(Unspent, built \cup Own) \subseteq alive \cap Held(View, built \cup Own)
  BY <1>1, Asked
<1>5. s \in Live /\ s \notin Operands /\ s \in built \cup Own \cup Held(View, built \cup Own)
  BY <1>1, <1>4 DEF Accessible, Live
<1>6. /\ s \in Slots /\ s \in built \cup alive /\ s \notin Behind(Rest, 2) /\ s \notin SpentIn(todo)
      /\ View[s] = p_[s] /\ Unspent[s] = p_[s]
  BY <1>1, <1>2, <1>3, <1>5 DEF Live
<1>7. ASSUME s \in Objects, s \notin Own PROVE s \in Held([View EXCEPT ![s] = nullptr], built \cup Own)
  <2>1. s \notin built \cup Own
    BY <1>2, <1>7, PtrAssumption
  <2>2. built \cup Own \in SUBSET Slots
    BY <1>1 DEF Live
  <2> QED BY <1>2, <1>5, <2>1, <2>2, HeldWithoutOwn
<1> QED BY <1>6, <1>7

-----------------------------------------------------------------------------
(* Steps.                                                                  *)

\* A step keeps the invariant when what it makes of the state, through View, is good.
LEMMA NextInv ==
  ASSUME p_' \in Pointers, made' \subseteq Objects, alive' \subseteq made',
         \A o \in Objects \ made' : refs'[o] = 0,
         NEW v, Typed(todo', v, built', alive', refs'), Good(todo', v, built', alive', refs'),
         \A s \in Slots : v[s] = IF s \in (built' \cup alive') \ SpentIn(todo') THEN p_'[s] ELSE nullptr
  PROVE  IndInv'
<1>1. v = [s \in Slots |-> IF s \in (built' \cup alive') \ SpentIn(todo') THEN p_'[s] ELSE nullptr]
  BY DEF Typed, Pointers
<1>2. View' = v
  BY <1>1 DEF View, Live
<1>3. Items = [do : {"body", "release", "copy", "move", "null", "gone", "free"}, slot : Slots, from : Slots]
  BY DEF Items, Final
<1>4. TypeOK'
  BY <1>3 DEF TypeOK, Typed, Pointers
<1> QED BY <1>2, <1>4 DEF IndInv

\* An operation begins.
LEMMA BegunInv ==
  ASSUME IndInv, MayCall, NEW what \in Ops, NEW d \in Accessible, NEW s \in Slots,
         s \in built \cup alive, s \notin Behind(Rest, 2),
         what \in {"copy", "move"} <=> d # s, what = "gone" => d \in Roots,
         s \in Objects => s \in Own \/ s \in Held([View EXCEPT ![d] = nullptr], built \cup Own),
         KeepsOperands([Unspent EXCEPT ![d] = nullptr]),
         what = "move" => p_[s] = View[s] /\ KeepsOperands([Unspent EXCEPT ![d] = p_[s], ![s] = nullptr]),
         Start(<<Do("release", d, d), Do(what, d, s)>>)
  PROVE  IndInv'
<1> DEFINE N == Begun(what, d, s, Rest)
           q1 == [Unspent EXCEPT ![d] = nullptr]
           u1 == [View EXCEPT ![d] = nullptr]
           q2 == [Unspent EXCEPT ![d] = p_[s], ![s] = nullptr]
           u2 == Moved(View, d, s)
<1>1. /\ Typed(todo, View, built, alive, refs) /\ p_ \in Pointers /\ View \in Pointers
      /\ \A y \in Slots : View[y] = IF y \in Live \ SpentIn(todo) THEN p_[y] ELSE nullptr
  BY ViewTyped DEF Typed
<1>2. /\ Typed(Rest, View, built, alive, refs) /\ Good(Rest, View, built, alive, refs)
      /\ CallsFrom(Rest) /\ Own = (IF Rest = <<>> THEN {} ELSE {Rest[1].slot})
      /\ SpentIn(Rest) = SpentIn(todo) /\ Rest \in Seq(Items) /\ Ordered(Rest) /\ Apart(Rest)
  BY <1>1, CallState DEF Typed, Good
<1>3. /\ \A y \in Live : y \in Slots /\ Unspent[y] = View[y]
      /\ \A y \in Slots : View[y] \in (alive \ DyingIn(Rest)) \cup {nullptr}
  BY CallView
<1>4. /\ d \in Slots /\ d \in built \cup alive /\ d \notin Behind(Rest, 2)
      /\ d \in Objects => d \in Own \/ d \in Held([View EXCEPT ![d] = nullptr], built \cup Own)
  BY MayUse
<1>5. \A y \in Live : q1[y] = u1[y] /\ u1[y] \in (alive \ DyingIn(Rest)) \cup {nullptr}
  BY <1>1, <1>3 DEF Unspent, Pointers
<1>6. what = "move" => \A y \in Live : q2[y] = u2[y] /\ u2[y] \in (alive \ DyingIn(Rest)) \cup {nullptr}
  BY <1>1, <1>3, <1>4 DEF Unspent, Pointers, Moved
<1>7. what = "move" => KeepsOperands(q2)
  OBVIOUS
<1> HIDE DEF q1, u1, q2, u2
<1>8. KeepsOperands(q1)
  BY DEF q1
<1>9. \A x \in (Behind(Rest, 0) \cap alive) \ DyingIn(Rest) :
        /\ x \in Held(Cut(u1, Behind(Rest, 0)), built)
        /\ what = "move" => x \in Held(Cut(u2, Behind(Rest, 0)), built)
  <2>1. \A x \in (Behind(Rest, 0) \cap alive) \ DyingIn(Rest) : x \in Held(Cut(u1, Behind(Rest, 0)), built)
    BY <1>5, <1>8, Asked
  <2>2. what = "move" =>
          \A x \in (Behind(Rest, 0) \cap alive) \ DyingIn(Rest) : x \in Held(Cut(u2, Behind(Rest, 0)), built)
    BY <1>6, <1>7, Asked
  <2> QED BY <2>1, <2>2
<1>10. \A x \in {d, s} \cap Objects : x \in Own \/ x \in Held(u1, built \cup Own)
  BY <1>4 DEF u1
<1>11. Typed(N, View, built, alive, refs) /\ Good(N, View, built, alive, refs)
  BY <1>2, <1>4, <1>9, <1>10, GoodBegun DEF u1, u2
<1>12. SpentIn(N) = SpentIn(todo)
  BY <1>2, <1>4, BegunIsOrdered
<1>13. N = todo' /\ UNCHANGED <<p_, built, made, alive, refs>>
  BY DEF Begun, Start
<1> HIDE DEF N
<1>14. /\ made \subseteq Objects /\ alive \subseteq made /\ \A o \in Objects \ made : refs[o] = 0
  BY DEF IndInv, TypeOK
<1> QED BY <1>1, <1>11, <1>12, <1>13, <1>14, NextInv DEF Live

\* The destructor keeps the invariant.
LEMMA DestructInv ==
  ASSUME IndInv, NEW r \in Roots, Destruct(r)
  PROVE  IndInv'
<1>1. /\ MayCall /\ r \in Accessible /\ KeepsOperands([Unspent EXCEPT ![r] = nullptr])
      /\ Start(<<Do("release", r, r), Do("gone", r, r)>>)
  BY DEF Destruct
<1>2. /\ r \in Slots /\ r \in built \cup alive /\ r \notin Behind(Rest, 2)
      /\ r \in Objects => r \in Own \/ r \in Held([View EXCEPT ![r] = nullptr], built \cup Own)
  BY <1>1, MayUse
<1>3. "gone" \in Ops /\ "gone" \notin {"copy", "move"}
  BY DEF Ops, Final
<1> QED BY <1>1, <1>2, <1>3, BegunInv

\* Reset keeps the invariant.
LEMMA ResetInv ==
  ASSUME IndInv, NEW s \in Slots, Reset(s)
  PROVE  IndInv'
<1>1. /\ MayCall /\ s \in Accessible /\ KeepsOperands([Unspent EXCEPT ![s] = nullptr])
      /\ Start(<<Do("release", s, s), Do("null", s, s)>>)
  BY DEF Reset
<1>2. /\ s \in built \cup alive /\ s \notin Behind(Rest, 2)
      /\ s \in Objects => s \in Own \/ s \in Held([View EXCEPT ![s] = nullptr], built \cup Own)
  BY <1>1, MayUse
<1>3. "null" \in Ops /\ "null" \notin {"copy", "move", "gone"}
  BY DEF Ops, Final
<1> QED BY <1>1, <1>2, <1>3, BegunInv

\* The source of an assignment is held by other pointers than the destination.
LEMMA SourceHeld ==
  ASSUME IndInv, MayCall, Aliasing = FALSE, NEW d \in Accessible, NEW s \in Accessible, SourceSurvives(d, s)
  PROVE  s \in Objects => s \in Own \/ s \in Held([View EXCEPT ![d] = nullptr], built \cup Own)
<1> DEFINE q == [Unspent EXCEPT ![d] = nullptr]
           u == [View EXCEPT ![d] = nullptr]
<1>1. s \in Roots \cup Own \cup Held(q, built \cup Own)
  BY DEF SourceSurvives
<1>2. Typed(todo, View, built, alive, refs) /\ View \in Pointers
  BY ViewTyped DEF Typed
<1>3. /\ \A y \in Live : y \in Slots /\ Unspent[y] = View[y]
      /\ \A y \in Slots : View[y] \in (alive \ DyingIn(Rest)) \cup {nullptr}
  BY CallView
<1>4. \A y \in Live : q[y] = u[y] /\ u[y] \in (alive \ DyingIn(Rest)) \cup {nullptr}
  BY <1>2, <1>3 DEF Unspent, Pointers
<1> HIDE DEF q, u
<1>5. Held(q, built \cup Own) \subseteq alive \cap Held(u, built \cup Own)
  BY <1>4, Asked
<1> QED BY <1>1, <1>5, PtrAssumption DEF u

\* The call of the copy assignment keeps the invariant.
LEMMA CopyAssignInv ==
  ASSUME IndInv, Aliasing = FALSE, NEW d \in Slots, NEW s \in Slots, CopyAssign(d, s)
  PROVE  IndInv'
<1>1. /\ MayCall /\ d \in Accessible /\ s \in Accessible /\ SourceSurvives(d, s) /\ p_[d] # p_[s]
      /\ KeepsOperands([Unspent EXCEPT ![d] = nullptr])
      /\ Start(<<Do("release", d, d), Do("copy", d, s)>>)
  BY DEF CopyAssign, SourceSurvives
<1>2. s \in built \cup alive /\ s \notin Behind(Rest, 2)
  BY <1>1, MayUse
<1>3. s \in Objects => s \in Own \/ s \in Held([View EXCEPT ![d] = nullptr], built \cup Own)
  BY <1>1, SourceHeld
<1>4. "copy" \in Ops /\ "copy" \notin {"move", "gone"} /\ d # s
  BY <1>1 DEF Ops, Final
<1> QED BY <1>1, <1>2, <1>3, <1>4, BegunInv

\* The call of the move assignment keeps the invariant.
LEMMA MoveAssignInv ==
  ASSUME IndInv, Aliasing = FALSE, NEW d \in Slots, NEW s \in Slots, MoveAssign(d, s)
  PROVE  IndInv'
<1>1. /\ MayCall /\ d \in Accessible /\ s \in Accessible /\ SourceSurvives(d, s) /\ d # s
      /\ KeepsOperands([Unspent EXCEPT ![d] = nullptr])
      /\ KeepsOperands([Unspent EXCEPT ![d] = p_[s], ![s] = nullptr])
      /\ Start(<<Do("release", d, d), Do("move", d, s)>>)
  BY DEF MoveAssign, SourceSurvives
<1>2. s \in built \cup alive /\ s \notin Behind(Rest, 2) /\ p_[s] = View[s]
  BY <1>1, MayUse
<1>3. s \in Objects => s \in Own \/ s \in Held([View EXCEPT ![d] = nullptr], built \cup Own)
  BY <1>1, SourceHeld
<1>4. "move" \in Ops /\ "move" # "gone"
  BY DEF Ops, Final
<1> QED BY <1>1, <1>2, <1>3, <1>4, BegunInv

\* The state a call that is one step starts from.
LEMMA CallStart ==
  ASSUME IndInv, MayCall
  PROVE  /\ Typed(Rest, View, built, alive, refs) /\ Good(Rest, View, built, alive, refs)
         /\ Counted(View, refs, alive, DyingIn(Rest))
         /\ p_ \in Pointers /\ View \in Pointers /\ refs \in [Objects -> Nat]
         /\ built \in SUBSET Roots /\ made \in SUBSET Objects /\ alive \in SUBSET made
         /\ \A o \in Objects \ made : refs[o] = 0
         /\ SpentIn(Rest) \subseteq built \cup alive /\ DyingIn(Rest) \subseteq alive
         /\ \A s \in Slots : View[s] = IF s \in (built \cup alive) \ SpentIn(Rest) THEN p_[s] ELSE nullptr
<1>1. /\ Typed(todo, View, built, alive, refs) /\ p_ \in Pointers
      /\ \A s \in Slots : View[s] = IF s \in Live \ SpentIn(todo) THEN p_[s] ELSE nullptr
  BY ViewTyped
<1>2. Typed(Rest, View, built, alive, refs) /\ Good(Rest, View, built, alive, refs) /\ SpentIn(Rest) = SpentIn(todo)
  BY <1>1, CallState
<1>3. SpentIn(Rest) \subseteq built \cup alive /\ DyingIn(Rest) \subseteq alive
  BY <1>2, NamedSpent
<1>4. /\ View \in Pointers /\ refs \in [Objects -> Nat] /\ built \in SUBSET Roots
      /\ Counted(View, refs, alive, DyingIn(Rest))
  BY <1>2 DEF Typed, Good
<1> QED BY <1>1, <1>2, <1>3, <1>4 DEF IndInv, TypeOK, Live

\* The default constructor keeps the invariant.
LEMMA ConstructNullInv ==
  ASSUME IndInv, NEW r \in Roots, ConstructNull(r)
  PROVE  IndInv'
<1>1. MayCall /\ r \notin built /\ built' = built \cup {r} /\ p_' = [p_ EXCEPT ![r] = nullptr]
  BY DEF ConstructNull
<1>2. todo' = Rest /\ UNCHANGED <<made, alive, refs>>
  BY DEF ConstructNull
<1>3. /\ Typed(Rest, View, built, alive, refs) /\ Good(Rest, View, built, alive, refs)
      /\ Counted(View, refs, alive, DyingIn(Rest))
      /\ p_ \in Pointers /\ View \in Pointers /\ refs \in [Objects -> Nat]
      /\ built \in SUBSET Roots /\ made \in SUBSET Objects /\ alive \in SUBSET made
      /\ \A o \in Objects \ made : refs[o] = 0
      /\ \A s \in Slots : View[s] = IF s \in (built \cup alive) \ SpentIn(Rest) THEN p_[s] ELSE nullptr
  BY <1>1, CallStart
<1>4. r \in Slots /\ r \notin alive /\ p_' \in Pointers /\ View[r] = nullptr
  BY <1>1, <1>3, PtrAssumption DEF Slots, Pointers
<1>5. \A y \in Slots : y \notin built' \cup alive \/ y \in SpentIn(Rest) => View[y] = nullptr
  BY <1>1, <1>3
<1>6. Typed(Rest, View, built', alive, refs) /\ Good(Rest, View, built', alive, refs)
  <2>1. built' \in SUBSET Roots /\ alive \in SUBSET Objects /\ built \subseteq built'
    BY <1>1, <1>3
  <2> QED BY <1>3, <1>5, <2>1, GoodGrown
<1>7. \A s \in Slots : View[s] = IF s \in (built' \cup alive) \ SpentIn(Rest) THEN p_'[s] ELSE nullptr
  BY <1>1, <1>3, <1>4 DEF Pointers
<1> QED BY <1>2, <1>3, <1>4, <1>6, <1>7, NextInv

\* The copy constructor keeps the invariant.
LEMMA CopyConstructInv ==
  ASSUME IndInv, NEW r \in Roots, NEW src \in Slots, CopyConstruct(r, src)
  PROVE  IndInv'
<1>1. /\ MayCall /\ r \notin built /\ src \in Accessible /\ built' = built \cup {r}
      /\ p_' = [p_ EXCEPT ![r] = p_[src]]
  BY DEF CopyConstruct
<1>2. todo' = Rest /\ UNCHANGED <<made, alive>> /\ refs' = Added(refs, p_[src])
  BY DEF CopyConstruct, AddReference, Added
<1>3. /\ Typed(Rest, View, built, alive, refs) /\ Good(Rest, View, built, alive, refs)
      /\ Counted(View, refs, alive, DyingIn(Rest))
      /\ p_ \in Pointers /\ View \in Pointers /\ refs \in [Objects -> Nat]
      /\ built \in SUBSET Roots /\ made \in SUBSET Objects /\ alive \in SUBSET made
      /\ \A o \in Objects \ made : refs[o] = 0
      /\ SpentIn(Rest) \subseteq built \cup alive
      /\ \A s \in Slots : View[s] = IF s \in (built \cup alive) \ SpentIn(Rest) THEN p_[s] ELSE nullptr
  BY <1>1, CallStart
<1>4. r \in Slots /\ r \notin alive /\ p_' \in Pointers /\ View[r] = nullptr
  BY <1>1, <1>3, PtrAssumption DEF Slots, Pointers
<1>5. View[src] = p_[src]
  BY <1>1, MayUse
<1> DEFINE w == [View EXCEPT ![r] = View[src]]
<1>6. w \in Pointers /\ refs' \in [Objects -> Nat] /\ Counted(w, refs', alive, DyingIn(Rest))
  BY <1>2, <1>3, <1>4, <1>5, CopyCounts
<1>7. \A y \in Slots : View[y] \in {nullptr, w[y]} /\ (y # r => w[y] = View[y]) /\ w[r] = p_[src]
  BY <1>3, <1>4, <1>5 DEF Pointers
<1> HIDE DEF w
<1>8. \A y \in Slots : y \notin built' \cup alive \/ y \in SpentIn(Rest) => w[y] = nullptr
  BY <1>1, <1>3, <1>4, <1>7
<1>9. Typed(Rest, w, built', alive, refs') /\ Good(Rest, w, built', alive, refs')
  <2>1. built' \in SUBSET Roots /\ alive \in SUBSET Objects /\ built \subseteq built'
    BY <1>1, <1>3
  <2> QED BY <1>3, <1>6, <1>7, <1>8, <2>1, GoodGrown
<1>10. \A s \in Slots : w[s] = IF s \in (built' \cup alive) \ SpentIn(Rest) THEN p_'[s] ELSE nullptr
  BY <1>1, <1>3, <1>4, <1>7 DEF Pointers
<1>11. \A o \in Objects \ made : refs'[o] = 0
  <2>1. p_[src] # nullptr => p_[src] \in made
    BY <1>3, <1>5 DEF Counted
  <2>2. \A o \in Objects : o # p_[src] => refs'[o] = refs[o]
    BY <1>2, <1>3 DEF Added
  <2> QED BY <1>3, <2>1, <2>2, PtrAssumption
<1> QED BY <1>2, <1>3, <1>4, <1>9, <1>10, <1>11, NextInv

\* The move constructor keeps the invariant.
LEMMA MoveConstructInv ==
  ASSUME IndInv, NEW r \in Roots, NEW src \in Slots, MoveConstruct(r, src)
  PROVE  IndInv'
<1> DEFINE q == [Unspent EXCEPT ![r] = p_[src], ![src] = nullptr]
           w == Moved(View, r, src)
<1>1. /\ MayCall /\ r \notin built /\ src \in Accessible /\ built' = built \cup {r}
      /\ p_' = [p_ EXCEPT ![r] = p_[src], ![src] = nullptr] /\ KeepsOperands(q)
  BY DEF MoveConstruct
<1>2. todo' = Rest /\ UNCHANGED <<made, alive, refs>>
  BY DEF MoveConstruct
<1>3. /\ Typed(Rest, View, built, alive, refs) /\ Good(Rest, View, built, alive, refs)
      /\ Counted(View, refs, alive, DyingIn(Rest))
      /\ p_ \in Pointers /\ View \in Pointers /\ refs \in [Objects -> Nat]
      /\ built \in SUBSET Roots /\ made \in SUBSET Objects /\ alive \in SUBSET made
      /\ \A o \in Objects \ made : refs[o] = 0
      /\ SpentIn(Rest) \subseteq built \cup alive
      /\ \A s \in Slots : View[s] = IF s \in (built \cup alive) \ SpentIn(Rest) THEN p_[s] ELSE nullptr
  BY <1>1, CallStart
<1>4. /\ r \in Slots /\ r \notin alive /\ p_' \in Pointers /\ View[r] = nullptr
      /\ nullptr \notin Slots
  BY <1>1, <1>3, PtrAssumption DEF Slots, Pointers
<1>5. View[src] = p_[src] /\ src \in built \cup alive
  BY <1>1, MayUse
<1>6. r # src
  BY <1>1, <1>4, <1>5
<1>7. w \in Pointers /\ Counted(w, refs, alive, DyingIn(Rest))
  <2>1. alive \in SUBSET Objects
    BY <1>3
  <2> QED BY <1>3, <1>4, <1>6, <2>1, MovedCounts
<1>8. /\ \A y \in Slots \ {r, src} : w[y] = View[y]
      /\ w[r] = p_[src] /\ w[src] = nullptr
  BY <1>3, <1>4, <1>5, <1>6 DEF Pointers, Moved
<1>9. \A y \in Live : q[y] = w[y] /\ w[y] \in (alive \ DyingIn(Rest)) \cup {nullptr}
  <2>1. /\ \A y \in Live : y \in Slots /\ Unspent[y] = View[y]
        /\ \A y \in Slots : View[y] \in (alive \ DyingIn(Rest)) \cup {nullptr}
    BY <1>1, CallView
  <2>2. \A y \in Live : y # r /\ q[y] = IF y = src THEN nullptr ELSE Unspent[y]
    BY <1>1, <1>4, <2>1 DEF Live, Unspent
  <2> QED BY <1>8, <2>1, <2>2
<1> HIDE DEF q, w
<1>10. \A x \in (Behind(Rest, 0) \cap alive) \ DyingIn(Rest) : x \in Held(Cut(w, Behind(Rest, 0)), built)
  BY <1>1, <1>9, Asked
<1>11. \A s \in Slots : w[s] = IF s \in (built' \cup alive) \ SpentIn(Rest) THEN p_'[s] ELSE nullptr
  <2>1. r \in (built' \cup alive) \ SpentIn(Rest)
    BY <1>1, <1>3, <1>4
  <2>2. p_'[r] = p_[src] /\ p_'[src] = nullptr /\ \A s \in Slots \ {r, src} : p_'[s] = p_[s]
    BY <1>1, <1>3, <1>4, <1>6 DEF Pointers
  <2> QED BY <1>1, <1>3, <1>8, <2>1, <2>2
<1>12. Typed(Rest, w, built', alive, refs) /\ Good(Rest, w, built', alive, refs)
  <2>1. built' \in SUBSET Roots /\ built \subseteq built'
    BY <1>1, <1>3
  <2>2. \A y \in Slots : y \notin built' \cup alive \/ y \in SpentIn(Rest) => w[y] = nullptr
    BY <1>11
  <2> QED BY <1>3, <1>7, <1>10, <2>1, <2>2, GoodTraded
<1> QED BY <1>2, <1>3, <1>4, <1>11, <1>12, NextInv

\* Swapping keeps the invariant.
LEMMA SwapInv ==
  ASSUME IndInv, NEW s \in Slots, NEW t \in Slots, Swap(s, t)
  PROVE  IndInv'
<1> DEFINE q == [Unspent EXCEPT ![s] = p_[t], ![t] = p_[s]]
           w == [View EXCEPT ![s] = View[t], ![t] = View[s]]
<1>1. /\ MayCall /\ s \in Accessible /\ t \in Accessible
      /\ p_' = [p_ EXCEPT ![s] = p_[t], ![t] = p_[s]] /\ KeepsOperands(q)
  BY DEF Swap
<1>2. todo' = Rest /\ UNCHANGED <<built, made, alive, refs>>
  BY DEF Swap
<1>3. /\ Typed(Rest, View, built, alive, refs) /\ Good(Rest, View, built, alive, refs)
      /\ Counted(View, refs, alive, DyingIn(Rest))
      /\ p_ \in Pointers /\ View \in Pointers /\ refs \in [Objects -> Nat]
      /\ built \in SUBSET Roots /\ made \in SUBSET Objects /\ alive \in SUBSET made
      /\ \A o \in Objects \ made : refs[o] = 0
      /\ \A y \in Slots : View[y] = IF y \in (built \cup alive) \ SpentIn(Rest) THEN p_[y] ELSE nullptr
  BY <1>1, CallStart
<1>4. /\ View[s] = p_[s] /\ s \in built \cup alive /\ s \notin SpentIn(Rest)
      /\ View[t] = p_[t] /\ t \in built \cup alive /\ t \notin SpentIn(Rest)
  <2>1. SpentIn(Rest) = SpentIn(todo)
    BY <1>1, ViewTyped, CallState
  <2> QED BY <1>1, <2>1, MayUse
<1>5. w \in Pointers /\ Counted(w, refs, alive, DyingIn(Rest))
  <2>1. alive \in SUBSET Objects
    BY <1>3
  <2> QED BY <1>3, <2>1, SwappedCounts
<1>6. \A y \in Slots : w[y] = IF y = t THEN p_[s] ELSE IF y = s THEN p_[t] ELSE View[y]
  BY <1>3, <1>4 DEF Pointers
<1>7. \A y \in Live : q[y] = w[y] /\ w[y] \in (alive \ DyingIn(Rest)) \cup {nullptr}
  <2>1. /\ \A y \in Live : y \in Slots /\ Unspent[y] = View[y]
        /\ \A y \in Slots : View[y] \in (alive \ DyingIn(Rest)) \cup {nullptr}
    BY <1>1, CallView
  <2>2. \A y \in Live : q[y] = IF y = t THEN p_[s] ELSE IF y = s THEN p_[t] ELSE Unspent[y]
    BY <2>1 DEF Unspent
  <2> HIDE DEF w, q
  <2> QED BY <1>4, <1>6, <2>1, <2>2
<1>8. p_' \in Pointers /\ \A y \in Slots : p_'[y] = IF y = t THEN p_[s] ELSE IF y = s THEN p_[t] ELSE p_[y]
  BY <1>1, <1>3 DEF Pointers
<1> HIDE DEF q, w
<1>9. \A x \in (Behind(Rest, 0) \cap alive) \ DyingIn(Rest) : x \in Held(Cut(w, Behind(Rest, 0)), built)
  BY <1>1, <1>7, Asked
<1>10. \A y \in Slots : w[y] = IF y \in (built \cup alive) \ SpentIn(Rest) THEN p_'[y] ELSE nullptr
  BY <1>3, <1>4, <1>6, <1>8
<1>11. Typed(Rest, w, built, alive, refs) /\ Good(Rest, w, built, alive, refs)
  <2>1. \A y \in Slots : y \notin built \cup alive \/ y \in SpentIn(Rest) => w[y] = nullptr
    BY <1>10
  <2> QED BY <1>3, <1>5, <1>9, <2>1, GoodTraded
<1> QED BY <1>2, <1>3, <1>8, <1>10, <1>11, NextInv

\* MakeInstance keeps the invariant.
LEMMA MakeInstanceInv ==
  ASSUME IndInv, NEW r \in Roots, NEW o \in Objects, MakeInstance(r, o)
  PROVE  IndInv'
<1>1. /\ MayCall /\ r \notin built /\ o \notin made /\ built' = built \cup {r}
      /\ made' = made \cup {o} /\ alive' = alive \cup {o}
      /\ p_' = [p_ EXCEPT ![r] = o, ![o] = nullptr]
  BY DEF MakeInstance
<1>2. todo' = Rest /\ refs' = Added(refs, o)
  BY DEF MakeInstance, AddReference, Added
<1>3. /\ Typed(Rest, View, built, alive, refs) /\ Good(Rest, View, built, alive, refs)
      /\ Counted(View, refs, alive, DyingIn(Rest))
      /\ p_ \in Pointers /\ View \in Pointers /\ refs \in [Objects -> Nat]
      /\ built \in SUBSET Roots /\ made \in SUBSET Objects /\ alive \in SUBSET made
      /\ \A x \in Objects \ made : refs[x] = 0
      /\ SpentIn(Rest) \subseteq built \cup alive /\ DyingIn(Rest) \subseteq alive
      /\ \A s \in Slots : View[s] = IF s \in (built \cup alive) \ SpentIn(Rest) THEN p_[s] ELSE nullptr
  BY <1>1, CallStart
<1>4. /\ r \in Slots /\ r \notin alive /\ o \in Slots /\ r # o /\ o \notin built \cup alive
      /\ nullptr \notin Objects /\ View[r] = nullptr /\ View[o] = nullptr /\ p_' \in Pointers
  BY <1>1, <1>3, PtrAssumption DEF Slots, Pointers
<1> DEFINE w == [View EXCEPT ![r] = o]
<1>5. w \in Pointers /\ refs' \in [Objects -> Nat] /\ Counted(w, refs', alive', DyingIn(Rest))
  <2>1. alive \in SUBSET Objects /\ refs[o] = 0 /\ o \in Objects \ alive
    BY <1>1, <1>3
  <2>2. /\ View \in Pointers /\ refs \in [Objects -> Nat] /\ DyingIn(Rest) \in SUBSET alive
        /\ Counted(View, refs, alive, DyingIn(Rest)) /\ r \in Slots /\ View[r] = nullptr
    BY <1>3, <1>4
  <2>3. /\ w \in Pointers /\ Added(refs, o) \in [Objects -> Nat]
        /\ Counted(w, Added(refs, o), alive \cup {o}, DyingIn(Rest))
    BY <2>1, <2>2, FirstCounts
  <2> QED BY <1>1, <1>2, <2>3
<1>6. w[r] = o /\ \A y \in Slots \ {r} : w[y] = View[y]
  BY <1>3, <1>4 DEF Pointers
<1> HIDE DEF w
<1>7. \A s \in Slots : w[s] = IF s \in (built' \cup alive') \ SpentIn(Rest) THEN p_'[s] ELSE nullptr
  <2>1. r \notin SpentIn(Rest) /\ o \notin SpentIn(Rest)
    BY <1>1, <1>3, <1>4
  <2>2. p_'[r] = o /\ p_'[o] = nullptr /\ \A s \in Slots \ {r, o} : p_'[s] = p_[s]
    BY <1>1, <1>3, <1>4 DEF Pointers
  <2> QED BY <1>1, <1>3, <1>4, <1>6, <2>1, <2>2
<1>8. Typed(Rest, w, built', alive', refs') /\ Good(Rest, w, built', alive', refs')
  <2>1. /\ built' \in SUBSET Roots /\ alive' \in SUBSET Objects
        /\ built \subseteq built' /\ alive \subseteq alive' /\ alive' \cap (built \cup alive) \subseteq alive
    BY <1>1, <1>3, <1>4
  <2>2. \A y \in Slots : y \notin built' \cup alive' \/ y \in SpentIn(Rest) => w[y] = nullptr
    BY <1>7
  <2>3. \A y \in Slots : View[y] \in {nullptr, w[y]}
    BY <1>4, <1>6
  <2> QED BY <1>3, <1>5, <2>1, <2>2, <2>3, GoodGrown
<1>9. made' \subseteq Objects /\ alive' \subseteq made' /\ \A x \in Objects \ made' : refs'[x] = 0
  <2>1. \A x \in Objects : x # o => refs'[x] = refs[x]
    BY <1>2, <1>3 DEF Added
  <2> QED BY <1>1, <1>3, <2>1
<1> QED BY <1>2, <1>4, <1>7, <1>8, <1>9, NextInv

\* The source of a copy or a move has not given up its reference.
LEMMA SourceUnspent ==
  ASSUME NEW td \in Seq(Items), td # <<>>, Ordered(td), Apart(td), 1 \in 1 .. Len(td),
         td[1].do \in {"copy", "move"}
  PROVE  td[1].from \notin SpentIn(td) /\ td[1].from # td[1].slot
<1>1. td[1].from # td[1].slot /\ td[1].do \in Final
  BY DEF Ordered, Final
<1> SUFFICES ASSUME NEW k \in 1 .. Len(td), td[k].do \in Final, td[k].slot = td[1].from,
                    k > 1 => td[k - 1].do # "release"
             PROVE  FALSE
  BY <1>1 DEF SpentIn
<1>2. k > 1
  BY <1>1
<1>3. td[1].from \in Names(td, 1) /\ td[1].from \in Names(td, k)
  BY DEF Names
<1>4. k = 1 + 2 /\ td[1 + 1].do = "release"
  BY <1>1, <1>2, <1>3, NamedOnce
<1> QED BY <1>2, <1>4

\* The state a part of an operation starts from.
LEMMA PartStart ==
  ASSUME IndInv, NEW what, Next1(what)
  PROVE  /\ todo \in Seq(Items) /\ Ordered(todo) /\ Apart(todo) /\ todo # <<>> /\ 1 \in 1 .. Len(todo)
         /\ todo[1].do = what /\ Slot = todo[1].slot /\ From = todo[1].from
         /\ Slot \in Slots \cap (built \cup alive) /\ From \in Slots \cap (built \cup alive)
         /\ Typed(todo, View, built, alive, refs) /\ Good(todo, View, built, alive, refs)
         /\ p_ \in Pointers /\ View \in Pointers /\ refs \in [Objects -> Nat]
         /\ built \in SUBSET Roots /\ made \in SUBSET Objects /\ alive \in SUBSET made
         /\ \A o \in Objects \ made : refs[o] = 0
         /\ \A s \in Slots : View[s] = IF s \in (built \cup alive) \ SpentIn(todo) THEN p_[s] ELSE nullptr
<1>1. /\ todo \in Seq(Items) /\ Ordered(todo) /\ Apart(todo) /\ p_ \in Pointers
      /\ Typed(todo, View, built, alive, refs) /\ Good(todo, View, built, alive, refs)
      /\ \A s \in Slots : View[s] = IF s \in Live \ SpentIn(todo) THEN p_[s] ELSE nullptr
  BY ViewTyped
<1>2. todo # <<>> /\ Head(todo).do = what
  BY DEF Next1
<1>3. Head(todo) = todo[1] /\ 1 \in 1 .. Len(todo)
  BY <1>1, <1>2, TailItems
<1>4. todo[1].do = what /\ Slot = todo[1].slot /\ From = todo[1].from
  BY <1>2, <1>3 DEF Slot, From
<1>5. todo[1].slot \in Slots \cap (built \cup alive) /\ todo[1].from \in Slots \cap (built \cup alive)
  <2>1. Names(todo, 1) \subseteq built \cup alive
    BY <1>1, <1>3 DEF Good
  <2> QED BY <1>1, <1>3, <2>1, ItemParts
<1>6. View \in Pointers /\ refs \in [Objects -> Nat] /\ built \in SUBSET Roots
  BY <1>1 DEF Typed
<1> QED BY <1>1, <1>2, <1>3, <1>4, <1>5, <1>6 DEF IndInv, TypeOK, Live

\* The return of a destructor's body keeps the invariant.
LEMMA BodyReturnsInv ==
  ASSUME IndInv, BodyReturns
  PROVE  IndInv'
<1>1. Next1("body") /\ todo' = Tail(todo) /\ UNCHANGED <<p_, built, made, alive, refs>>
  BY DEF BodyReturns
<1>2. /\ todo \in Seq(Items) /\ Ordered(todo) /\ todo # <<>> /\ todo[1].do = "body"
      /\ Typed(todo, View, built, alive, refs) /\ Good(todo, View, built, alive, refs)
      /\ p_ \in Pointers /\ made \in SUBSET Objects /\ alive \in SUBSET made
      /\ \A o \in Objects \ made : refs[o] = 0
      /\ \A s \in Slots : View[s] = IF s \in (built \cup alive) \ SpentIn(todo) THEN p_[s] ELSE nullptr
  BY <1>1, PartStart
<1>3. Typed(Tail(todo), View, built, alive, refs) /\ Good(Tail(todo), View, built, alive, refs)
  BY <1>2, GoodBody
<1>4. SpentIn(Tail(todo)) = SpentIn(todo)
  BY <1>2, TailOfBody
<1> QED BY <1>1, <1>2, <1>3, <1>4, NextInv

\* ReleaseReference keeps the invariant.
LEMMA ReleaseInv ==
  ASSUME IndInv, Release
  PROVE  IndInv'
<1> DEFINE o == p_[Slot]
           w == [View EXCEPT ![Slot] = nullptr]
           N == After(todo, o, refs)
<1>1. Next1("release") /\ UNCHANGED <<p_, built, made, alive>>
  BY DEF Release
<1>2. /\ todo \in Seq(Items) /\ Ordered(todo) /\ Apart(todo) /\ todo # <<>>
      /\ todo[1].do = "release" /\ Slot = todo[1].slot /\ Slot \in Slots \cap (built \cup alive)
      /\ Typed(todo, View, built, alive, refs) /\ Good(todo, View, built, alive, refs)
      /\ p_ \in Pointers /\ View \in Pointers /\ refs \in [Objects -> Nat]
      /\ made \in SUBSET Objects /\ alive \in SUBSET made /\ \A x \in Objects \ made : refs[x] = 0
      /\ \A s \in Slots : View[s] = IF s \in (built \cup alive) \ SpentIn(todo) THEN p_[s] ELSE nullptr
  BY <1>1, PartStart
<1>3. <<>> \o Tail(todo) = Tail(todo)
  BY <1>2, TailItems
<1>4. todo' = N /\ refs' = Removed(refs, o)
  BY <1>3 DEF Release, Removed, After
<1>5. Slot \notin SpentIn(todo)
  BY <1>2, TailOfRelease
<1>6. View[Slot] = o
  BY <1>2, <1>5
<1>7. /\ Typed(N, w, built, alive, Removed(refs, o)) /\ Good(N, w, built, alive, Removed(refs, o))
      /\ SpentIn(N) = SpentIn(todo) \cup {Slot}
  <2>1. o = View[todo[1].slot] /\ w = [View EXCEPT ![todo[1].slot] = nullptr]
    BY <1>2, <1>6
  <2> HIDE DEF o, N, w
  <2>2. /\ Typed(todo, View, built, alive, refs) /\ Good(todo, View, built, alive, refs)
        /\ todo # <<>> /\ todo[1].do = "release"
    BY <1>2
  <2>3. /\ Typed(After(todo, o, refs), [View EXCEPT ![todo[1].slot] = nullptr], built, alive, Removed(refs, o))
        /\ Good(After(todo, o, refs), [View EXCEPT ![todo[1].slot] = nullptr], built, alive, Removed(refs, o))
        /\ SpentIn(After(todo, o, refs)) = SpentIn(todo) \cup {todo[1].slot}
    BY <2>1, <2>2, GoodRelease, Zenon
  <2> QED BY <1>2, <2>1, <2>3 DEF N
<1>8. \A s \in Slots : w[s] = IF s = Slot THEN nullptr ELSE View[s]
  BY <1>2 DEF Pointers
<1> HIDE DEF w, N
<1>9. \A s \in Slots : w[s] = IF s \in (built \cup alive) \ SpentIn(N) THEN p_[s] ELSE nullptr
  BY <1>2, <1>7, <1>8
<1>10. \A x \in Objects \ made : refs'[x] = 0
  <2>1. o # nullptr => o \in made
    <3>1. Counted(View, refs, alive, DyingIn(todo))
      BY <1>2 DEF Good
    <3> QED BY <1>2, <1>6, <3>1 DEF Counted
  <2>2. \A x \in Objects : x # o => refs'[x] = refs[x]
    BY <1>2, <1>4 DEF Removed
  <2> QED BY <1>2, <2>1, <2>2, PtrAssumption
<1> QED BY <1>1, <1>2, <1>4, <1>7, <1>9, <1>10, NextInv

\* The second half of a copy assignment keeps the invariant.
LEMMA CopyInv ==
  ASSUME IndInv, Copy
  PROVE  IndInv'
<1> DEFINE w == [View EXCEPT ![Slot] = View[From]]
<1>1. /\ Next1("copy") /\ p_' = [p_ EXCEPT ![Slot] = p_[From]]
      /\ todo' = Tail(todo) /\ UNCHANGED <<built, made, alive>> /\ refs' = Added(refs, p_[From])
  BY DEF Copy, AddReference, Added
<1>2. /\ todo \in Seq(Items) /\ Ordered(todo) /\ Apart(todo) /\ todo # <<>> /\ 1 \in 1 .. Len(todo)
      /\ todo[1].do = "copy" /\ Slot = todo[1].slot /\ From = todo[1].from
      /\ Slot \in Slots \cap (built \cup alive) /\ From \in Slots \cap (built \cup alive)
      /\ Typed(todo, View, built, alive, refs) /\ Good(todo, View, built, alive, refs)
      /\ p_ \in Pointers /\ View \in Pointers /\ refs \in [Objects -> Nat]
      /\ made \in SUBSET Objects /\ alive \in SUBSET made /\ \A x \in Objects \ made : refs[x] = 0
      /\ \A s \in Slots : View[s] = IF s \in (built \cup alive) \ SpentIn(todo) THEN p_[s] ELSE nullptr
  BY <1>1, PartStart
<1>3. From \notin SpentIn(todo) /\ From # Slot
  BY <1>2, SourceUnspent
<1>4. SpentIn(Tail(todo)) = SpentIn(todo) \ {Slot}
  BY <1>2, PartTail DEF Ops, Final
<1>5. View[From] = p_[From]
  BY <1>2, <1>3
<1>6. /\ Typed(Tail(todo), w, built, alive, Added(refs, p_[From]))
      /\ Good(Tail(todo), w, built, alive, Added(refs, p_[From]))
  BY <1>2, <1>5, GoodCopy
<1>7. \A s \in Slots : w[s] = IF s = Slot THEN p_[From] ELSE View[s]
  BY <1>2, <1>5 DEF Pointers
<1>8. p_' \in Pointers /\ \A s \in Slots : p_'[s] = IF s = Slot THEN p_[From] ELSE p_[s]
  BY <1>1, <1>2 DEF Pointers
<1> HIDE DEF w
<1>9. \A s \in Slots : w[s] = IF s \in (built \cup alive) \ SpentIn(Tail(todo)) THEN p_'[s] ELSE nullptr
  BY <1>2, <1>4, <1>7, <1>8
<1>10. \A x \in Objects \ made : refs'[x] = 0
  <2>1. p_[From] # nullptr => p_[From] \in made
    <3>1. Counted(View, refs, alive, DyingIn(todo))
      BY <1>2 DEF Good
    <3> QED BY <1>2, <1>5, <3>1 DEF Counted
  <2>2. \A x \in Objects : x # p_[From] => refs'[x] = refs[x]
    BY <1>1, <1>2 DEF Added
  <2> QED BY <1>2, <2>1, <2>2, PtrAssumption
<1> QED BY <1>1, <1>2, <1>6, <1>8, <1>9, <1>10, NextInv

\* The second half of a move assignment keeps the invariant.
LEMMA MoveInv ==
  ASSUME IndInv, Move
  PROVE  IndInv'
<1> DEFINE w == Moved(View, Slot, From)
<1>1. /\ Next1("move") /\ p_' = [p_ EXCEPT ![Slot] = p_[From], ![From] = nullptr]
      /\ todo' = Tail(todo) /\ UNCHANGED <<built, made, alive, refs>>
  BY DEF Move
<1>2. /\ todo \in Seq(Items) /\ Ordered(todo) /\ Apart(todo) /\ todo # <<>> /\ 1 \in 1 .. Len(todo)
      /\ todo[1].do = "move" /\ Slot = todo[1].slot /\ From = todo[1].from
      /\ Slot \in Slots \cap (built \cup alive) /\ From \in Slots \cap (built \cup alive)
      /\ Typed(todo, View, built, alive, refs) /\ Good(todo, View, built, alive, refs)
      /\ p_ \in Pointers /\ View \in Pointers
      /\ made \in SUBSET Objects /\ alive \in SUBSET made /\ \A x \in Objects \ made : refs[x] = 0
      /\ \A s \in Slots : View[s] = IF s \in (built \cup alive) \ SpentIn(todo) THEN p_[s] ELSE nullptr
  BY <1>1, PartStart
<1>3. From \notin SpentIn(todo) /\ From # Slot
  BY <1>2, SourceUnspent
<1>4. SpentIn(Tail(todo)) = SpentIn(todo) \ {Slot}
  BY <1>2, PartTail DEF Ops, Final
<1>5. Typed(Tail(todo), w, built, alive, refs) /\ Good(Tail(todo), w, built, alive, refs)
  BY <1>2, GoodMove
<1>6. \A s \in Slots : w[s] = IF s = From THEN nullptr ELSE IF s = Slot THEN p_[From] ELSE View[s]
  BY <1>2, <1>3 DEF Pointers, Moved
<1>7. /\ p_' \in Pointers
      /\ \A s \in Slots : p_'[s] = IF s = From THEN nullptr ELSE IF s = Slot THEN p_[From] ELSE p_[s]
  BY <1>1, <1>2 DEF Pointers
<1> HIDE DEF w
<1>8. \A s \in Slots : w[s] = IF s \in (built \cup alive) \ SpentIn(Tail(todo)) THEN p_'[s] ELSE nullptr
  BY <1>2, <1>4, <1>6, <1>7
<1> QED BY <1>1, <1>2, <1>5, <1>7, <1>8, NextInv

\* ReleaseReference<true> setting its pointer to null keeps the invariant.
LEMMA SetToNullInv ==
  ASSUME IndInv, SetToNull
  PROVE  IndInv'
<1>1. /\ Next1("null") /\ p_' = [p_ EXCEPT ![Slot] = nullptr]
      /\ todo' = Tail(todo) /\ UNCHANGED <<built, made, alive, refs>>
  BY DEF SetToNull
<1>2. /\ todo # <<>> /\ todo[1].do = "null" /\ Slot = todo[1].slot /\ Slot \in Slots
      /\ Typed(todo, View, built, alive, refs) /\ Good(todo, View, built, alive, refs)
      /\ p_ \in Pointers /\ made \in SUBSET Objects /\ alive \in SUBSET made
      /\ \A x \in Objects \ made : refs[x] = 0
      /\ \A s \in Slots : View[s] = IF s \in (built \cup alive) \ SpentIn(todo) THEN p_[s] ELSE nullptr
  BY <1>1, PartStart
<1>3. SpentIn(Tail(todo)) = SpentIn(todo) \ {Slot} /\ View[Slot] = nullptr
  BY <1>2, PartTail DEF Ops, Final
<1>4. Typed(Tail(todo), View, built, alive, refs) /\ Good(Tail(todo), View, built, alive, refs)
  BY <1>2, GoodNull
<1>5. p_' \in Pointers /\ \A s \in Slots : p_'[s] = IF s = Slot THEN nullptr ELSE p_[s]
  BY <1>1, <1>2 DEF Pointers
<1>6. \A s \in Slots : View[s] = IF s \in (built \cup alive) \ SpentIn(Tail(todo)) THEN p_'[s] ELSE nullptr
  BY <1>2, <1>3, <1>5
<1> QED BY <1>1, <1>2, <1>4, <1>5, <1>6, NextInv

\* The end of a pointer keeps the invariant.
LEMMA GoneInv ==
  ASSUME IndInv, Gone
  PROVE  IndInv'
<1>1. /\ Next1("gone") /\ built' = built \ {Slot}
      /\ todo' = Tail(todo) /\ UNCHANGED <<p_, made, alive, refs>>
  BY DEF Gone
<1>2. /\ todo # <<>> /\ todo[1].do = "gone" /\ Slot = todo[1].slot
      /\ Typed(todo, View, built, alive, refs) /\ Good(todo, View, built, alive, refs)
      /\ p_ \in Pointers /\ made \in SUBSET Objects /\ alive \in SUBSET made
      /\ \A x \in Objects \ made : refs[x] = 0
      /\ \A s \in Slots : View[s] = IF s \in (built \cup alive) \ SpentIn(todo) THEN p_[s] ELSE nullptr
  BY <1>1, PartStart
<1>3. /\ SpentIn(Tail(todo)) = SpentIn(todo) \ {Slot} /\ View[Slot] = nullptr /\ Slot \in Roots
  BY <1>2, PartTail DEF Ops, Final
<1>4. Typed(Tail(todo), View, built', alive, refs) /\ Good(Tail(todo), View, built', alive, refs)
  BY <1>1, <1>2, GoodGone
<1>5. Slot \notin alive
  BY <1>2, <1>3, PtrAssumption
<1>6. \A s \in Slots : View[s] = IF s \in (built' \cup alive) \ SpentIn(Tail(todo)) THEN p_[s] ELSE nullptr
  BY <1>1, <1>2, <1>3, <1>5
<1> QED BY <1>1, <1>2, <1>4, <1>6, NextInv

\* The end of an object keeps the invariant.
LEMMA FreeInv ==
  ASSUME IndInv, Free
  PROVE  IndInv'
<1>1. /\ Next1("free") /\ alive' = alive \ {Slot}
      /\ todo' = Tail(todo) /\ UNCHANGED <<p_, built, made, refs>>
  BY DEF Free
<1>2. /\ todo \in Seq(Items) /\ Ordered(todo) /\ Apart(todo) /\ todo # <<>> /\ 1 \in 1 .. Len(todo)
      /\ todo[1].do = "free" /\ Slot = todo[1].slot /\ built \in SUBSET Roots
      /\ Typed(todo, View, built, alive, refs) /\ Good(todo, View, built, alive, refs)
      /\ p_ \in Pointers /\ made \in SUBSET Objects /\ alive \in SUBSET made
      /\ \A x \in Objects \ made : refs[x] = 0
      /\ \A s \in Slots : View[s] = IF s \in (built \cup alive) \ SpentIn(todo) THEN p_[s] ELSE nullptr
  BY <1>1, PartStart
<1>3. SpentIn(Tail(todo)) = SpentIn(todo) \ {Slot} /\ Slot \in SpentIn(todo)
  BY <1>2, TailOfFinal DEF Final
<1>4. Slot \notin built
  BY <1>2, PtrAssumption DEF Ordered
<1>5. Typed(Tail(todo), View, built, alive', refs) /\ Good(Tail(todo), View, built, alive', refs)
  BY <1>1, <1>2, GoodFree
<1>6. \A s \in Slots : View[s] = IF s \in (built \cup alive') \ SpentIn(Tail(todo)) THEN p_[s] ELSE nullptr
  BY <1>1, <1>2, <1>3, <1>4
<1>7. alive' \subseteq made
  BY <1>1, <1>2
<1> QED BY <1>1, <1>2, <1>5, <1>6, <1>7, NextInv

\* A program that has made nothing yet is good.
LEMMA InitInv == Init => IndInv
<1> SUFFICES ASSUME Init PROVE IndInv
  OBVIOUS
<1>1. /\ p_ = [s \in Slots |-> nullptr] /\ built = {} /\ made = {} /\ alive = {}
      /\ refs = [o \in Objects |-> 0] /\ todo = <<>>
  BY DEF Init
<1>2. /\ Len(todo) = 0 /\ todo \in Seq(Items)
      /\ todo \in Seq([do : {"body", "release", "copy", "move", "null", "gone", "free"},
                   slot : Slots, from : Slots])
  BY <1>1
<1>3. TypeOK
  BY <1>1, <1>2 DEF TypeOK
<1>4. /\ Ordered(todo) /\ Apart(todo) /\ OperandsStay(todo, View, built) /\ OthersStay(todo, View, built, alive)
      /\ \A i \in 1 .. Len(todo) : Names(todo, i) \subseteq built \cup alive
  <2>1. 1 .. Len(todo) = {}
    BY <1>2
  <2> QED BY <2>1 DEF Ordered, Apart, OperandsStay, OthersStay
<1>5. Counted(View, refs, alive, DyingIn(todo))
  <2>1. DyingIn(todo) = {}
    BY <1>2 DEF DyingIn
  <2>2. \A s \in Slots : View[s] = nullptr
    BY <1>1 DEF View
  <2> QED BY <1>1, <2>1, <2>2 DEF Counted
<1> QED BY <1>1, <1>3, <1>4, <1>5 DEF IndInv, Good

\* Every step keeps the invariant.
LEMMA StepInv ==
  ASSUME Aliasing = FALSE, IndInv, [Next]_vars
  PROVE  IndInv'
<1>1. CASE UNCHANGED vars
  BY <1>1 DEF vars, IndInv, TypeOK, View, Live
<1>2. CASE Step
  BY <1>2, BodyReturnsInv, ReleaseInv, CopyInv, MoveInv, SetToNullInv, GoneInv, FreeInv DEF Step
<1>3. CASE Client
  <2>1. ASSUME NEW r \in Roots, ConstructNull(r) \/ Destruct(r) PROVE IndInv'
    BY <2>1, ConstructNullInv, DestructInv
  <2>2. ASSUME NEW r \in Roots, NEW o \in Objects, MakeInstance(r, o) PROVE IndInv'
    BY <2>2, MakeInstanceInv
  <2>3. ASSUME NEW r \in Roots, NEW s \in Slots, CopyConstruct(r, s) \/ MoveConstruct(r, s) PROVE IndInv'
    BY <2>3, CopyConstructInv, MoveConstructInv
  <2>4. ASSUME NEW s \in Slots, Reset(s) PROVE IndInv'
    BY <2>4, ResetInv
  <2>5. ASSUME NEW s \in Slots, NEW t \in Slots, Swap(s, t) \/ CopyAssign(s, t) \/ MoveAssign(s, t)
        PROVE  IndInv'
    BY <2>5, SwapInv, CopyAssignInv, MoveAssignInv
  <2> QED BY <1>3, <2>1, <2>2, <2>3, <2>4, <2>5 DEF Client
<1> QED BY <1>1, <1>2, <1>3 DEF Next

-----------------------------------------------------------------------------
(* Theorems.                                                               *)

\* The inductive invariant, when no client assigns from inside what the assignment destroys.
THEOREM IndInvHolds ==
  ASSUME Aliasing = FALSE
  PROVE  Spec => []IndInv
<1>1. IndInv /\ [Next]_vars => IndInv'
  BY StepInv
<1> QED BY <1>1, InitInv, PTL DEF Spec, SafeSpec

\* No count ever goes below zero and nothing under way names what is no pointer: TypeOK.
THEOREM TypeCorrect ==
  ASSUME Aliasing = FALSE
  PROVE  Spec => []TypeOK
<1>1. IndInv => TypeOK
  BY DEF IndInv
<1> QED BY <1>1, IndInvHolds, PTL

\* At every point of every operation, inside the destructors it calls too, an object's
\* count is the number of pointers to it (AddReference and ReleaseReference pair up).
THEOREM CountsAreExact ==
  ASSUME Aliasing = FALSE
  PROVE  Spec => []CountsPointers
<1>1. IndInv => CountsPointers
  <2> SUFFICES ASSUME IndInv, NEW o \in alive PROVE refs[o] = Cardinality(PointersTo(o))
    BY DEF CountsPointers
  <2>1. /\ Typed(todo, View, built, alive, refs) /\ Good(todo, View, built, alive, refs)
        /\ \A s \in Slots : /\ Spent(s) <=> s \in SpentIn(todo)
                            /\ View[s] = IF s \in Live \ SpentIn(todo) THEN p_[s] ELSE nullptr
    BY ViewTyped
  <2>2. o # nullptr /\ Live \subseteq Slots
    BY <2>1, PtrAssumption DEF Typed, Live, Slots
  <2>3. PointersTo(o) = Pointing(View, o)
    BY <2>1, <2>2 DEF PointersTo, Pointing
  <2> QED BY <2>1, <2>3 DEF Good, Counted
<1> QED BY <1>1, IndInvHolds, PTL

\* No pointer that counts is left pointing to a destroyed object, and the pointers an
\* operation still has to read, write or release exist when it comes to that.
THEOREM NothingDestroyedIsUsed ==
  ASSUME Aliasing = FALSE
  PROVE  Spec => []NoUseAfterDestroy
<1>1. IndInv => NoUseAfterDestroy
  <2> SUFFICES ASSUME IndInv PROVE NoUseAfterDestroy
    OBVIOUS
  <2>1. /\ Typed(todo, View, built, alive, refs) /\ Good(todo, View, built, alive, refs)
        /\ \A s \in Slots : /\ Spent(s) <=> s \in SpentIn(todo)
                            /\ View[s] = IF s \in Live \ SpentIn(todo) THEN p_[s] ELSE nullptr
    BY ViewTyped
  <2>2. Live \subseteq Slots
    BY <2>1 DEF Typed, Live, Slots
  <2>3. \A s \in Live : ~Spent(s) => p_[s] \in alive \cup {nullptr}
    BY <2>1, <2>2 DEF Good, Counted
  <2>4. ASSUME ~Idle PROVE {Slot, From} \subseteq Live
    <3>1. Next1(Head(todo).do)
      BY <2>4 DEF Idle, Next1
    <3> QED BY <3>1, PartStart DEF Live
  <2> QED BY <2>3, <2>4 DEF NoUseAfterDestroy
<1> QED BY <1>1, IndInvHolds, PTL

\* The reference that a move assignment takes over is still counted when it takes it,
\* after all that the release before it destroyed.
THEOREM MovedReferenceIsCounted ==
  ASSUME Aliasing = FALSE
  PROVE  Spec => []SourceGivesUpItsReference
<1>1. IndInv => SourceGivesUpItsReference
  <2> SUFFICES ASSUME IndInv, Next1("move"), p_[From] # nullptr PROVE refs[p_[From]] >= 1
    BY DEF SourceGivesUpItsReference
  <2>1. /\ todo \in Seq(Items) /\ Ordered(todo) /\ Apart(todo) /\ todo # <<>> /\ 1 \in 1 .. Len(todo)
        /\ todo[1].do = "move" /\ From = todo[1].from /\ From \in Slots \cap (built \cup alive)
        /\ Typed(todo, View, built, alive, refs) /\ Good(todo, View, built, alive, refs)
        /\ \A s \in Slots : View[s] = IF s \in (built \cup alive) \ SpentIn(todo) THEN p_[s] ELSE nullptr
    BY PartStart
  <2>2. From \notin SpentIn(todo)
    BY <2>1, SourceUnspent
  <2>3. View[From] = p_[From]
    BY <2>1, <2>2
  <2>4. refs[p_[From]] \in Nat \ {0}
    BY <2>1, <2>3, Pointed
  <2> QED BY <2>4
<1> QED BY <1>1, IndInvHolds, PTL

\* Objects each of which another one of them points to are on cycles.
LEMMA PointedToBySome ==
  ASSUME NEW q \in Pointers, NEW P \in SUBSET Objects, \A x \in P : \E y \in P : q[y] = x
  PROVE  \A x \in P : q[x] \in P
<1> DEFINE D == {y \in P : q[y] \in P}
           f == [y \in D |-> q[y]]
<1>1. IsFiniteSet(P) /\ D \in SUBSET P
  BY PtrAssumption, FS_Subset
<1>2. IsFiniteSet(D)
  BY <1>1, FS_Subset
<1>3. f \in Surjection(D, P)
  <2>1. f \in [D -> P]
    OBVIOUS
  <2>2. \A x \in P : \E y \in D : f[y] = x
    OBVIOUS
  <2> HIDE DEF f, D
  <2> QED BY <2>1, <2>2 DEF Surjection
<1> HIDE DEF f, D
<1>4. Cardinality(P) <= Cardinality(D)
  BY <1>2, <1>3, FS_Surjection
<1>5. Cardinality(D) <= Cardinality(P) /\ (Cardinality(P) = Cardinality(D) => P = D)
  BY <1>1, FS_Subset
<1>6. Cardinality(D) \in Nat /\ Cardinality(P) \in Nat
  BY <1>1, <1>2, FS_CardinalityType
<1>7. P = D
  BY <1>4, <1>5, <1>6
<1> QED BY <1>7 DEF D

\* An object that nobody can reach and that was not destroyed is kept by a cycle: the
\* cascade of destructions that a release begins misses nothing else.
THEOREM LeaksAreCycles ==
  ASSUME Aliasing = FALSE
  PROVE  Spec => []OnlyCyclesLeak
<1>1. IndInv => OnlyCyclesLeak
  <2> SUFFICES ASSUME IndInv, Idle, NEW o \in alive \ Held(p_, built)
               PROVE  \E c \in alive : /\ p_[c] # nullptr /\ c \in Reach(p_, {p_[c]})
                                       /\ o \in Reach(p_, {c})
    BY DEF OnlyCyclesLeak
  <2> DEFINE P == {c \in alive \ Held(p_, built) : o \in Reach(p_, {c})}
  <2>1. /\ Typed(todo, View, built, alive, refs) /\ Good(todo, View, built, alive, refs)
        /\ p_ \in Pointers /\ alive \subseteq Objects /\ built \in SUBSET Slots
        /\ \A s \in Slots : View[s] = IF s \in Live \ SpentIn(todo) THEN p_[s] ELSE nullptr
    BY ViewTyped DEF Typed, Slots
  <2>2. DyingIn(todo) = {}
    BY DEF Idle, DyingIn
  <2>3. ASSUME NEW x \in alive \ Held(p_, built)
        PROVE  \E y \in alive \ Held(p_, built) : p_[y] = x
    <3>1. x \in Objects /\ x # nullptr
      BY <2>1, PtrAssumption
    <3>2. View \in Pointers /\ refs[x] = Cardinality(Pointing(View, x)) /\ refs[x] > 0
      BY <2>1, <2>2 DEF Typed, Good, Counted
    <3>3. Cardinality(Pointing(View, x)) # 0
      BY <3>2
    <3>4. PICK y \in Slots : View[y] = x
      BY <3>1, <3>2, <3>3, NonePointing
    <3>5. y \in built \cup alive /\ p_[y] = x
      BY <2>1, <3>1, <3>4 DEF Live
    <3>6. y \notin built \cup Held(p_, built)
      BY <2>1, <2>3, <3>1, <3>5, HeldStep
    <3> QED BY <3>5, <3>6
  <2>4. \A x \in P : \E y \in P : p_[y] = x
    <3> SUFFICES ASSUME NEW x \in P PROVE \E y \in P : p_[y] = x
      OBVIOUS
    <3>1. PICK y \in alive \ Held(p_, built) : p_[y] = x
      BY <2>3
    <3>2. x # nullptr
      BY <2>1, PtrAssumption
    <3>3. o \in Reach(p_, {x})
      OBVIOUS
    <3>4. o \in Reach(p_, {y})
      BY <3>1, <3>2, <3>3 DEF Reach, Closed
    <3> QED BY <3>1, <3>4
  <2>5. o \in P
    BY <2>1 DEF Reach
  <2>6. P \in SUBSET Objects
    BY <2>1
  <2>7. p_[o] \in P
    <3> HIDE DEF P
    <3> QED BY <2>1, <2>4, <2>5, <2>6, PointedToBySome
  <2>8. p_[o] # nullptr
    BY <2>1, <2>7, PtrAssumption
  <2> QED BY <2>5, <2>7, <2>8
<1> QED BY <1>1, IndInvHolds, PTL

=============================================================================
