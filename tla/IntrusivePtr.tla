---------------------------- MODULE IntrusivePtr ----------------------------
(***************************************************************************)
(* edt::IntrusivePtr (pointer/intrusive_ptr.hpp).  The pointers are the    *)
(* client's own, and one in each object they point to, as in a list.  A    *)
(* release may destroy its object, whose own pointer then releases the     *)
(* next, all of it inside the operation that began it: todo is what that   *)
(* operation has left to do, innermost first.  The body of an object's     *)
(* destructor may itself use the client's pointers.                        *)
(***************************************************************************)
EXTENDS Integers, Sequences, FiniteSets

CONSTANTS
  Objects,     \* the objects a client may make
  Roots,       \* the client's own pointers
  nullptr,
  Aliasing,    \* may a source be inside an object that its assignment destroys?
  Reentrant    \* may the body of an object's destructor call, once (a bound)?

ASSUME PtrAssumption ==
  /\ IsFiniteSet(Objects) /\ IsFiniteSet(Roots)
  /\ Objects \cap Roots = {}
  /\ nullptr \notin Objects \cup Roots
  /\ Aliasing \in BOOLEAN /\ Reentrant \in BOOLEAN

Slots == Roots \cup Objects      \* an object stands for the pointer inside it

VARIABLES
  p_,        \* what each pointer points to
  built,     \* the client's pointers that are constructed
  made,      \* the objects constructed so far
  alive,     \* those of them not destroyed
  refs,      \* the count in each object
  todo       \* the rest of the operation under way

vars == <<p_, built, made, alive, refs, todo>>

Live == built \cup alive         \* the pointers that exist
Idle == todo = <<>>

Next1(what) == todo # <<>> /\ Head(todo).do = what
Slot == Head(todo).slot
From == Head(todo).from

\* A pointer whose reference is released already, and that is yet to be
\* overwritten or to go away, still has the address of what it pointed to.
Spent(s) ==
  \E i \in DOMAIN todo :
    /\ todo[i].slot = s /\ todo[i].do \notin {"body", "release"}
    /\ \A j \in 1 .. i : ~(todo[j].slot = s /\ todo[j].do = "release")

-----------------------------------------------------------------------------
(* The client uses the pointers it has, and those in objects it can reach. *)

\* The objects reachable from the objects in S when q[s] is what s points to: those
\* in every set that S is in and that no pointer of its members leads out of.
Closed(q, T) == \A t \in T : q[t] \in T \cup {nullptr}
Reach(q, S) == {o \in Objects : \A T \in SUBSET Objects : S \subseteq T /\ Closed(q, T) => o \in T}

\* The objects held by the pointers in S.
Held(q, S) == Reach(q, {q[s] : s \in S} \ {nullptr})

Unspent == [s \in Slots |-> IF Spent(s) THEN nullptr ELSE p_[s]]

Do(what, slot, from) == [do |-> what, slot |-> slot, from |-> from]

\* What Traits::ReleaseReference does at zero: the body of the object's destructor
\* runs, then the destructor of the pointer inside it, then the object is gone.
Destroy(o) == <<Do("body", o, o), Do("release", o, o), Do("free", o, o)>>

\* The object whose destructor's body runs, the operands of the operations and
\* destructions under way around that body, and the objects being destroyed.
Own == IF Next1("body") THEN {Slot} ELSE {}
Operands == UNION {{todo[n].slot, todo[n].from} : n \in 1 + Len(Destroy(nullptr)) .. Len(todo)}
Dying == {todo[i].slot : i \in {n \in DOMAIN todo : todo[n].do = "free"}}

\* The client's obligation to itself: the body of a destructor leaves pointers alone
\* that are in the middle of an operation, reset or the target of an assignment still
\* having the address of the object that is going away.
Accessible == (built \cup Own \cup Held(Unspent, built \cup Own)) \ Operands

\* Nor does it cut off the objects that such pointers are in, q being the pointers
\* afterwards: other pointers hold them.
KeepsOperands(q) ==
  Operands \cap (alive \ Dying) \subseteq
    Held([s \in Slots |-> IF s \in Operands THEN nullptr ELSE q[s]], built)

\* The client's obligation in dst = src: operator= reads src after it released
\* what dst pointed to, so that release must not destroy the object src is in.
SourceSurvives(dst, src) ==
  LET q == [Unspent EXCEPT ![dst] = nullptr]
  IN  /\ Aliasing \/ src \in Roots \cup Own \cup Held(q, built \cup Own)
      /\ KeepsOperands(q)

-----------------------------------------------------------------------------
(* Operations.  Those that cannot release are one step; the others leave   *)
(* their parts in todo.                                                    *)

MayCall == Idle \/ (Reentrant /\ Next1("body"))
Rest == IF Idle THEN <<>> ELSE Tail(todo)

Start(steps) == todo' = steps \o Rest /\ UNCHANGED <<p_, built, made, alive, refs>>

AddReference(o) == refs' = IF o = nullptr THEN refs ELSE [refs EXCEPT ![o] = @ + 1]

\* MakeInstance, and the constructor from a raw pointer.
MakeInstance(r, o) ==
  /\ MayCall
  /\ r \notin built /\ o \notin made
  /\ built' = built \cup {r}
  /\ made' = made \cup {o} /\ alive' = alive \cup {o}
  /\ p_' = [p_ EXCEPT ![r] = o, ![o] = nullptr]
  /\ AddReference(o)
  /\ todo' = Rest

\* The default constructor; also a DynamicCast to a type the object has not.
ConstructNull(r) ==
  /\ MayCall
  /\ r \notin built
  /\ built' = built \cup {r}
  /\ p_' = [p_ EXCEPT ![r] = nullptr]
  /\ todo' = Rest /\ UNCHANGED <<made, alive, refs>>

\* Copy constructors, StaticCast and DynamicCast.
CopyConstruct(r, src) ==
  /\ MayCall
  /\ r \notin built
  /\ src \in Accessible
  /\ built' = built \cup {r}
  /\ p_' = [p_ EXCEPT ![r] = p_[src]]
  /\ AddReference(p_[src])
  /\ todo' = Rest /\ UNCHANGED <<made, alive>>

MoveConstruct(r, src) ==
  /\ MayCall
  /\ r \notin built
  /\ src \in Accessible
  /\ built' = built \cup {r}
  /\ p_' = [p_ EXCEPT ![r] = p_[src], ![src] = nullptr]
  /\ KeepsOperands([Unspent EXCEPT ![r] = p_[src], ![src] = nullptr])
  /\ todo' = Rest /\ UNCHANGED <<made, alive, refs>>

Destruct(r) ==
  /\ MayCall
  /\ r \in built \cap Accessible
  /\ KeepsOperands([Unspent EXCEPT ![r] = nullptr])
  /\ Start(<<Do("release", r, r), Do("gone", r, r)>>)

Reset(s) ==
  /\ MayCall
  /\ s \in Accessible
  /\ p_[s] # nullptr
  /\ KeepsOperands([Unspent EXCEPT ![s] = nullptr])
  /\ Start(<<Do("release", s, s), Do("null", s, s)>>)

Swap(s, t) ==
  /\ MayCall
  /\ s \in Accessible /\ t \in Accessible
  /\ KeepsOperands([Unspent EXCEPT ![s] = p_[t], ![t] = p_[s]])
  /\ p_' = [p_ EXCEPT ![s] = p_[t], ![t] = p_[s]]
  /\ todo' = Rest /\ UNCHANGED <<built, made, alive, refs>>

\* Mutant: no comparison of the pointers before the release.
CopyAssign_NoCompare(dst, src) ==
  /\ MayCall
  /\ dst \in Accessible /\ src \in Accessible
  /\ SourceSurvives(dst, src)
  /\ Start(<<Do("release", dst, dst), Do("copy", dst, src)>>)

CopyAssign(dst, src) ==
  /\ MayCall
  /\ dst \in Accessible /\ src \in Accessible
  /\ SourceSurvives(dst, src)
  /\ p_[dst] # p_[src]
  /\ Start(<<Do("release", dst, dst), Do("copy", dst, src)>>)

MoveAssign(dst, src) ==
  /\ MayCall
  /\ dst \in Accessible /\ src \in Accessible
  /\ SourceSurvives(dst, src)
  /\ dst # src
  /\ KeepsOperands([Unspent EXCEPT ![dst] = p_[src], ![src] = nullptr])
  /\ Start(<<Do("release", dst, dst), Do("move", dst, src)>>)

-----------------------------------------------------------------------------
(* The parts.                                                              *)

BodyReturns ==
  /\ Next1("body")
  /\ todo' = Tail(todo)
  /\ UNCHANGED <<p_, built, made, alive, refs>>

\* Mutant: the object is not destroyed with its last reference.
Release_NeverDestroys ==
  /\ Next1("release")
  /\ refs' = IF p_[Slot] = nullptr THEN refs ELSE [refs EXCEPT ![p_[Slot]] = @ - 1]
  /\ todo' = Tail(todo)
  /\ UNCHANGED <<p_, built, made, alive>>

\* Mutant: the null check is missing, so the release of nothing never completes.
Release_Hangs ==
  /\ Next1("release")
  /\ p_[Slot] # nullptr
  /\ refs' = [refs EXCEPT ![p_[Slot]] = @ - 1]
  /\ todo' = (IF refs[p_[Slot]] = 1 THEN Destroy(p_[Slot]) ELSE <<>>) \o Tail(todo)
  /\ UNCHANGED <<p_, built, made, alive>>

Release ==
  /\ Next1("release")
  /\ LET o == p_[Slot] IN
       IF o = nullptr
         THEN todo' = Tail(todo) /\ UNCHANGED refs
         ELSE /\ refs' = [refs EXCEPT ![o] = @ - 1]
              /\ todo' = (IF refs[o] = 1 THEN Destroy(o) ELSE <<>>) \o Tail(todo)
  /\ UNCHANGED <<p_, built, made, alive>>

Copy ==
  /\ Next1("copy")
  /\ p_' = [p_ EXCEPT ![Slot] = p_[From]]
  /\ AddReference(p_[From])
  /\ todo' = Tail(todo)
  /\ UNCHANGED <<built, made, alive>>

\* Mutant: the source keeps its pointer.
Move_KeepsSource ==
  /\ Next1("move")
  /\ p_' = [p_ EXCEPT ![Slot] = p_[From]]
  /\ todo' = Tail(todo)
  /\ UNCHANGED <<built, made, alive, refs>>

Move ==
  /\ Next1("move")
  /\ p_' = [p_ EXCEPT ![Slot] = p_[From], ![From] = nullptr]
  /\ todo' = Tail(todo)
  /\ UNCHANGED <<built, made, alive, refs>>

\* ReleaseReference<true>.
SetToNull ==
  /\ Next1("null")
  /\ p_' = [p_ EXCEPT ![Slot] = nullptr]
  /\ todo' = Tail(todo)
  /\ UNCHANGED <<built, made, alive, refs>>

Gone ==
  /\ Next1("gone")
  /\ built' = built \ {Slot}
  /\ todo' = Tail(todo)
  /\ UNCHANGED <<p_, made, alive, refs>>

Free ==
  /\ Next1("free")
  /\ alive' = alive \ {Slot}
  /\ todo' = Tail(todo)
  /\ UNCHANGED <<p_, built, made, refs>>

-----------------------------------------------------------------------------
Init ==
  /\ p_ = [s \in Slots |-> nullptr]
  /\ built = {} /\ made = {} /\ alive = {}
  /\ refs = [o \in Objects |-> 0]
  /\ todo = <<>>

Step == BodyReturns \/ Release \/ Copy \/ Move \/ SetToNull \/ Gone \/ Free

Client ==
  \/ \E r \in Roots :
       \/ ConstructNull(r) \/ Destruct(r)
       \/ \E o \in Objects : MakeInstance(r, o)
       \/ \E s \in Slots : CopyConstruct(r, s) \/ MoveConstruct(r, s)
  \/ \E s \in Slots : Reset(s)
  \/ \E s, t \in Slots : Swap(s, t) \/ CopyAssign(s, t) \/ MoveAssign(s, t)

Next == Client \/ Step

SafeSpec == Init /\ [][Next]_vars

\* An operation that was called runs on.
Spec == SafeSpec /\ WF_vars(Step)

-----------------------------------------------------------------------------
TypeOK ==
  /\ p_ \in [Slots -> Objects \cup {nullptr}]
  /\ built \subseteq Roots
  /\ made \subseteq Objects /\ alive \subseteq made
  /\ refs \in [Objects -> Nat]
  /\ todo \in Seq([do : {"body", "release", "copy", "move", "null", "gone", "free"},
                   slot : Slots, from : Slots])

\* A spent pointer does not count.
PointersTo(o) == {s \in Live : p_[s] = o /\ ~Spent(s)}

\* At every point, inside an operation and in a destructor called by it too, an
\* object's count is the number of pointers that point to it.
CountsPointers == \A o \in alive : refs[o] = Cardinality(PointersTo(o))

\* No pointer that counts points to a destroyed object, and one that is about to
\* be read, written or released exists.
NoUseAfterDestroy ==
  /\ \A s \in Live : ~Spent(s) => p_[s] \in alive \cup {nullptr}
  /\ ~Idle => {Slot, From} \subseteq Live

\* An object nobody can reach was destroyed by the end of the operation that cut
\* it off, unless a cycle of objects keeps it.
OnlyCyclesLeak ==
  Idle => \A o \in alive \ Held(p_, built) :
            \E c \in alive : /\ p_[c] # nullptr /\ c \in Reach(p_, {p_[c]})
                             /\ o \in Reach(p_, {c})

\* A move does not change the count: when it takes the pointer, the source still
\* has the reference that it gives up.
SourceGivesUpItsReference ==
  Next1("move") /\ p_[From] # nullptr => refs[p_[From]] >= 1

\* Every operation completes, however long the chain of objects it destroys.
OperationsComplete == ~Idle ~> Idle
=============================================================================
