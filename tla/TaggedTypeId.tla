---------------------------- MODULE TaggedTypeId ----------------------------
(***************************************************************************)
(* edt::GetTypeId (template/tagged_type_id.hpp): a number for each type,   *)
(* drawn from one atomic counter per tag by the initialiser of a           *)
(* function-local static, which several threads may reach at once.         *)
(***************************************************************************)
EXTENDS Naturals, FiniteSets

CONSTANTS
  Threads,
  Types,        \* the types GetTypeId is instantiated for, under one tag
  ReprSize      \* the number of values of Repr

\* All ids but the last are valid: there are enough of them for the types.
ASSUME EnoughIds ==
  /\ IsFiniteSet(Types)
  /\ ReprSize \in Nat
  /\ Cardinality(Types) < ReprSize

Ids == 0 .. ReprSize - 1
invalid_id == ReprSize - 1
IsValid(id) == id # invalid_id

VARIABLES
  next_type_id,   \* the counter
  guard,          \* the guard of each type's static
  type_id,        \* the static itself
  pc,             \* where each thread is in GetTypeId
  type,           \* which type it asks for
  fetched,        \* the id it has drawn
  answers         \* every id returned so far, with its type

vars == <<next_type_id, guard, type_id, pc, type, fetched, answers>>

Move(t, from, to) == pc[t] = from /\ pc' = [pc EXCEPT ![t] = to]

Call(t, T) ==
  /\ Move(t, "idle", "enter")
  /\ type' = [type EXCEPT ![t] = T]
  /\ UNCHANGED <<next_type_id, guard, type_id, fetched, answers>>

\* The first thread initialises the static; the others wait for it to be done.
EnterInitialiser(t) ==
  /\ guard[type[t]] = "untouched"
  /\ Move(t, "enter", "draw")
  /\ guard' = [guard EXCEPT ![type[t]] = "running"]
  /\ UNCHANGED <<next_type_id, type_id, type, fetched, answers>>

SkipInitialiser(t) ==
  /\ guard[type[t]] = "done"
  /\ Move(t, "enter", "return")
  /\ UNCHANGED <<next_type_id, guard, type_id, type, fetched, answers>>

\* Mutant: the id is the counter's value after the increment.
FetchAdd_PreIncrement(t) ==
  /\ Move(t, "draw", "store")
  /\ fetched' = [fetched EXCEPT ![t] = (next_type_id + 1) % ReprSize]
  /\ next_type_id' = (next_type_id + 1) % ReprSize
  /\ UNCHANGED <<guard, type_id, type, answers>>

FetchAdd(t) ==
  /\ Move(t, "draw", "store")
  /\ fetched' = [fetched EXCEPT ![t] = next_type_id]
  /\ next_type_id' = (next_type_id + 1) % ReprSize
  /\ UNCHANGED <<guard, type_id, type, answers>>

\* Mutant: the guard is not released.
Store_KeepsGuard(t) ==
  /\ Move(t, "store", "return")
  /\ type_id' = [type_id EXCEPT ![type[t]] = fetched[t]]
  /\ UNCHANGED <<next_type_id, guard, type, fetched, answers>>

Store(t) ==
  /\ Move(t, "store", "return")
  /\ type_id' = [type_id EXCEPT ![type[t]] = fetched[t]]
  /\ guard' = [guard EXCEPT ![type[t]] = "done"]
  /\ UNCHANGED <<next_type_id, type, fetched, answers>>

Return(t) ==
  /\ Move(t, "return", "idle")
  /\ answers' = answers \cup {<<type[t], type_id[type[t]]>>}
  /\ UNCHANGED <<next_type_id, guard, type_id, type, fetched>>

-----------------------------------------------------------------------------
Init ==
  /\ next_type_id = 0
  /\ guard = [T \in Types |-> "untouched"]
  /\ type_id = [T \in Types |-> invalid_id]
  /\ pc = [t \in Threads |-> "idle"]
  /\ type \in [Threads -> Types]
  /\ fetched = [t \in Threads |-> invalid_id]
  /\ answers = {}

Step(t) ==
  \/ EnterInitialiser(t) \/ SkipInitialiser(t) \/ FetchAdd(t) \/ Store(t) \/ Return(t)

Next == \E t \in Threads : Step(t) \/ \E T \in Types : Call(t, T)

SafeSpec == Init /\ [][Next]_vars

\* A thread that has called GetTypeId runs.
Spec == SafeSpec /\ \A t \in Threads : WF_vars(Step(t))

-----------------------------------------------------------------------------
TypeOK ==
  /\ next_type_id \in Ids
  /\ guard \in [Types -> {"untouched", "running", "done"}]
  /\ type_id \in [Types -> Ids]
  /\ pc \in [Threads -> {"idle", "enter", "draw", "store", "return"}]
  /\ type \in [Threads -> Types]
  /\ fetched \in [Threads -> Ids]
  /\ answers \in SUBSET (Types \X Ids)

\* Each type has an id of its own, which every caller in every thread is given,
\* and which is valid.
OwnStableId ==
  \A a, b \in answers :
    /\ a[1] = b[1] <=> a[2] = b[2]
    /\ IsValid(a[2])

\* The inductive invariant: one thread at most initialises the id of a type, and
\* the ids drawn are numbers below the counter, one for each type that has drawn.
Drawing(t) == pc[t] \in {"draw", "store"}
Drawn == {T \in Types : \/ guard[T] = "done"
                        \/ \E t \in Threads : pc[t] = "store" /\ type[t] = T}

OneInitialiser ==
  /\ \A T \in Types : guard[T] = "running" <=> \E t \in Threads : Drawing(t) /\ type[t] = T
  /\ \A t, u \in Threads : Drawing(t) /\ Drawing(u) /\ type[t] = type[u] => t = u
  /\ \A t \in Threads : pc[t] = "return" => guard[type[t]] = "done"

DistinctIds ==
  /\ next_type_id = Cardinality(Drawn)
  /\ \A T \in Types : guard[T] = "done" =>
       /\ type_id[T] < next_type_id
       /\ \A U \in Types : guard[U] = "done" /\ type_id[T] = type_id[U] => T = U
  /\ \A t \in Threads : pc[t] = "store" =>
       /\ fetched[t] < next_type_id
       /\ \A T \in Types : guard[T] = "done" => type_id[T] # fetched[t]
       /\ \A u \in Threads : pc[u] = "store" /\ fetched[u] = fetched[t] => u = t

AnswersAreStored ==
  \A a \in answers : guard[a[1]] = "done" /\ a[2] = type_id[a[1]]

IndInv == TypeOK /\ OneInitialiser /\ DistinctIds /\ AnswersAreStored

\* Every call returns.
CallsReturn == \A t \in Threads : pc[t] = "enter" ~> pc[t] = "idle"
=============================================================================
