----------------------------- MODULE Observable -----------------------------
(***************************************************************************)
(* edt::Observable (observable.hpp): listeners in a sorted std::vector.    *)
(* ForEachListener is a range-for, so it walks the buffer the vector had   *)
(* when it started, up to the end it had then, while the callbacks may     *)
(* call back into the vector.  Single-threaded: the interleaving is the    *)
(* re-entrance.                                                            *)
(***************************************************************************)
EXTENDS Naturals, Sequences, FiniteSets

CONSTANTS
  Listeners,     \* addresses of the listeners, compared by lower_bound
  Reentrant      \* do callbacks Subscribe and Unsubscribe?

ASSUME ObservableAssumption ==
  /\ Listeners \subseteq Nat \ {0}
  /\ IsFiniteSet(Listeners)
  /\ Reentrant \in BOOLEAN

VARIABLES
  buffer,      \* the vector's allocation: one listener, or Unused, per slot
  size,        \* the vector's size: slots past it hold what was left there
  event,       \* ForEachListener: "none", "walking", "calling", "done", "invalid"
  it, end,     \* its iterators, as offsets into the buffer ...
  walked,      \* ... that had this capacity when it started
  heard,       \* the listeners f was called with, in order
  audience,    \* the listeners subscribed when it started and ever since
  result       \* the latest Subscribe or Unsubscribe: "ok", or "error" if it threw

vars == <<buffer, size, event, it, end, walked, heard, audience, result>>
walk == <<event, it, end, walked, heard, audience>>

Unused == 0

Subscribed == {buffer[i] : i \in 1 .. size}

-----------------------------------------------------------------------------
(* std::vector, and lower_bound on a sorted range.                         *)

\* Insertion into a full vector allocates twice the capacity.
Grown(capacity) == IF capacity = 0 THEN 1 ELSE 2 * capacity

LowerBound(l) == Cardinality({i \in 1 .. size : buffer[i] < l}) + 1

\* Elements from position p on move one slot up, into a new buffer if it is full.
InsertAt(p, l) ==
  LET capacity == IF size = Len(buffer) THEN Grown(size) ELSE Len(buffer)
      old == [i \in 1 .. capacity |-> IF i <= Len(buffer) THEN buffer[i] ELSE Unused]
  IN  /\ buffer' = [i \in 1 .. capacity |->
                      IF i = p THEN l
                      ELSE IF p < i /\ i <= size + 1 THEN old[i - 1] ELSE old[i]]
      /\ size' = size + 1

\* Elements after position p move one slot down; the last slot keeps its value.
EraseAt(p) ==
  /\ buffer' = [i \in 1 .. Len(buffer) |->
                  IF p <= i /\ i < size THEN buffer[i + 1] ELSE buffer[i]]
  /\ size' = size - 1

-----------------------------------------------------------------------------
\* A callback has control, or no notification is running.
ClientRuns == event \in {"none", "done"} \/ (Reentrant /\ event = "calling")

Found(l) == LET p == LowerBound(l) IN p <= size /\ buffer[p] = l

\* Mutant: the duplicate check looks only at the end of the vector.
Subscribe_AllowsDuplicates(l) ==
  /\ ClientRuns
  /\ IF LowerBound(l) > size \/ buffer[LowerBound(l)] # l \/ size = 1
       THEN InsertAt(LowerBound(l), l) /\ result' = "ok"
       ELSE result' = "error" /\ UNCHANGED <<buffer, size>>
  /\ UNCHANGED walk

Subscribe(l) ==
  /\ ClientRuns
  /\ IF Found(l)
       THEN result' = "error" /\ UNCHANGED <<buffer, size>>
       ELSE InsertAt(LowerBound(l), l) /\ result' = "ok"
  /\ UNCHANGED walk

\* insert throws when it cannot allocate: nothing has changed by then.
SubscribeOutOfMemory(l) ==
  /\ ClientRuns
  /\ ~Found(l)
  /\ size = Len(buffer)
  /\ result' = "error"
  /\ UNCHANGED <<buffer, size, walk>>

\* Mutant: the listener is erased without a check that it was found.
Unsubscribe_Unchecked(l) ==
  /\ ClientRuns
  /\ EraseAt(LowerBound(l))
  /\ result' = "ok"
  /\ UNCHANGED walk

Unsubscribe(l) ==
  /\ ClientRuns
  /\ IF Found(l)
       THEN EraseAt(LowerBound(l)) /\ result' = "ok"
       ELSE result' = "error" /\ UNCHANGED <<buffer, size>>
  /\ audience' = IF event = "calling" THEN audience \ {l} ELSE audience
  /\ UNCHANGED <<event, it, end, walked, heard>>

-----------------------------------------------------------------------------
(* ForEachListener.                                                        *)

StartEvent ==
  /\ event \in {"none", "done"}
  /\ event' = "walking"
  /\ it' = 0 /\ end' = size /\ walked' = Len(buffer)
  /\ heard' = <<>> /\ audience' = Subscribed
  /\ UNCHANGED <<buffer, size, result>>

\* f(listener).  A reallocation leaves the iterators pointing into freed memory;
\* without one, a slot past the vector's new end still holds its old value.
CallListener ==
  /\ event = "walking"
  /\ it # end
  /\ IF walked # Len(buffer)
       THEN event' = "invalid" /\ UNCHANGED heard   \* undefined from here on
       ELSE event' = "calling" /\ heard' = Append(heard, buffer[it + 1])
  /\ UNCHANGED <<buffer, size, it, end, walked, audience, result>>

\* Mutant: the loop skips a listener.
CallbackReturns_Skips ==
  /\ event = "calling"
  /\ event' = "walking"
  /\ it' = IF it + 2 <= end THEN it + 2 ELSE end
  /\ UNCHANGED <<buffer, size, end, walked, heard, audience, result>>

CallbackReturns ==
  /\ event = "calling"
  /\ event' = "walking"
  /\ it' = it + 1
  /\ UNCHANGED <<buffer, size, end, walked, heard, audience, result>>

\* The exception leaves the loop; later listeners do not hear of the event.
CallbackThrows ==
  /\ event = "calling"
  /\ event' = "none"
  /\ UNCHANGED <<buffer, size, it, end, walked, heard, audience, result>>

EndEvent ==
  /\ event = "walking"
  /\ it = end
  /\ event' = "done"
  /\ UNCHANGED <<buffer, size, it, end, walked, heard, audience, result>>

-----------------------------------------------------------------------------
Init ==
  /\ buffer = <<>> /\ size = 0
  /\ event = "none"
  /\ it = 0 /\ end = 0 /\ walked = 0
  /\ heard = <<>> /\ audience = {}
  /\ result = "ok"

Next ==
  \/ StartEvent \/ CallListener \/ CallbackReturns \/ CallbackThrows \/ EndEvent
  \/ \E l \in Listeners : Subscribe(l) \/ SubscribeOutOfMemory(l) \/ Unsubscribe(l)

Spec == Init /\ [][Next]_vars

-----------------------------------------------------------------------------
TypeOK ==
  /\ buffer \in Seq(Listeners \cup {Unused})
  /\ size \in 0 .. Len(buffer)
  /\ event \in {"none", "walking", "calling", "done", "invalid"}
  /\ it \in Nat /\ end \in Nat /\ walked \in Nat
  /\ heard \in Seq(Listeners)
  /\ audience \in SUBSET Listeners
  /\ result \in {"ok", "error"}

\* The vector stays strictly sorted, so it holds no listener twice and
\* lower_bound's precondition is met by every later call, callbacks' included.
SortedWithoutDuplicates ==
  \A i, j \in 1 .. size : i < j => buffer[i] < buffer[j]

\* The inductive invariant: besides, a walk whose buffer is still the vector's
\* stays inside it, over slots that hold or held a listener.
Elements == \A i \in 1 .. size : buffer[i] \in Listeners

WalkInv ==
  /\ walked <= Len(buffer)
  /\ event \in {"walking", "calling"} =>
       /\ it <= end
       /\ event = "calling" => it < end
       /\ walked = Len(buffer) =>
            end <= Len(buffer) /\ \A i \in 1 .. end : buffer[i] \in Listeners

IndInv == TypeOK /\ Elements /\ SortedWithoutDuplicates /\ WalkInv

\* "Every subscriber is notified exactly once per event": when an event has gone
\* through, f was called exactly once with each listener that was subscribed from
\* beginning to end.
NotifiedExactlyOnce ==
  event = "done" =>
    \A l \in audience : Cardinality({i \in DOMAIN heard : heard[i] = l}) = 1

\* The vector implements a set of listeners, failing calls and events included.
Set == INSTANCE SubscriberSet WITH subscribers <- Subscribed, told <- heard

ImplementsSubscriberSet == Set!Spec
=============================================================================
