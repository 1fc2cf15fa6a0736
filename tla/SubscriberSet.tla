--------------------------- MODULE SubscriberSet ---------------------------
(***************************************************************************)
(* What edt::Observable promises: a set of listeners.  Subscribing a       *)
(* member and unsubscribing a stranger are errors that change nothing; a   *)
(* completed event has told every member of the set it started with, once, *)
(* in the order of their addresses.                                        *)
(***************************************************************************)
EXTENDS Naturals, Sequences

CONSTANT Listeners     \* addresses: naturals

VARIABLES
  subscribers,   \* the set
  told,          \* those told of the current event so far, in order
  audience,      \* the members when the event started
  result         \* of the latest call: "ok" or "error"

vars == <<subscribers, told, audience, result>>

Init == subscribers = {} /\ told = <<>> /\ audience = {} /\ result = "ok"

Subscribe(l) ==
  /\ \/ l \notin subscribers /\ subscribers' = subscribers \cup {l} /\ result' = "ok"
     \/ UNCHANGED subscribers /\ result' = "error"
  /\ UNCHANGED <<told, audience>>

Unsubscribe(l) ==
  /\ result' = IF l \in subscribers THEN "ok" ELSE "error"
  /\ subscribers' = subscribers \ {l}
  /\ UNCHANGED <<told, audience>>

StartEvent ==
  /\ told' = <<>>
  /\ audience' = subscribers
  /\ UNCHANGED <<subscribers, result>>

\* The next in the order of addresses: everyone below has been told.
Tell(l) ==
  /\ l \in audience
  /\ \A i \in DOMAIN told : told[i] < l
  /\ \A m \in audience : m < l => \E i \in DOMAIN told : told[i] = m
  /\ told' = Append(told, l)
  /\ UNCHANGED <<subscribers, audience, result>>

Next == StartEvent \/ \E l \in Listeners : Subscribe(l) \/ Unsubscribe(l) \/ Tell(l)

Spec == Init /\ [][Next]_vars

=============================================================================
