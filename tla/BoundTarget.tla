------------------------------ MODULE BoundTarget ------------------------------
(***************************************************************************)
(* What edt::Delegate promises: it holds one target or none, that of the   *)
(* latest request about it; invoking it runs that target; and a call once  *)
(* begun keeps its target.                                                 *)
(***************************************************************************)
EXTENDS Naturals, Sequences

CONSTANTS Delegates, Targets, Unbound, MaxDepth

VARIABLES
  target,      \* what each delegate is bound to
  running,     \* the targets of the calls in progress, innermost last
  request      \* the latest call, with its arguments

Init == target = [d \in Delegates |-> Unbound] /\ running = <<>> /\ request = <<"construct">>

Bind(d, t) ==
  /\ request' = <<"bind", d, t>>
  /\ target' = [target EXCEPT ![d] = t]
  /\ UNCHANGED running

Copy(d, from) ==
  /\ request' = <<"copy", d, from>>
  /\ target' = [target EXCEPT ![d] = target[from]]
  /\ UNCHANGED running

Reset(d) ==
  /\ request' = <<"reset", d>>
  /\ target' = [target EXCEPT ![d] = Unbound]
  /\ UNCHANGED running

Invoke(d) ==
  /\ target[d] # Unbound /\ Len(running) < MaxDepth
  /\ request' = <<"invoke", d>>
  /\ running' = Append(running, target[d])
  /\ UNCHANGED target

Return ==
  /\ running # <<>>
  /\ request' = <<"return">>
  /\ running' = SubSeq(running, 1, Len(running) - 1)
  /\ UNCHANGED target

Next ==
  \/ \E d \in Delegates, t \in Targets : Bind(d, t)
  \/ \E d, from \in Delegates : Copy(d, from)
  \/ \E d \in Delegates : Reset(d) \/ Invoke(d)
  \/ Return

Spec == Init /\ [][Next]_<<target, running, request>>
=============================================================================
