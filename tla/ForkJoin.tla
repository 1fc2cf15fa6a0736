------------------------------ MODULE ForkJoin ------------------------------
(***************************************************************************)
(* What edt::BatchThreadPool promises its owner: a fork-join service.  The *)
(* owner opens a batch, every worker runs the batch's callback once, and   *)
(* the batch closes only when all of them have; the service is shut down   *)
(* between batches, never inside one.  Nothing is said of barriers, stop   *)
(* requests or shared fields.                                              *)
(***************************************************************************)
EXTENDS Naturals

CONSTANT Workers

VARIABLES
  state,   \* "idle", "running" (a batch is open) or "closed"
  batch,   \* number of batches opened so far
  ran      \* the workers that have run the latest batch

vars == <<state, batch, ran>>

Init == state = "idle" /\ batch = 0 /\ ran = Workers

Open ==
  /\ state = "idle"
  /\ state' = "running"
  /\ batch' = batch + 1
  /\ ran' = {}

Run(w) ==
  /\ state = "running"
  /\ w \notin ran
  /\ ran' = ran \cup {w}
  /\ UNCHANGED <<state, batch>>

Return ==
  /\ state = "running"
  /\ ran = Workers
  /\ state' = "idle"
  /\ UNCHANGED <<batch, ran>>

Shutdown ==
  /\ state = "idle"
  /\ state' = "closed"
  /\ UNCHANGED <<batch, ran>>

Next == Open \/ Return \/ Shutdown \/ \E w \in Workers : Run(w)

SafeSpec == Init /\ [][Next]_vars

Spec == SafeSpec /\ WF_vars(Return) /\ \A w \in Workers : WF_vars(Run(w))

=============================================================================
