-------------------------- MODULE BatchThreadPool --------------------------
(***************************************************************************)
(* edt::BatchThreadPool (threading/batch_thread_pool.hpp): one owner       *)
(* thread, which constructs the pool, runs batches and destroys it, and    *)
(* NumThreads worker threads in ThreadEntry, all meeting at one            *)
(* std::barrier.  A step is one access to a field the threads share, or    *)
(* one arrival at, or wake-up from, the barrier.                           *)
(***************************************************************************)
EXTENDS Integers, FiniteSets

CONSTANTS
  NumThreads,     \* the constructor's threads_count
  MaxBatches,     \* bound: how many batches the owner runs at most
  SpawnMayFail    \* may std::jthread's constructor throw std::system_error?

\* The greatest int32_t: threads_count + 1 is cast to it for the barrier, so
\* threads_count has to be less.
Int32Max == 2147483647

ASSUME PoolAssumption ==
  /\ NumThreads \in Nat
  /\ NumThreads < Int32Max
  /\ MaxBatches \in Nat
  /\ SpawnMayFail \in BOOLEAN

Workers == 0 .. NumThreads - 1     \* the thread_index of each worker
Owner == -1
Participants == Workers \cup {Owner}

VARIABLES
  owner,        \* where the owner is, in the constructor, RunBatch or destructor
  worker,       \* where each worker is in ThreadEntry
  sync_point_,  \* the threads that have arrived at the barrier's current phase
  threads_,     \* threads_.size()
  stop,         \* the workers whose stop_source has been asked to stop
  joined,       \* the workers that have been joined
  callback_,    \* the callback field: the batch it belongs to, 0 for nullptr
  context_,     \* the context field, likewise
  batch,        \* the number of batches started
  call,         \* the arguments of the call each worker is making
  executed      \* how many calls each worker has completed

vars == <<owner, worker, sync_point_, threads_, stop, joined,
          callback_, context_, batch, call, executed>>

fields == <<callback_, context_, batch>>
history == <<call, executed>>
lifetime == <<threads_, stop, joined>>

OwnerPC == {"constructor", "emplace", "unwinding", "threw", "idle",
            "set_context", "start", "start_wait", "finish", "finish_wait",
            "request_stop", "stop_wait", "join", "destroyed"}
\* Inside RunBatch: the callable behind context_ is alive exactly then.
InRunBatch == owner \in {"set_context", "start", "start_wait",
                         "finish", "finish_wait"}
WorkerPC == {"unborn", "first", "first_wait", "check", "invoke", "run",
             "second", "second_wait", "exited"}

NoCall == [callback |-> 0, context |-> 0, num_threads |-> 0]
Calls == [callback : 0 .. MaxBatches, context : 0 .. MaxBatches,
          num_threads : 0 .. NumThreads]

-----------------------------------------------------------------------------
(* std::barrier, counted for the workers and the owner.  arrive_and_wait   *)
(* is two steps: the arrival, which completes the phase when it is the     *)
(* last one expected, and the wake-up, possible once the phase of that     *)
(* arrival is over - a thread cannot arrive again before it wakes up, so   *)
(* its arrival is of an earlier phase iff it is not in sync_point_.        *)

ExpectedCount == NumThreads + 1

Arrive(t) ==
  LET arrivals == sync_point_ \cup {t}
  IN  sync_point_' = IF Cardinality(arrivals) = ExpectedCount THEN {} ELSE arrivals

Released(t) == t \notin sync_point_

-----------------------------------------------------------------------------
(* The constructor.  threads_.emplace_back starts the thread first and     *)
(* counts it in the vector afterwards.                                     *)

StartThread ==
  /\ owner = "constructor"
  /\ threads_ < NumThreads
  /\ owner' = "emplace"
  /\ worker' = [worker EXCEPT ![threads_] = "first"]
  /\ UNCHANGED <<sync_point_, lifetime, fields, history>>

EmplaceThread ==
  /\ owner = "emplace"
  /\ owner' = "constructor"
  /\ threads_' = threads_ + 1
  /\ UNCHANGED <<worker, sync_point_, stop, joined, fields, history>>

ConstructorReturns ==
  /\ owner = "constructor"
  /\ threads_ = NumThreads
  /\ owner' = "idle"
  /\ UNCHANGED <<worker, sync_point_, lifetime, fields, history>>

\* std::jthread's constructor throws: the destructor will not run, but the
\* members built so far are destroyed on the way out.
SpawnFails ==
  /\ SpawnMayFail
  /\ owner = "constructor"
  /\ threads_ < NumThreads
  /\ owner' = "unwinding"
  /\ UNCHANGED <<worker, sync_point_, lifetime, fields, history>>

\* ~vector destroys the jthreads, in libstdc++ from the first to the last; ~jthread
\* asks its thread to stop and joins it (JoinThread) before the next one's turn.
UnwindThread(w) ==
  /\ owner = "unwinding"
  /\ w < threads_
  /\ joined = stop
  /\ w \notin stop
  /\ \A v \in 0 .. w - 1 : v \in stop
  /\ stop' = stop \cup {w}
  /\ UNCHANGED <<owner, worker, sync_point_, threads_, joined, fields, history>>

ConstructorThrows ==
  /\ owner = "unwinding"
  /\ joined = 0 .. threads_ - 1
  /\ owner' = "threw"
  /\ UNCHANGED <<worker, sync_point_, lifetime, fields, history>>

-----------------------------------------------------------------------------
(* RunBatch.                                                               *)

SetCallback ==
  /\ owner = "idle"
  /\ batch < MaxBatches
  /\ owner' = "set_context"
  /\ batch' = batch + 1
  /\ callback_' = batch + 1
  /\ UNCHANGED <<worker, sync_point_, lifetime, context_, history>>

SetContext ==
  /\ owner = "set_context"
  /\ owner' = "start"
  /\ context_' = batch
  /\ UNCHANGED <<worker, sync_point_, lifetime, callback_, batch, history>>

StartArrive ==
  /\ owner = "start"
  /\ owner' = "start_wait"
  /\ Arrive(Owner)
  /\ UNCHANGED <<worker, lifetime, fields, history>>

\* Mutant: RunBatch returns after the first rendezvous.
StartWake_Returns ==
  /\ owner = "start_wait"
  /\ Released(Owner)
  /\ owner' = "idle"
  /\ UNCHANGED <<worker, sync_point_, lifetime, fields, history>>

StartWake ==
  /\ owner = "start_wait"
  /\ Released(Owner)
  /\ owner' = "finish"
  /\ UNCHANGED <<worker, sync_point_, lifetime, fields, history>>

FinishArrive ==
  /\ owner = "finish"
  /\ owner' = "finish_wait"
  /\ Arrive(Owner)
  /\ UNCHANGED <<worker, lifetime, fields, history>>

\* Mutant: RunBatch arrives at the second rendezvous without waiting for it.
FinishWake_NoWait ==
  /\ owner = "finish_wait"
  /\ owner' = "idle"
  /\ UNCHANGED <<worker, sync_point_, lifetime, fields, history>>

FinishWake ==
  /\ owner = "finish_wait"
  /\ Released(Owner)
  /\ owner' = "idle"
  /\ UNCHANGED <<worker, sync_point_, lifetime, fields, history>>

-----------------------------------------------------------------------------
(* The destructor: request_stop on every thread, one arrival, then join.   *)

Destroy ==
  /\ owner = "idle"
  /\ owner' = "request_stop"
  /\ UNCHANGED <<worker, sync_point_, lifetime, fields, history>>

RequestStop(w) ==
  /\ owner = "request_stop"
  /\ w \notin stop
  /\ \A v \in Workers : v < w => v \in stop
  /\ stop' = stop \cup {w}
  /\ UNCHANGED <<owner, worker, sync_point_, threads_, joined, fields, history>>

\* Mutant: the arrival comes before the stop requests.
StopArrive_Early ==
  /\ owner = "request_stop"
  /\ stop = {}
  /\ owner' = "stop_wait"
  /\ Arrive(Owner)
  /\ UNCHANGED <<worker, lifetime, fields, history>>

StopArrive ==
  /\ owner = "request_stop"
  /\ stop = Workers
  /\ owner' = "stop_wait"
  /\ Arrive(Owner)
  /\ UNCHANGED <<worker, lifetime, fields, history>>

StopWake ==
  /\ owner = "stop_wait"
  /\ Released(Owner)
  /\ owner' = "join"
  /\ UNCHANGED <<worker, sync_point_, lifetime, fields, history>>

\* Mutant: joining does not wait for the thread to exit.
JoinThread_NoWait(w) ==
  /\ owner \in {"join", "unwinding"}
  /\ w \in stop \ joined
  /\ joined' = joined \cup {w}
  /\ UNCHANGED <<owner, worker, sync_point_, threads_, stop, fields, history>>

\* Joins happen in some order; which one cannot be observed.
JoinThread(w) ==
  /\ owner \in {"join", "unwinding"}
  /\ w \in stop \ joined
  /\ worker[w] = "exited"
  /\ joined' = joined \cup {w}
  /\ UNCHANGED <<owner, worker, sync_point_, threads_, stop, fields, history>>

DestructorReturns ==
  /\ owner = "join"
  /\ joined = Workers
  /\ owner' = "destroyed"
  /\ UNCHANGED <<worker, sync_point_, lifetime, fields, history>>

-----------------------------------------------------------------------------
(* ThreadEntry.                                                            *)

MoveWorker(w, from, to) ==
  /\ worker[w] = from
  /\ worker' = [worker EXCEPT ![w] = to]

FirstArrive(w) ==
  /\ MoveWorker(w, "first", "first_wait")
  /\ Arrive(w)
  /\ UNCHANGED <<owner, lifetime, fields, history>>

FirstWake(w) ==
  /\ Released(w)
  /\ MoveWorker(w, "first_wait", "check")
  /\ UNCHANGED <<owner, sync_point_, lifetime, fields, history>>

CheckStop(w) ==
  /\ IF w \in stop
       THEN MoveWorker(w, "check", "exited")
       ELSE MoveWorker(w, "check", "invoke")
  /\ UNCHANGED <<owner, sync_point_, lifetime, fields, history>>

\* callback_(context_, thread_index, threads_.size()): the three reads.
Invoke(w) ==
  /\ MoveWorker(w, "invoke", "run")
  /\ call' = [call EXCEPT ![w] = [callback |-> callback_, context |-> context_,
                                  num_threads |-> threads_]]
  /\ UNCHANGED <<owner, sync_point_, lifetime, fields, executed>>

CallbackReturns(w) ==
  /\ MoveWorker(w, "run", "second")
  /\ call' = [call EXCEPT ![w] = NoCall]
  /\ executed' = [executed EXCEPT ![w] = @ + 1]
  /\ UNCHANGED <<owner, sync_point_, lifetime, fields>>

SecondArrive(w) ==
  /\ MoveWorker(w, "second", "second_wait")
  /\ Arrive(w)
  /\ UNCHANGED <<owner, lifetime, fields, history>>

\* Mutant: the loop tests the stop request before it reaches the barrier again.
SecondWake_ChecksStop(w) ==
  /\ Released(w)
  /\ MoveWorker(w, "second_wait", IF w \in stop THEN "exited" ELSE "first")
  /\ UNCHANGED <<owner, sync_point_, lifetime, fields, history>>

SecondWake(w) ==
  /\ Released(w)
  /\ MoveWorker(w, "second_wait", "first")
  /\ UNCHANGED <<owner, sync_point_, lifetime, fields, history>>

-----------------------------------------------------------------------------
Init ==
  /\ owner = "constructor"
  /\ worker = [w \in Workers |-> "unborn"]
  /\ sync_point_ = {}
  /\ threads_ = 0
  /\ stop = {} /\ joined = {}
  /\ callback_ = 0 /\ context_ = 0
  /\ batch = 0
  /\ call = [w \in Workers |-> NoCall]
  /\ executed = [w \in Workers |-> 0]

\* What the owner does once it has called into the pool; whether to run
\* another batch or to destroy the pool is the client's choice.
OwnerStep ==
  \/ StartThread \/ EmplaceThread \/ ConstructorReturns \/ ConstructorThrows
  \/ SetContext \/ StartArrive \/ StartWake \/ FinishArrive \/ FinishWake
  \/ StopArrive \/ StopWake \/ DestructorReturns
  \/ \E w \in Workers : UnwindThread(w) \/ RequestStop(w) \/ JoinThread(w)

ClientChoice == SetCallback \/ Destroy

WorkerStep(w) ==
  \/ FirstArrive(w) \/ FirstWake(w) \/ CheckStop(w) \/ Invoke(w)
  \/ CallbackReturns(w) \/ SecondArrive(w) \/ SecondWake(w)

\* The pool is gone and so is every thread of it.
Gone == owner \in {"destroyed", "threw"} /\ UNCHANGED vars

Next ==
  \/ OwnerStep \/ SpawnFails \/ ClientChoice \/ Gone
  \/ \E w \in Workers : WorkerStep(w)

SafeSpec == Init /\ [][Next]_vars

\* Every thread is scheduled, and callbacks return.
Fairness == WF_vars(OwnerStep) /\ \A w \in Workers : WF_vars(WorkerStep(w))

Spec == SafeSpec /\ Fairness

-----------------------------------------------------------------------------
TypeOK ==
  /\ owner \in OwnerPC
  /\ worker \in [Workers -> WorkerPC]
  /\ sync_point_ \in SUBSET Participants
  /\ threads_ \in 0 .. NumThreads
  /\ stop \in SUBSET Workers /\ joined \in SUBSET Workers
  /\ callback_ \in 0 .. MaxBatches /\ context_ \in 0 .. MaxBatches
  /\ batch \in 0 .. MaxBatches
  /\ call \in [Workers -> Calls]
  /\ executed \in [Workers -> Nat]

\* A running callback is the current batch's, with the current batch's context
\* and the full thread count, and RunBatch - whose frame holds the callable -
\* has not returned: no worker uses a callback left over from a batch, nor one
\* being installed for the next.
CallsBelongToTheOpenBatch ==
  \A w \in Workers : worker[w] = "run" =>
    /\ call[w] = [callback |-> batch, context |-> batch, num_threads |-> NumThreads]
    /\ InRunBatch

\* RunBatch returns only after every thread ran the batch, each exactly once:
\* between batches the calls completed by each worker are the batches run.
ReturnsAfterEveryCall ==
  owner \in {"idle", "request_stop", "stop_wait", "join", "destroyed"} =>
    \A w \in Workers : executed[w] = batch

\* The fields are plain, not atomic: the owner is never where its next step may
\* write one (threads_ in emplace_back, callback_, context_) while a worker is
\* about to read it for its call.
NoRace ==
  (\E w \in Workers : worker[w] = "invoke") =>
    owner \notin {"constructor", "emplace", "idle", "set_context"}

\* A stop request is only ever observed on the far side of the first barrier
\* of the destructor: no worker leaves its loop unless every stop has been
\* requested and the destructor has arrived, and none is then inside a batch.
StopSeenAfterArrival ==
  \A w \in Workers : worker[w] = "exited" =>
    /\ owner \in {"stop_wait", "join", "destroyed"}
    /\ Released(Owner)
    /\ stop = Workers
    /\ \A v \in Workers : worker[v] \in {"first_wait", "check", "exited"}

\* When the destructor returns, and the barrier and the fields go away, no
\* worker is still inside ThreadEntry.
DestroyedAfterLastExit ==
  owner = "destroyed" => \A w \in Workers : worker[w] = "exited"

-----------------------------------------------------------------------------
(* The inductive invariant.  The barrier cuts time in three: the threads   *)
(* gather for the first rendezvous of an iteration, they run the second    *)
(* half of it, or - once the destructor has arrived - they leave.          *)

SecondHalf ==
  \/ owner = "finish"
  \/ owner = "start_wait" /\ Released(Owner)
  \/ owner = "finish_wait" /\ ~Released(Owner)

Leaving ==
  \/ owner \in {"join", "destroyed"}
  \/ owner = "stop_wait" /\ Released(Owner)

Gathering == ~SecondHalf /\ ~Leaving

LifetimeInv ==
  /\ owner \in {"constructor", "emplace", "unwinding", "threw"} => batch = 0
  /\ owner \notin {"constructor", "emplace", "unwinding", "threw"} => threads_ = NumThreads
  /\ owner = "emplace" => threads_ < NumThreads
  /\ \A w \in Workers :
       w >= threads_ + (IF owner = "emplace" THEN 1 ELSE 0) => worker[w] = "unborn"
  /\ owner \notin {"unwinding", "threw", "request_stop", "stop_wait", "join", "destroyed"}
       => stop = {}
  /\ owner \in {"stop_wait", "join", "destroyed"} => stop = Workers
  /\ \A w \in joined : worker[w] = "exited"
  /\ owner = "destroyed" => joined = Workers

FieldsInv ==
  /\ callback_ = batch
  /\ owner # "set_context" => context_ = batch

GatheringInv == Gathering =>
  /\ Owner \in sync_point_ <=> owner \in {"start_wait", "stop_wait"}
  /\ \A w \in Workers :
       /\ \/ worker[w] \in {"unborn", "first", "second_wait"} /\ Released(w)
          \/ worker[w] = "first_wait" /\ ~Released(w)
       /\ executed[w] = IF owner \in {"set_context", "start", "start_wait"}
                          THEN batch - 1 ELSE batch

SecondHalfInv == SecondHalf =>
  /\ Owner \in sync_point_ <=> owner = "finish_wait"
  /\ \A w \in Workers :
       /\ \/ worker[w] \in {"first_wait", "check", "invoke", "run", "second"} /\ Released(w)
          \/ worker[w] = "second_wait" /\ ~Released(w)
       /\ executed[w] = IF worker[w] \in {"second", "second_wait"}
                          THEN batch ELSE batch - 1
       /\ worker[w] = "run" =>
            call[w] = [callback |-> batch, context |-> batch, num_threads |-> NumThreads]

LeavingInv == Leaving =>
  /\ sync_point_ = {}
  /\ \A w \in Workers : /\ worker[w] \in {"first_wait", "check", "exited"}
                         /\ executed[w] = batch

IndInv ==
  TypeOK /\ LifetimeInv /\ FieldsInv /\ GatheringInv /\ SecondHalfInv /\ LeavingInv

\* RunBatch returns, and so does the destructor: the arrival it makes is what the
\* workers waiting at the top of their loop are missing.
CallsReturn ==
  /\ InRunBatch ~> owner = "idle"
  /\ owner = "request_stop" ~> owner = "destroyed"

\* Asking a worker to stop makes it leave its loop.  This is what the comment
\* on ThreadEntry derives from every iteration reaching the first barrier.
StopIsHonoured == \A w \in Workers : w \in stop ~> worker[w] = "exited"

\* The pool implements the fork-join service.
Service == INSTANCE ForkJoin WITH
  state <- IF InRunBatch THEN "running"
           ELSE IF owner \in {"constructor", "emplace", "idle"} THEN "idle"
           ELSE "closed",
  ran <- {w \in Workers : executed[w] = batch}

ImplementsForkJoin == Service!Spec
=============================================================================
