----------------------- MODULE BatchThreadPoolProofs -----------------------
(***************************************************************************)
(* Proofs about BatchThreadPool, for every number of threads and batches   *)
(* and whether or not spawning a thread may fail.                          *)
(***************************************************************************)
EXTENDS BatchThreadPool, FiniteSetTheorems, TLAPS

\* The barrier is full exactly when every participant has arrived: counting
\* arrivals, as std::barrier does, is knowing who arrived.
LEMMA FullIsEveryone ==
  ASSUME NEW S \in SUBSET Participants
  PROVE  Cardinality(S) = ExpectedCount <=> S = Participants
<1>1. Participants = (-1) .. (NumThreads - 1)
  BY PoolAssumption DEF Participants, Workers, Owner
<1>2. /\ IsFiniteSet(Participants)
      /\ Cardinality(Participants) = NumThreads + 1
  BY <1>1, FS_Interval, PoolAssumption
<1> QED
  BY <1>2, FS_Subset DEF ExpectedCount

\* What an arrival does to the barrier.
LEMMA ArriveEffect ==
  ASSUME sync_point_ \in SUBSET Participants,
         NEW t \in Participants,
         Arrive(t)
  PROVE  IF sync_point_ \cup {t} = Participants
           THEN sync_point_' = {}
           ELSE sync_point_' = sync_point_ \cup {t}
BY FullIsEveryone DEF Arrive

\* When t completes the phase, everyone else is waiting at the barrier.
LEMMA LastArrival ==
  ASSUME NEW t \in Participants, sync_point_ \cup {t} = Participants
  PROVE  \A v \in Participants : v # t => ~Released(v)
BY DEF Released

-----------------------------------------------------------------------------
\* Every variable keeps its type.
LEMMA TypeInit == Init => TypeOK
BY PoolAssumption DEF Init, TypeOK, OwnerPC, WorkerPC, Calls, NoCall, Workers

LEMMA TypeStep == TypeOK /\ LifetimeInv /\ [Next]_vars => TypeOK'
<1> SUFFICES ASSUME TypeOK, LifetimeInv, [Next]_vars PROVE TypeOK'
  OBVIOUS
<1> USE PoolAssumption DEF TypeOK, OwnerPC, WorkerPC, fields, history, lifetime, MoveWorker
<1>1. CASE StartThread
  BY <1>1 DEF StartThread, Workers
<1>2. CASE EmplaceThread
  BY <1>2 DEF EmplaceThread, LifetimeInv
<1>3. CASE ConstructorReturns
  BY <1>3 DEF ConstructorReturns
<1>4. CASE SpawnFails
  BY <1>4 DEF SpawnFails
<1>5. CASE ConstructorThrows
  BY <1>5 DEF ConstructorThrows
<1>6. CASE SetCallback
  BY <1>6 DEF SetCallback
<1>7. CASE SetContext
  BY <1>7 DEF SetContext
<1>8. CASE StartArrive
  BY <1>8, ArriveEffect DEF StartArrive, Participants
<1>9. CASE StartWake
  BY <1>9 DEF StartWake
<1>10. CASE FinishArrive
  BY <1>10, ArriveEffect DEF FinishArrive, Participants
<1>11. CASE FinishWake
  BY <1>11 DEF FinishWake
<1>12. CASE Destroy
  BY <1>12 DEF Destroy
<1>13. CASE StopArrive
  BY <1>13, ArriveEffect DEF StopArrive, Participants
<1>14. CASE StopWake
  BY <1>14 DEF StopWake
<1>15. CASE DestructorReturns
  BY <1>15 DEF DestructorReturns
<1>16. ASSUME NEW w \in Workers, UnwindThread(w) PROVE TypeOK'
  BY <1>16 DEF UnwindThread
<1>17. ASSUME NEW w \in Workers, RequestStop(w) PROVE TypeOK'
  BY <1>17 DEF RequestStop
<1>18. ASSUME NEW w \in Workers, JoinThread(w) PROVE TypeOK'
  BY <1>18 DEF JoinThread
<1>19. ASSUME NEW w \in Workers, FirstArrive(w) PROVE TypeOK'
  BY <1>19, ArriveEffect DEF FirstArrive, Participants
<1>20. ASSUME NEW w \in Workers, FirstWake(w) PROVE TypeOK'
  BY <1>20 DEF FirstWake
<1>21. ASSUME NEW w \in Workers, CheckStop(w) PROVE TypeOK'
  BY <1>21 DEF CheckStop
<1>22. ASSUME NEW w \in Workers, Invoke(w) PROVE TypeOK'
  BY <1>22 DEF Invoke, Calls
<1>23. ASSUME NEW w \in Workers, CallbackReturns(w) PROVE TypeOK'
  BY <1>23 DEF CallbackReturns, Calls, NoCall
<1>24. ASSUME NEW w \in Workers, SecondArrive(w) PROVE TypeOK'
  BY <1>24, ArriveEffect DEF SecondArrive, Participants
<1>25. ASSUME NEW w \in Workers, SecondWake(w) PROVE TypeOK'
  BY <1>25 DEF SecondWake
<1>26. CASE UNCHANGED vars
  BY <1>26 DEF vars
<1> QED
  BY <1>1, <1>2, <1>3, <1>4, <1>5, <1>6, <1>7, <1>8, <1>9, <1>10, <1>11, <1>12, <1>13, <1>14, <1>15, <1>16, <1>17, <1>18, <1>19, <1>20, <1>21, <1>22, <1>23, <1>24, <1>25, <1>26 DEF Next, OwnerStep, ClientChoice, WorkerStep, Gone
-----------------------------------------------------------------------------
\* Threads are counted, stopped and joined in the order the owner goes through.
LEMMA LifetimeStep == TypeOK /\ LifetimeInv /\ [Next]_vars => LifetimeInv'
<1> SUFFICES ASSUME TypeOK, LifetimeInv, [Next]_vars PROVE LifetimeInv'
  OBVIOUS
<1> USE PoolAssumption DEF TypeOK, LifetimeInv, fields, history, lifetime, MoveWorker, Workers
<1>1. CASE StartThread
  BY <1>1 DEF StartThread
<1>2. CASE EmplaceThread
  BY <1>2 DEF EmplaceThread
<1>3. CASE ConstructorReturns
  BY <1>3 DEF ConstructorReturns
<1>4. CASE SpawnFails
  BY <1>4 DEF SpawnFails
<1>5. CASE ConstructorThrows
  BY <1>5 DEF ConstructorThrows
<1>6. CASE SetCallback
  BY <1>6 DEF SetCallback
<1>7. CASE SetContext
  BY <1>7 DEF SetContext
<1>8. CASE StartArrive
  BY <1>8 DEF StartArrive
<1>9. CASE StartWake
  BY <1>9 DEF StartWake
<1>10. CASE FinishArrive
  BY <1>10 DEF FinishArrive
<1>11. CASE FinishWake
  BY <1>11 DEF FinishWake
<1>12. CASE Destroy
  BY <1>12 DEF Destroy
<1>13. CASE StopArrive
  BY <1>13 DEF StopArrive
<1>14. CASE StopWake
  BY <1>14 DEF StopWake
<1>15. CASE DestructorReturns
  BY <1>15 DEF DestructorReturns
<1>16. ASSUME NEW w \in Workers, UnwindThread(w) PROVE LifetimeInv'
  BY <1>16 DEF UnwindThread
<1>17. ASSUME NEW w \in Workers, RequestStop(w) PROVE LifetimeInv'
  BY <1>17 DEF RequestStop
<1>18. ASSUME NEW w \in Workers, JoinThread(w) PROVE LifetimeInv'
  BY <1>18 DEF JoinThread
<1>19. ASSUME NEW w \in Workers, FirstArrive(w) PROVE LifetimeInv'
  BY <1>19 DEF FirstArrive
<1>20. ASSUME NEW w \in Workers, FirstWake(w) PROVE LifetimeInv'
  BY <1>20 DEF FirstWake
<1>21. ASSUME NEW w \in Workers, CheckStop(w) PROVE LifetimeInv'
  BY <1>21 DEF CheckStop
<1>22. ASSUME NEW w \in Workers, Invoke(w) PROVE LifetimeInv'
  BY <1>22 DEF Invoke
<1>23. ASSUME NEW w \in Workers, CallbackReturns(w) PROVE LifetimeInv'
  BY <1>23 DEF CallbackReturns
<1>24. ASSUME NEW w \in Workers, SecondArrive(w) PROVE LifetimeInv'
  BY <1>24 DEF SecondArrive
<1>25. ASSUME NEW w \in Workers, SecondWake(w) PROVE LifetimeInv'
  BY <1>25 DEF SecondWake
<1>26. CASE UNCHANGED vars
  BY <1>26 DEF vars
<1> QED
  BY <1>1, <1>2, <1>3, <1>4, <1>5, <1>6, <1>7, <1>8, <1>9, <1>10, <1>11, <1>12, <1>13, <1>14, <1>15, <1>16, <1>17, <1>18, <1>19, <1>20, <1>21, <1>22, <1>23, <1>24, <1>25, <1>26 DEF Next, OwnerStep, ClientChoice, WorkerStep, Gone
-----------------------------------------------------------------------------
\* callback_ is always the latest batch's, and context_ too unless RunBatch has
\* only set the former.
LEMMA FieldsStep == TypeOK /\ LifetimeInv /\ FieldsInv /\ [Next]_vars => FieldsInv'
<1> SUFFICES ASSUME TypeOK, LifetimeInv, FieldsInv, [Next]_vars PROVE FieldsInv'
  OBVIOUS
<1> USE DEF FieldsInv, fields, history, lifetime
<1>1. CASE StartThread
  BY <1>1 DEF StartThread
<1>2. CASE EmplaceThread
  BY <1>2 DEF EmplaceThread
<1>3. CASE ConstructorReturns
  BY <1>3 DEF ConstructorReturns
<1>4. CASE SpawnFails
  BY <1>4 DEF SpawnFails
<1>5. CASE ConstructorThrows
  BY <1>5 DEF ConstructorThrows
<1>6. CASE SetCallback
  BY <1>6 DEF SetCallback
<1>7. CASE SetContext
  BY <1>7 DEF SetContext
<1>8. CASE StartArrive
  BY <1>8 DEF StartArrive
<1>9. CASE StartWake
  BY <1>9 DEF StartWake
<1>10. CASE FinishArrive
  BY <1>10 DEF FinishArrive
<1>11. CASE FinishWake
  BY <1>11 DEF FinishWake
<1>12. CASE Destroy
  BY <1>12 DEF Destroy
<1>13. CASE StopArrive
  BY <1>13 DEF StopArrive
<1>14. CASE StopWake
  BY <1>14 DEF StopWake
<1>15. CASE DestructorReturns
  BY <1>15 DEF DestructorReturns
<1>16. ASSUME NEW w \in Workers, UnwindThread(w) PROVE FieldsInv'
  BY <1>16 DEF UnwindThread
<1>17. ASSUME NEW w \in Workers, RequestStop(w) PROVE FieldsInv'
  BY <1>17 DEF RequestStop
<1>18. ASSUME NEW w \in Workers, JoinThread(w) PROVE FieldsInv'
  BY <1>18 DEF JoinThread
<1>19. ASSUME NEW w \in Workers, FirstArrive(w) PROVE FieldsInv'
  BY <1>19 DEF FirstArrive
<1>20. ASSUME NEW w \in Workers, FirstWake(w) PROVE FieldsInv'
  BY <1>20 DEF FirstWake
<1>21. ASSUME NEW w \in Workers, CheckStop(w) PROVE FieldsInv'
  BY <1>21 DEF CheckStop
<1>22. ASSUME NEW w \in Workers, Invoke(w) PROVE FieldsInv'
  BY <1>22 DEF Invoke
<1>23. ASSUME NEW w \in Workers, CallbackReturns(w) PROVE FieldsInv'
  BY <1>23 DEF CallbackReturns
<1>24. ASSUME NEW w \in Workers, SecondArrive(w) PROVE FieldsInv'
  BY <1>24 DEF SecondArrive
<1>25. ASSUME NEW w \in Workers, SecondWake(w) PROVE FieldsInv'
  BY <1>25 DEF SecondWake
<1>26. CASE UNCHANGED vars
  BY <1>26 DEF vars
<1> QED
  BY <1>1, <1>2, <1>3, <1>4, <1>5, <1>6, <1>7, <1>8, <1>9, <1>10, <1>11, <1>12, <1>13, <1>14, <1>15, <1>16, <1>17, <1>18, <1>19, <1>20, <1>21, <1>22, <1>23, <1>24, <1>25, <1>26 DEF Next, OwnerStep, ClientChoice, WorkerStep, Gone
-----------------------------------------------------------------------------
\* Each thread is where the part of the iteration it is in allows.
Rendezvous == GatheringInv /\ SecondHalfInv /\ LeavingInv

LEMMA RendezvousStep == IndInv /\ [Next]_vars => Rendezvous'
<1> SUFFICES ASSUME IndInv, [Next]_vars PROVE Rendezvous'
  OBVIOUS
<1> USE PoolAssumption DEF IndInv, TypeOK, LifetimeInv, FieldsInv, GatheringInv, SecondHalfInv, LeavingInv, Gathering, SecondHalf, Leaving, Released, Rendezvous, fields, history, lifetime, MoveWorker, Owner, Workers
<1>1. CASE StartThread
  BY <1>1 DEF StartThread
<1>2. CASE EmplaceThread
  BY <1>2 DEF EmplaceThread
<1>3. CASE ConstructorReturns
  BY <1>3 DEF ConstructorReturns
<1>4. CASE SpawnFails
  BY <1>4 DEF SpawnFails
<1>5. CASE ConstructorThrows
  BY <1>5 DEF ConstructorThrows
<1>6. CASE SetCallback
  BY <1>6 DEF SetCallback
<1>7. CASE SetContext
  BY <1>7 DEF SetContext
<1>8. CASE StartArrive
  <2>1. /\ owner' = "start_wait"
        /\ IF sync_point_ \cup {Owner} = Participants
             THEN sync_point_' = {}
             ELSE sync_point_' = sync_point_ \cup {Owner}
    BY <1>8, ArriveEffect DEF StartArrive, Participants
  <2>2. CASE sync_point_ \cup {Owner} = Participants
    <3>1. \A w \in Workers : ~Released(w)
      BY <2>2 DEF Participants
    <3> QED
      BY <1>8, <2>1, <2>2, <3>1 DEF StartArrive
  <2>3. CASE sync_point_ \cup {Owner} # Participants
    BY <1>8, <2>1, <2>3 DEF StartArrive
  <2> QED
    BY <2>2, <2>3
<1>9. CASE StartWake
  BY <1>9 DEF StartWake
<1>10. CASE FinishArrive
  <2>1. /\ owner' = "finish_wait"
        /\ IF sync_point_ \cup {Owner} = Participants
             THEN sync_point_' = {}
             ELSE sync_point_' = sync_point_ \cup {Owner}
    BY <1>10, ArriveEffect DEF FinishArrive, Participants
  <2>2. CASE sync_point_ \cup {Owner} = Participants
    <3>1. \A w \in Workers : ~Released(w)
      BY <2>2 DEF Participants
    <3> QED
      BY <1>10, <2>1, <2>2, <3>1 DEF FinishArrive
  <2>3. CASE sync_point_ \cup {Owner} # Participants
    BY <1>10, <2>1, <2>3 DEF FinishArrive
  <2> QED
    BY <2>2, <2>3
<1>11. CASE FinishWake
  BY <1>11 DEF FinishWake
<1>12. CASE Destroy
  BY <1>12 DEF Destroy
<1>13. CASE StopArrive
  BY <1>13, ArriveEffect DEF StopArrive, Participants, Workers, Owner
<1>14. CASE StopWake
  BY <1>14 DEF StopWake
<1>15. CASE DestructorReturns
  BY <1>15 DEF DestructorReturns
<1>16. ASSUME NEW w \in Workers, UnwindThread(w) PROVE Rendezvous'
  BY <1>16 DEF UnwindThread
<1>17. ASSUME NEW w \in Workers, RequestStop(w) PROVE Rendezvous'
  BY <1>17 DEF RequestStop
<1>18. ASSUME NEW w \in Workers, JoinThread(w) PROVE Rendezvous'
  BY <1>18 DEF JoinThread
<1>19. ASSUME NEW w \in Workers, FirstArrive(w) PROVE Rendezvous'
  <2>1. /\ worker' = [worker EXCEPT ![w] = "first_wait"]
        /\ IF sync_point_ \cup {w} = Participants
             THEN sync_point_' = {}
             ELSE sync_point_' = sync_point_ \cup {w}
    BY <1>19, ArriveEffect DEF FirstArrive, Participants
  <2>2. CASE sync_point_ \cup {w} = Participants
    <3>1. /\ ~Released(Owner)
          /\ \A v \in Workers : v # w => ~Released(v)
      <4>1. /\ Owner \in Participants /\ Owner # w
            /\ w \in Participants
            /\ \A v \in Workers : v \in Participants
        BY DEF Participants
      <4> QED
        BY <2>2, <4>1, LastArrival
    <3> QED
      BY <1>19, <2>1, <2>2, <3>1 DEF FirstArrive
  <2>3. CASE sync_point_ \cup {w} # Participants
    BY <1>19, <2>1, <2>3 DEF FirstArrive
  <2> QED
    BY <2>2, <2>3
<1>20. ASSUME NEW w \in Workers, FirstWake(w) PROVE Rendezvous'
  BY <1>20 DEF FirstWake
<1>21. ASSUME NEW w \in Workers, CheckStop(w) PROVE Rendezvous'
  BY <1>21 DEF CheckStop
<1>22. ASSUME NEW w \in Workers, Invoke(w) PROVE Rendezvous'
  BY <1>22 DEF Invoke
<1>23. ASSUME NEW w \in Workers, CallbackReturns(w) PROVE Rendezvous'
  <2>1. SecondHalf
    BY <1>23 DEF CallbackReturns
  <2>2. SecondHalf' /\ ~Gathering' /\ ~Leaving'
    BY <1>23, <2>1 DEF CallbackReturns
  <2>3. executed[w] = batch - 1 /\ executed'[w] = batch
    BY <1>23, <2>1 DEF CallbackReturns
  <2> QED
    BY <1>23, <2>1, <2>2, <2>3 DEF CallbackReturns
<1>24. ASSUME NEW w \in Workers, SecondArrive(w) PROVE Rendezvous'
  <2>1. /\ worker' = [worker EXCEPT ![w] = "second_wait"]
        /\ IF sync_point_ \cup {w} = Participants
             THEN sync_point_' = {}
             ELSE sync_point_' = sync_point_ \cup {w}
    BY <1>24, ArriveEffect DEF SecondArrive, Participants
  <2>2. CASE sync_point_ \cup {w} = Participants
    <3>1. /\ ~Released(Owner)
          /\ \A v \in Workers : v # w => ~Released(v)
      <4>1. /\ Owner \in Participants /\ Owner # w
            /\ w \in Participants
            /\ \A v \in Workers : v \in Participants
        BY DEF Participants
      <4> QED
        BY <2>2, <4>1, LastArrival
    <3> QED
      BY <1>24, <2>1, <2>2, <3>1 DEF SecondArrive
  <2>3. CASE sync_point_ \cup {w} # Participants
    BY <1>24, <2>1, <2>3 DEF SecondArrive
  <2> QED
    BY <2>2, <2>3
<1>25. ASSUME NEW w \in Workers, SecondWake(w) PROVE Rendezvous'
  BY <1>25 DEF SecondWake
<1>26. CASE UNCHANGED vars
  BY <1>26 DEF vars
<1> QED
  BY <1>1, <1>2, <1>3, <1>4, <1>5, <1>6, <1>7, <1>8, <1>9, <1>10, <1>11, <1>12, <1>13, <1>14, <1>15, <1>16, <1>17, <1>18, <1>19, <1>20, <1>21, <1>22, <1>23, <1>24, <1>25, <1>26 DEF Next, OwnerStep, ClientChoice, WorkerStep, Gone
-----------------------------------------------------------------------------
LEMMA IndInvInit == Init => IndInv
<1> SUFFICES ASSUME Init PROVE IndInv
  OBVIOUS
<1>1. TypeOK
  BY TypeInit
<1>2. LifetimeInv /\ FieldsInv
  BY PoolAssumption DEF Init, LifetimeInv, FieldsInv, Workers
<1>3. GatheringInv /\ ~SecondHalf /\ ~Leaving
  BY DEF Init, GatheringInv, SecondHalf, Leaving, Released
<1> QED
  BY <1>1, <1>2, <1>3 DEF IndInv, SecondHalfInv, LeavingInv

LEMMA IndInvStep == IndInv /\ [Next]_vars => IndInv'
<1> SUFFICES ASSUME IndInv, [Next]_vars PROVE IndInv'
  OBVIOUS
<1>1. TypeOK' /\ LifetimeInv' /\ FieldsInv'
  BY TypeStep, LifetimeStep, FieldsStep DEF IndInv
<1>2. Rendezvous'
  BY RendezvousStep
<1> QED
  BY <1>1, <1>2 DEF IndInv, Rendezvous

\* The inductive invariant holds of every behaviour of the pool, fair or not.
THEOREM IndInvHolds == SafeSpec => []IndInv
BY IndInvInit, IndInvStep, PTL DEF SafeSpec

\* Every variable always has its type.
THEOREM TypeCorrect == SafeSpec => []TypeOK
<1>1. IndInv => TypeOK
  BY DEF IndInv
<1> QED
  BY <1>1, IndInvHolds, PTL

\* A worker inside the callback has the arguments of the batch RunBatch is still
\* running, however the threads interleave.
THEOREM CallsAreOfTheOpenBatch == SafeSpec => []CallsBelongToTheOpenBatch
<1>1. IndInv => CallsBelongToTheOpenBatch
  <2> SUFFICES ASSUME IndInv, NEW w \in Workers, worker[w] = "run"
                PROVE  /\ call[w] = [callback |-> batch, context |-> batch,
                                     num_threads |-> NumThreads]
                       /\ InRunBatch
    BY DEF CallsBelongToTheOpenBatch
  <2>1. SecondHalf
    BY DEF IndInv, GatheringInv, LeavingInv, Gathering
  <2> QED
    BY <2>1 DEF IndInv, SecondHalfInv, SecondHalf, InRunBatch
<1> QED
  BY <1>1, IndInvHolds, PTL

\* Between batches every worker has run every batch so far, once each: RunBatch
\* did not return early and no worker ran a batch twice.
THEOREM BatchesAreJoined == SafeSpec => []ReturnsAfterEveryCall
<1>1. IndInv => ReturnsAfterEveryCall
  BY DEF IndInv, ReturnsAfterEveryCall, GatheringInv, LeavingInv, Gathering,
         SecondHalf, Leaving
<1> QED
  BY <1>1, IndInvHolds, PTL

\* No worker is about to read the fields for its call while the owner may write
\* one of them.
THEOREM FieldsDoNotRace == SafeSpec => []NoRace
<1>1. IndInv => NoRace
  BY DEF IndInv, NoRace, GatheringInv, LeavingInv, Gathering, SecondHalf
<1> QED
  BY <1>1, IndInvHolds, PTL

\* A worker leaves its loop only once the destructor has requested every stop
\* and arrived at the barrier, and then no worker is inside a batch.
THEOREM StopIsSeenAfterArrival == SafeSpec => []StopSeenAfterArrival
<1>1. IndInv => StopSeenAfterArrival
  <2> SUFFICES ASSUME IndInv, NEW w \in Workers, worker[w] = "exited"
                PROVE  /\ owner \in {"stop_wait", "join", "destroyed"}
                       /\ Released(Owner)
                       /\ stop = Workers
                       /\ \A v \in Workers : worker[v] \in {"first_wait", "check", "exited"}
    BY DEF StopSeenAfterArrival
  <2>1. Leaving
    BY DEF IndInv, GatheringInv, SecondHalfInv, Gathering
  <2>2. owner \in {"stop_wait", "join", "destroyed"} /\ stop = Workers
    BY <2>1 DEF Leaving, IndInv, LifetimeInv
  <2> QED
    BY <2>1, <2>2 DEF IndInv, LeavingInv, Released
<1> QED
  BY <1>1, IndInvHolds, PTL

\* The destructor returns only after every worker has left ThreadEntry.
THEOREM DestroyedLast == SafeSpec => []DestroyedAfterLastExit
<1>1. IndInv => DestroyedAfterLastExit
  BY DEF IndInv, LifetimeInv, DestroyedAfterLastExit
<1> QED
  BY <1>1, IndInvHolds, PTL

-----------------------------------------------------------------------------
(* Refinement: the pool implements the fork-join service.                  *)

RanLatest == {w \in Workers : executed[w] = batch}

LEMMA ServiceInit == Init => Service!Init
BY DEF Init, Service!Init, InRunBatch

LEMMA ServiceStep == IndInv /\ [Next]_vars => [Service!Next]_(Service!vars)
<1> SUFFICES ASSUME IndInv, [Next]_vars PROVE [Service!Next]_(Service!vars)
  OBVIOUS
<1> USE DEF fields, history, lifetime, InRunBatch
\* The steps that the service sees.
<1>1. CASE SetCallback
  <2>1. \A w \in Workers : executed[w] = batch /\ executed'[w] = executed[w]
    BY <1>1 DEF SetCallback, IndInv, GatheringInv, Gathering, SecondHalf, Leaving
  <2>2. batch' = batch + 1 /\ batch' # batch
    BY <1>1 DEF SetCallback, IndInv, TypeOK
  <2> QED
    BY <1>1, <2>1, <2>2 DEF SetCallback, Service!Next, Service!Open
<1>2. ASSUME NEW w \in Workers, CallbackReturns(w) PROVE Service!Run(w)
  <2>1. SecondHalf
    BY <1>2 DEF CallbackReturns, MoveWorker, IndInv, GatheringInv, LeavingInv, Gathering
  <2>2. executed[w] = batch - 1 /\ batch \in Nat /\ executed \in [Workers -> Nat]
    BY <1>2, <2>1 DEF CallbackReturns, MoveWorker, IndInv, SecondHalfInv, TypeOK
  <2>3. executed' = [executed EXCEPT ![w] = batch] /\ batch' = batch /\ owner' = owner
    BY <1>2, <2>2 DEF CallbackReturns
  <2>4. RanLatest' = RanLatest \cup {w} /\ w \notin RanLatest
    BY <2>2, <2>3 DEF RanLatest
  <2> QED
    BY <2>1, <2>3, <2>4 DEF RanLatest, SecondHalf, Service!Run
<1>3. CASE FinishWake
  <2>1. \A w \in Workers : executed[w] = batch
    BY <1>3 DEF FinishWake, IndInv, GatheringInv, Gathering, SecondHalf, Leaving
  <2> QED
    BY <1>3, <2>1 DEF FinishWake, Service!Next, Service!Return
<1>4. CASE Destroy \/ SpawnFails
  BY <1>4 DEF Destroy, SpawnFails, Service!Next, Service!Shutdown
\* The steps it does not see.
<1>5. CASE StartThread
  BY <1>5 DEF StartThread, Service!vars
<1>6. CASE EmplaceThread
  BY <1>6 DEF EmplaceThread, Service!vars
<1>7. CASE ConstructorReturns
  BY <1>7 DEF ConstructorReturns, Service!vars
<1>8. CASE ConstructorThrows
  BY <1>8 DEF ConstructorThrows, Service!vars
<1>9. CASE SetContext
  BY <1>9 DEF SetContext, Service!vars
<1>10. CASE StartArrive
  BY <1>10 DEF StartArrive, Service!vars
<1>11. CASE StartWake
  BY <1>11 DEF StartWake, Service!vars
<1>12. CASE FinishArrive
  BY <1>12 DEF FinishArrive, Service!vars
<1>13. CASE StopArrive
  BY <1>13 DEF StopArrive, Service!vars
<1>14. CASE StopWake
  BY <1>14 DEF StopWake, Service!vars
<1>15. CASE DestructorReturns
  BY <1>15 DEF DestructorReturns, Service!vars
<1>16. ASSUME NEW w \in Workers, UnwindThread(w) PROVE UNCHANGED Service!vars
  BY <1>16 DEF UnwindThread, MoveWorker, Service!vars
<1>17. ASSUME NEW w \in Workers, RequestStop(w) PROVE UNCHANGED Service!vars
  BY <1>17 DEF RequestStop, MoveWorker, Service!vars
<1>18. ASSUME NEW w \in Workers, JoinThread(w) PROVE UNCHANGED Service!vars
  BY <1>18 DEF JoinThread, MoveWorker, Service!vars
<1>19. ASSUME NEW w \in Workers, FirstArrive(w) PROVE UNCHANGED Service!vars
  BY <1>19 DEF FirstArrive, MoveWorker, Service!vars
<1>20. ASSUME NEW w \in Workers, FirstWake(w) PROVE UNCHANGED Service!vars
  BY <1>20 DEF FirstWake, MoveWorker, Service!vars
<1>21. ASSUME NEW w \in Workers, CheckStop(w) PROVE UNCHANGED Service!vars
  BY <1>21 DEF CheckStop, MoveWorker, Service!vars
<1>22. ASSUME NEW w \in Workers, Invoke(w) PROVE UNCHANGED Service!vars
  BY <1>22 DEF Invoke, MoveWorker, Service!vars
<1>23. ASSUME NEW w \in Workers, SecondArrive(w) PROVE UNCHANGED Service!vars
  BY <1>23 DEF SecondArrive, MoveWorker, Service!vars
<1>24. ASSUME NEW w \in Workers, SecondWake(w) PROVE UNCHANGED Service!vars
  BY <1>24 DEF SecondWake, MoveWorker, Service!vars
<1>25. CASE UNCHANGED vars
  BY <1>25 DEF vars, Service!vars
<1> QED
  BY <1>1, <1>2, <1>3, <1>4, <1>5, <1>6, <1>7, <1>8, <1>9, <1>10, <1>11, <1>12, <1>13, <1>14, <1>15, <1>16, <1>17, <1>18, <1>19, <1>20, <1>21, <1>22, <1>23, <1>24, <1>25
  DEF Next, OwnerStep, ClientChoice, WorkerStep, Gone, Service!Next

\* Every behaviour of the pool, seen through the refinement mapping, is one of
\* the fork-join service: batches open and close one at a time, each worker runs
\* each batch once while it is open, and shutdown never falls inside a batch.
THEOREM PoolImplementsForkJoin == SafeSpec => Service!SafeSpec
BY ServiceInit, ServiceStep, IndInvHolds, PTL DEF SafeSpec, Service!SafeSpec

=============================================================================
