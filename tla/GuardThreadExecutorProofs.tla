--------------------- MODULE GuardThreadExecutorProofs ---------------------
(* Proofs about GuardThreadExecutor, for every number of callers, tasks    *)
(* and every queue_threshold.                                              *)
EXTENDS GuardThreadExecutor, SequenceTheorems, FiniteSetTheorems, TLAPS

(* Where the threads can be with respect to each other: a task's own calls *)
(* fall inside task(), the front of the active queue exists while a task   *)
(* is in hand, and tmp_queue lives for one pass of the main loop.          *)
PlaceInv ==
  /\ state_ = "kPreInit" => wpc = "none"
  /\ \A t \in Threads : pc[t] # "idle" => arg[t] \in Tasks
  /\ pc[Worker] # "idle" => wpc = "run"
  /\ spc[Worker] # "idle" =>
       Stopping # {} /\ wpc = "run" /\ pc[Worker] = "idle"
  /\ Begun => ActiveQueue # <<>>
  /\ draining => wpc \in {"next", "run", "dec", "pop", "exited"}
  /\ draining \/ wpc \notin {"next", "run", "dec", "pop"} => tmp_queue = <<>>

(* mutex_ is held by the thread that is in a critical section, and only by *)
(* that one.                                                               *)
LockInv ==
  /\ \A c \in Callers : mutex_ = c <=> pc[c] = "put"
  /\ mutex_ = Worker <=> wpc \in {"pred", "block"} \/ pc[Worker] = "put"

IInv == TypeOK /\ PlaceInv /\ LockInv /\ NoLostWakeup

-----------------------------------------------------------------------------
(* What is left of Owner's calls after one of them.                        *)
LEMMA ScriptType ==
  ASSUME script \in Seq(LifecycleCalls), NEW name, OwnerCalls(name)
  PROVE  script' \in Seq(LifecycleCalls)
  BY HeadTailProperties DEF OwnerCalls, ShutdownAt

(* Every step of the executor keeps the types: what is popped from either  *)
(* queue is there, and what is emplaced is a task.                         *)
LEMMA TypeStep == IInv /\ [Next]_vars => TypeOK'
<1> SUFFICES ASSUME IInv, [Next]_vars PROVE TypeOK'
  OBVIOUS
<1> USE DEF IInv, TypeOK, PlaceInv, ActiveQueue, Begun, Threads, Stoppers,
  State, ownerVars, workerVars, callVars, lockedVars, ghostVars
<1>1. CASE Initialize
  BY <1>1, ScriptType DEF Initialize
<1>2. CASE InitializeBadOptions
  BY <1>2 DEF InitializeBadOptions, ShutdownAt, LifecycleCalls
<1>3. CASE Start
  BY <1>3, ScriptType DEF Start
<1>4. CASE Destroy
  BY <1>4, ScriptType DEF Destroy
<1>5. ASSUME NEW t \in Stoppers, ShutdownExchange(t) PROVE TypeOK'
  <2>1. UNCHANGED script \/ OwnerCalls("Shutdown")
    BY <1>5 DEF ShutdownExchange, ShutdownCalledBy, WorkerAt
  <2>2. script' \in Seq(LifecycleCalls)
    BY <2>1, ScriptType
  <2>3. QED
    BY <1>5, <2>2 DEF ShutdownExchange, AlreadyShut
<1>6. ASSUME NEW t \in Stoppers, ShutdownNotify(t) PROVE TypeOK'
  BY <1>6 DEF ShutdownNotify, ShutdownAt, NotifyOne
<1>7. CASE ShutdownJoin
  BY <1>7 DEF ShutdownJoin, ShutdownAt
<1>8. CASE ShutdownSelfJoin
  BY <1>8 DEF ShutdownSelfJoin, ShutdownAt
<1>9. ASSUME NEW t \in Threads, NEW k \in Tasks, ExecuteCheck(t, k)
      PROVE  TypeOK'
  BY <1>9 DEF ExecuteCheck, CallAt, MayCall
<1>10. ASSUME NEW t \in Threads, ExecuteCount(t) PROVE TypeOK'
  BY <1>10 DEF ExecuteCount, CallAt
<1>11. ASSUME NEW t \in Threads, ExecuteUndo(t) PROVE TypeOK'
  BY <1>11 DEF ExecuteUndo, CallAt, ExecuteReturns
<1>12. ASSUME NEW t \in Threads, ExecuteLock(t) PROVE TypeOK'
  BY <1>12 DEF ExecuteLock, CallAt
<1>13. ASSUME NEW t \in Threads, ExecutePut(t) PROVE TypeOK'
  BY <1>13 DEF ExecutePut, CallAt, ExecuteReturns, NotifyOne
<1>14. CASE WorkerLoop
  BY <1>14 DEF WorkerLoop, WorkerAt
<1>15. CASE WorkerLock
  BY <1>15 DEF WorkerLock, WorkerAt
<1>16. CASE WorkerPredicate
  BY <1>16 DEF WorkerPredicate, WorkerAt, WaitOver
<1>17. CASE WorkerBlock
  BY <1>17 DEF WorkerBlock, WorkerAt
<1>18. CASE SpuriousWakeup
  BY <1>18 DEF SpuriousWakeup, WorkerAt
<1>19. CASE WorkerNext
  BY <1>19 DEF WorkerNext, WorkerAt
<1>20. CASE TaskEnds
  BY <1>20 DEF TaskEnds, WorkerAt, AfterTask
<1>21. CASE WorkerDecrement
  BY <1>21 DEF WorkerDecrement, WorkerAt
<1>22. CASE WorkerPop
  <2>1. CASE draining
    <3>1. queue_ # <<>>
      BY <1>22, <2>1 DEF WorkerPop, WorkerAt
    <3>2. Tail(queue_) \in Seq(Tasks)
      BY <3>1, HeadTailProperties
    <3>3. QED
      BY <1>22, <2>1, <3>2 DEF WorkerPop, WorkerAt
  <2>2. CASE ~draining
    <3>1. tmp_queue # <<>>
      BY <1>22, <2>2 DEF WorkerPop, WorkerAt
    <3>2. Tail(tmp_queue) \in Seq(Tasks)
      BY <3>1, HeadTailProperties
    <3>3. QED
      BY <1>22, <2>2, <3>2 DEF WorkerPop, WorkerAt
  <2>3. QED
    BY <2>1, <2>2
<1>23. CASE QueueRaceCrash
  BY <1>23 DEF QueueRaceCrash
<1>24. CASE UNCHANGED vars
  BY <1>24 DEF vars
<1> QED
  BY <1>1, <1>2, <1>3, <1>4, <1>5, <1>6, <1>7, <1>8, <1>9, <1>10, <1>11,
     <1>12, <1>13, <1>14, <1>15, <1>16, <1>17, <1>18, <1>19, <1>20, <1>21,
     <1>22, <1>23, <1>24
  DEF Next, ShutdownStep, ExecuteStep, WorkerStep

(* Every step keeps the threads where PlaceInv allows them to be.          *)
LEMMA PlaceStep == IInv /\ [Next]_vars => PlaceInv'
<1> SUFFICES ASSUME IInv, [Next]_vars PROVE PlaceInv'
  OBVIOUS
<1> USE DEF IInv, TypeOK, PlaceInv, LockInv, ActiveQueue, Begun, Threads,
  Stoppers, ownerVars, workerVars, callVars, lockedVars, ghostVars
<1>1. CASE Initialize
  BY <1>1 DEF Initialize, OwnerCalls, ShutdownAt
<1>2. CASE InitializeBadOptions
  BY <1>2 DEF InitializeBadOptions, ShutdownAt
<1>3. CASE Start
  BY <1>3 DEF Start, OwnerCalls, ShutdownAt
<1>4. CASE Destroy
  BY <1>4 DEF Destroy, OwnerCalls, ShutdownAt
<1>5. ASSUME NEW t \in Stoppers, ShutdownExchange(t) PROVE PlaceInv'
  BY <1>5, ThreadsAssumption DEF ShutdownExchange, ShutdownCalledBy,
                                 WorkerAt, OwnerCalls, ShutdownAt,
              AlreadyShut
<1>6. ASSUME NEW t \in Stoppers, ShutdownNotify(t) PROVE PlaceInv'
  BY <1>6 DEF ShutdownNotify, ShutdownAt, NotifyOne
<1>7. CASE ShutdownJoin
  BY <1>7 DEF ShutdownJoin, ShutdownAt
<1>8. CASE ShutdownSelfJoin
  BY <1>8, ThreadsAssumption DEF ShutdownSelfJoin, ShutdownAt
<1>9. ASSUME NEW t \in Threads, NEW k \in Tasks, ExecuteCheck(t, k)
      PROVE  PlaceInv'
  BY <1>9 DEF ExecuteCheck, CallAt, MayCall
<1>10. ASSUME NEW t \in Threads, ExecuteCount(t) PROVE PlaceInv'
  BY <1>10 DEF ExecuteCount, CallAt
<1>11. ASSUME NEW t \in Threads, ExecuteUndo(t) PROVE PlaceInv'
  BY <1>11 DEF ExecuteUndo, CallAt, ExecuteReturns
<1>12. ASSUME NEW t \in Threads, ExecuteLock(t) PROVE PlaceInv'
  BY <1>12 DEF ExecuteLock, CallAt
<1>13. ASSUME NEW t \in Threads, ExecutePut(t) PROVE PlaceInv'
  BY <1>13 DEF ExecutePut, CallAt, ExecuteReturns, NotifyOne
<1>14. CASE WorkerLoop
  BY <1>14 DEF WorkerLoop, WorkerAt
<1>15. CASE WorkerLock
  BY <1>15 DEF WorkerLock, WorkerAt
<1>16. CASE WorkerPredicate
  BY <1>16 DEF WorkerPredicate, WorkerAt, WaitOver
<1>17. CASE WorkerBlock
  BY <1>17 DEF WorkerBlock, WorkerAt
<1>18. CASE SpuriousWakeup
  BY <1>18 DEF SpuriousWakeup, WorkerAt
<1>19. CASE WorkerNext
  BY <1>19 DEF WorkerNext, WorkerAt
<1>20. CASE TaskEnds
  BY <1>20 DEF TaskEnds, WorkerAt, AfterTask
<1>21. CASE WorkerDecrement
  BY <1>21 DEF WorkerDecrement, WorkerAt
<1>22. CASE WorkerPop
  BY <1>22 DEF WorkerPop, WorkerAt
<1>23. CASE QueueRaceCrash
  BY <1>23 DEF QueueRaceCrash
<1>24. CASE UNCHANGED vars
  BY <1>24 DEF vars
<1> QED
  BY <1>1, <1>2, <1>3, <1>4, <1>5, <1>6, <1>7, <1>8, <1>9, <1>10, <1>11,
     <1>12, <1>13, <1>14, <1>15, <1>16, <1>17, <1>18, <1>19, <1>20, <1>21,
     <1>22, <1>23, <1>24
  DEF Next, ShutdownStep, ExecuteStep, WorkerStep

(* Every step keeps the critical sections of mutex_ exclusive              *)
(* (guard_thread_executor.cc:69-72, 115-116, 149-151).                     *)
LEMMA LockStep == IInv /\ [Next]_vars => LockInv'
<1> SUFFICES ASSUME IInv, [Next]_vars PROVE LockInv'
  OBVIOUS
<1> USE DEF IInv, TypeOK, PlaceInv, LockInv, Threads, Stoppers,
  ownerVars, workerVars, callVars, lockedVars, ghostVars
<1>1. CASE Initialize
  BY <1>1 DEF Initialize, OwnerCalls, ShutdownAt
<1>2. CASE InitializeBadOptions
  BY <1>2 DEF InitializeBadOptions, ShutdownAt
<1>3. CASE Start
  BY <1>3 DEF Start, OwnerCalls, ShutdownAt
<1>4. CASE Destroy
  BY <1>4 DEF Destroy, OwnerCalls, ShutdownAt
<1>5. ASSUME NEW t \in Stoppers, ShutdownExchange(t) PROVE LockInv'
  BY <1>5 DEF ShutdownExchange, ShutdownCalledBy, WorkerAt, OwnerCalls,
              ShutdownAt,
              AlreadyShut
<1>6. ASSUME NEW t \in Stoppers, ShutdownNotify(t) PROVE LockInv'
  BY <1>6 DEF ShutdownNotify, ShutdownAt, NotifyOne
<1>7. CASE ShutdownJoin
  BY <1>7 DEF ShutdownJoin, ShutdownAt
<1>8. CASE ShutdownSelfJoin
  BY <1>8 DEF ShutdownSelfJoin, ShutdownAt
<1>9. ASSUME NEW t \in Threads, NEW k \in Tasks, ExecuteCheck(t, k)
      PROVE  LockInv'
  BY <1>9 DEF ExecuteCheck, CallAt, MayCall
<1>10. ASSUME NEW t \in Threads, ExecuteCount(t) PROVE LockInv'
  BY <1>10 DEF ExecuteCount, CallAt
<1>11. ASSUME NEW t \in Threads, ExecuteUndo(t) PROVE LockInv'
  BY <1>11 DEF ExecuteUndo, CallAt, ExecuteReturns
<1>12. ASSUME NEW t \in Threads, ExecuteLock(t) PROVE LockInv'
  BY <1>12, ThreadsAssumption DEF ExecuteLock, CallAt
<1>13. ASSUME NEW t \in Threads, ExecutePut(t) PROVE LockInv'
  BY <1>13, ThreadsAssumption DEF ExecutePut, CallAt, ExecuteReturns, NotifyOne
<1>14. CASE WorkerLoop
  BY <1>14 DEF WorkerLoop, WorkerAt
<1>15. CASE WorkerLock
  BY <1>15, ThreadsAssumption DEF WorkerLock, WorkerAt
<1>16. CASE WorkerPredicate
  BY <1>16, ThreadsAssumption DEF WorkerPredicate, WorkerAt, WaitOver
<1>17. CASE WorkerBlock
  BY <1>17, ThreadsAssumption DEF WorkerBlock, WorkerAt
<1>18. CASE SpuriousWakeup
  BY <1>18 DEF SpuriousWakeup, WorkerAt
<1>19. CASE WorkerNext
  BY <1>19 DEF WorkerNext, WorkerAt
<1>20. CASE TaskEnds
  BY <1>20 DEF TaskEnds, WorkerAt, AfterTask
<1>21. CASE WorkerDecrement
  BY <1>21 DEF WorkerDecrement, WorkerAt
<1>22. CASE WorkerPop
  BY <1>22 DEF WorkerPop, WorkerAt
<1>23. CASE QueueRaceCrash
  BY <1>23 DEF QueueRaceCrash
<1>24. CASE UNCHANGED vars
  BY <1>24 DEF vars
<1> QED
  BY <1>1, <1>2, <1>3, <1>4, <1>5, <1>6, <1>7, <1>8, <1>9, <1>10, <1>11,
     <1>12, <1>13, <1>14, <1>15, <1>16, <1>17, <1>18, <1>19, <1>20, <1>21,
     <1>22, <1>23, <1>24
  DEF Next, ShutdownStep, ExecuteStep, WorkerStep

(* Every step keeps the worker from sleeping through a task or a shutdown: *)
(* the notification under mutex_ cannot fall between the predicate and the *)
(* wait (guard_thread_executor.cc:70, 114-117).                            *)
LEMMA WakeStep == IInv /\ [Next]_vars => NoLostWakeup'
<1> SUFFICES ASSUME IInv, [Next]_vars PROVE NoLostWakeup'
  OBVIOUS
<1> USE DEF IInv, TypeOK, PlaceInv, LockInv, NoLostWakeup, Threads, Stoppers,
  ownerVars, workerVars, callVars, lockedVars, ghostVars
<1>1. CASE Initialize
  BY <1>1 DEF Initialize, OwnerCalls, ShutdownAt
<1>2. CASE InitializeBadOptions
  BY <1>2 DEF InitializeBadOptions, ShutdownAt
<1>3. CASE Start
  BY <1>3 DEF Start, OwnerCalls, ShutdownAt
<1>4. CASE Destroy
  BY <1>4 DEF Destroy, OwnerCalls, ShutdownAt
<1>5. ASSUME NEW t \in Stoppers, ShutdownExchange(t) PROVE NoLostWakeup'
  BY <1>5 DEF ShutdownExchange, ShutdownCalledBy, WorkerAt, OwnerCalls,
              ShutdownAt,
              AlreadyShut
<1>6. ASSUME NEW t \in Stoppers, ShutdownNotify(t) PROVE NoLostWakeup'
  BY <1>6, ThreadsAssumption DEF ShutdownNotify, ShutdownAt, NotifyOne
<1>7. CASE ShutdownJoin
  BY <1>7 DEF ShutdownJoin, ShutdownAt
<1>8. CASE ShutdownSelfJoin
  BY <1>8 DEF ShutdownSelfJoin, ShutdownAt
<1>9. ASSUME NEW t \in Threads, NEW k \in Tasks, ExecuteCheck(t, k)
      PROVE  NoLostWakeup'
  BY <1>9 DEF ExecuteCheck, CallAt, MayCall
<1>10. ASSUME NEW t \in Threads, ExecuteCount(t) PROVE NoLostWakeup'
  BY <1>10 DEF ExecuteCount, CallAt
<1>11. ASSUME NEW t \in Threads, ExecuteUndo(t) PROVE NoLostWakeup'
  BY <1>11 DEF ExecuteUndo, CallAt, ExecuteReturns
<1>12. ASSUME NEW t \in Threads, ExecuteLock(t) PROVE NoLostWakeup'
  BY <1>12 DEF ExecuteLock, CallAt
<1>13. ASSUME NEW t \in Threads, ExecutePut(t) PROVE NoLostWakeup'
  BY <1>13 DEF ExecutePut, CallAt, ExecuteReturns, NotifyOne
<1>14. CASE WorkerLoop
  BY <1>14 DEF WorkerLoop, WorkerAt
<1>15. CASE WorkerLock
  BY <1>15 DEF WorkerLock, WorkerAt
<1>16. CASE WorkerPredicate
  BY <1>16 DEF WorkerPredicate, WorkerAt, WaitOver
<1>17. CASE WorkerBlock
  BY <1>17 DEF WorkerBlock, WorkerAt
<1>18. CASE SpuriousWakeup
  BY <1>18 DEF SpuriousWakeup, WorkerAt
<1>19. CASE WorkerNext
  BY <1>19 DEF WorkerNext, WorkerAt
<1>20. CASE TaskEnds
  BY <1>20 DEF TaskEnds, WorkerAt, AfterTask
<1>21. CASE WorkerDecrement
  BY <1>21 DEF WorkerDecrement, WorkerAt
<1>22. CASE WorkerPop
  BY <1>22 DEF WorkerPop, WorkerAt
<1>23. CASE QueueRaceCrash
  BY <1>23 DEF QueueRaceCrash
<1>24. CASE UNCHANGED vars
  BY <1>24 DEF vars
<1> QED
  BY <1>1, <1>2, <1>3, <1>4, <1>5, <1>6, <1>7, <1>8, <1>9, <1>10, <1>11,
     <1>12, <1>13, <1>14, <1>15, <1>16, <1>17, <1>18, <1>19, <1>20, <1>21,
     <1>22, <1>23, <1>24
  DEF Next, ShutdownStep, ExecuteStep, WorkerStep

(* The constructed executor satisfies the inductive invariant.             *)
LEMMA InitIInv == Init => IInv
<1> SUFFICES ASSUME Init PROVE IInv
  OBVIOUS
<1> USE DEF Init, Threads, Stoppers
<1>1. TypeOK
  <2>1. script \in Seq(LifecycleCalls)
    BY OptionsAssumption
  <2>2. /\ state_ \in State
        /\ queue_task_num_ \in Int
        /\ mutex_ \in Threads \cup {NoThread}
        /\ queue_ \in Seq(Tasks) /\ tmp_queue \in Seq(Tasks)
        /\ finished \subseteq Tasks
    BY DEF State
  <2>3. /\ pc \in [Threads -> {"idle", "count", "undo", "lock", "put"}]
        /\ arg \in [Threads -> Tasks \cup {NoTask}]
        /\ spc \in [Stoppers -> {"idle", "notify", "join"}]
    OBVIOUS
  <2>4. joinable \in BOOLEAN /\ draining \in BOOLEAN /\ alive \in BOOLEAN
    OBVIOUS
  <2>5. wpc = "none"
    OBVIOUS
  <2>6. QED
    BY <2>1, <2>2, <2>3, <2>4, <2>5 DEF TypeOK
<1>2. PlaceInv
  BY DEF PlaceInv, Begun, ActiveQueue
<1>3. LockInv
  BY ThreadsAssumption DEF LockInv
<1>4. NoLostWakeup
  BY DEF NoLostWakeup
<1> QED
  BY <1>1, <1>2, <1>3, <1>4 DEF IInv

(* The inductive invariant holds in every reachable state.                 *)
THEOREM Invariance == Spec => []IInv
<1>1. IInv /\ [Next]_vars => IInv'
  BY TypeStep, PlaceStep, LockStep, WakeStep DEF IInv
<1> QED
  BY <1>1, InitIInv, PTL DEF Spec

(* Type correctness, for any callers, tasks and options.                   *)
THEOREM TypeCorrect == Spec => []TypeOK
<1>1. IInv => TypeOK
  BY DEF IInv
<1> QED
  BY <1>1, Invariance, PTL

(* The worker is never asleep, or about to sleep, with a task in queue_ or *)
(* after the notification of a shutdown (guard_thread_executor.cc:70,      *)
(* 110-117, 149-151).                                                      *)
THEOREM NeverSleepsThroughWork == Spec => []NoLostWakeup
<1>1. IInv => NoLostWakeup
  BY DEF IInv
<1> QED
  BY <1>1, Invariance, PTL

-----------------------------------------------------------------------------
CountAt(f, S) == Cardinality({t \in Threads : f[t] \in S})

(* The threads that call Execute are finitely many.                        *)
LEMMA ThreadsFinite == IsFiniteSet(Threads)
  BY ThreadsAssumption, FS_AddElement DEF Threads

(* The number of threads whose place lies in S is a natural number.        *)
LEMMA CountType ==
  ASSUME NEW f, NEW S
  PROVE  CountAt(f, S) \in Nat
<1>1. IsFiniteSet({t \in Threads : f[t] \in S})
  BY ThreadsFinite, FS_Subset
<1> QED
  BY <1>1, FS_CardinalityType DEF CountAt

(* One thread moves from f[t] to v.                                        *)
LEMMA CountMove ==
  ASSUME NEW A, NEW f \in [Threads -> A], NEW t \in Threads, NEW v \in A,
         NEW S
  PROVE  CountAt([f EXCEPT ![t] = v], S) =
           CountAt(f, S) - (IF f[t] \in S THEN 1 ELSE 0)
                         + (IF v \in S THEN 1 ELSE 0)
<1> DEFINE g == [f EXCEPT ![t] = v]
           F == {u \in Threads : f[u] \in S}
           G == {u \in Threads : g[u] \in S}
           R == F \ {t}
<1>1. IsFiniteSet(F)
  BY ThreadsFinite, FS_Subset
<1>2. /\ IsFiniteSet(R)
      /\ Cardinality(R) = IF t \in F THEN Cardinality(F) - 1
                          ELSE Cardinality(F)
  BY <1>1, FS_RemoveElement
<1>3. G = IF v \in S THEN R \cup {t} ELSE R
  OBVIOUS
<1>4. Cardinality(R \cup {t}) = Cardinality(R) + 1
  BY <1>2, FS_AddElement
<1>5. Cardinality(F) \in Nat /\ Cardinality(R) \in Nat
  BY <1>1, <1>2, FS_CardinalityType
<1>6. t \in F <=> f[t] \in S
  OBVIOUS
<1>7. Cardinality(G) = Cardinality(F) - (IF f[t] \in S THEN 1 ELSE 0)
                                      + (IF v \in S THEN 1 ELSE 0)
  <2> HIDE DEF F, G, R
  <2> QED
    BY <1>2, <1>3, <1>4, <1>5, <1>6
<1> QED
  BY <1>7 DEF CountAt

(* Fewer places, fewer threads.                                            *)
LEMMA CountSubset ==
  ASSUME NEW f, NEW S, NEW T, S \subseteq T
  PROVE  CountAt(f, S) <= CountAt(f, T)
<1>1. IsFiniteSet({t \in Threads : f[t] \in T})
  BY ThreadsFinite, FS_Subset
<1>2. {t \in Threads : f[t] \in S} \subseteq {t \in Threads : f[t] \in T}
  OBVIOUS
<1> QED
  BY <1>1, <1>2, FS_Subset DEF CountAt

(* The calls that have counted, and those of them that will put.           *)
Entering == CountAt(pc, {"undo", "lock", "put"})
Taken == CountAt(pc, {"lock", "put"})

(* CounterCovers and BoundedBacklog, in terms of CountAt.                  *)
CounterInv ==
  LET counted == Held + Entering
  IN  /\ queue_task_num_ >= counted
      /\ Throwing \cup Stopping = {} => queue_task_num_ = counted

BacklogInv == Held + Taken <= QueueThreshold

(* CounterInv and BacklogInv say what CounterCovers and BoundedBacklog     *)
(* say.                                                                    *)
LEMMA CounterIsCount ==
  (CounterCovers <=> CounterInv) /\ (BoundedBacklog <=> BacklogInv)
  BY DEF CounterCovers, BoundedBacklog, CallsAt, CounterInv, BacklogInv,
         Entering, Taken, CountAt

(* A step of the worker or of the life cycle that leaves pc alone: what is *)
(* held may only shrink, and shrinks with the counter.                     *)
Settles ==
  /\ UNCHANGED pc
  /\ {Held', queue_task_num_'} \subseteq Int
  /\ Held' <= Held
  /\ Held' - Held <= queue_task_num_' - queue_task_num_
  /\ Throwing \cup Stopping = {} =>
       queue_task_num_' - queue_task_num_ = Held' - Held

(* The number of tasks held is an integer.                                 *)
LEMMA HeldType == TypeOK => Held \in Int
  BY DEF TypeOK, Held

(* A settling step keeps the counter and the backlog in order.             *)
LEMMA SettlesKeeps ==
  ASSUME IInv, Settles
  PROVE  (CounterInv => CounterInv') /\ (BacklogInv => BacklogInv')
<1>1. Held \in Int /\ queue_task_num_ \in Int /\ QueueThreshold \in Int
  BY HeldType, OptionsAssumption DEF IInv, TypeOK
<1>2. {Held', queue_task_num_'} \subseteq Int
  BY DEF Settles
<1>3. Entering \in Nat /\ Taken \in Nat
  BY CountType DEF Entering, Taken
<1>4. Entering' = Entering /\ Taken' = Taken
  BY DEF Settles, Entering, Taken
<1>5. ASSUME CounterInv PROVE CounterInv'
  <2>2. Held + Entering <= queue_task_num_
    BY <1>5 DEF CounterInv
  <2>3. Held' - Held <= queue_task_num_' - queue_task_num_
    BY DEF Settles
  <2>4. Held' + Entering' <= queue_task_num_'
    <3>1. Held' + Entering <= queue_task_num_'
      BY <1>1, <1>2, <1>3, <1>4, <2>2, <2>3
    <3>2. QED
      BY <1>3, <1>4, <3>1
  <2>5. ASSUME Throwing \cup Stopping = {}
        PROVE  queue_task_num_' = Held' + Entering'
    <3>1. queue_task_num_ = Held + Entering
      BY <1>5, <2>5 DEF CounterInv
    <3>2. queue_task_num_' - queue_task_num_ = Held' - Held
      BY <2>5 DEF Settles
    <3>3. QED
      BY <1>1, <1>2, <1>3, <1>4, <3>1, <3>2
  <2>6. QED
    BY <2>4, <2>5 DEF CounterInv
<1>6. BacklogInv => BacklogInv'
  BY <1>1, <1>2, <1>3, <1>4 DEF Settles, BacklogInv
<1> QED
  BY <1>5, <1>6

(* The steps of the worker and of the life cycle settle: a task leaves the *)
(* count at --queue_task_num_, or never if it throws, and is popped        *)
(* afterwards (guard_thread_executor.cc:74-84, 88-97).                     *)
LEMMA WorkerSettles ==
  ASSUME IInv, IInv',
         \/ Initialize \/ InitializeBadOptions \/ Start \/ Destroy
         \/ \E t \in Stoppers : ShutdownExchange(t) \/ ShutdownStep(t)
         \/ WorkerStep \/ SpuriousWakeup \/ QueueRaceCrash
         \/ UNCHANGED vars
  PROVE  Settles
<1>1. /\ Held \in Int /\ queue_task_num_ \in Int
      /\ {Held', queue_task_num_'} \subseteq Int
  BY HeldType DEF IInv, TypeOK, Held
<1> USE DEF Settles, Held, ActiveQueue, Begun, Stoppers, ownerVars, workerVars,
  callVars, lockedVars, ghostVars
<1>2. CASE Initialize
  <2>1. UNCHANGED <<queue_, tmp_queue, pc, queue_task_num_>>
    BY <1>2 DEF Initialize, IInv, PlaceInv
  <2>2. wpc' = wpc \/ (wpc = "none" /\ wpc' = "loop")
    BY <1>2 DEF Initialize, IInv, PlaceInv
  <2>3. QED
    BY <1>1, <2>1, <2>2
<1>3. CASE InitializeBadOptions
  BY <1>1, <1>3 DEF InitializeBadOptions, ShutdownAt
<1>4. CASE Start
  BY <1>1, <1>4 DEF Start, OwnerCalls, ShutdownAt
<1>5. CASE Destroy
  BY <1>1, <1>5 DEF Destroy, OwnerCalls, ShutdownAt
<1>6. ASSUME NEW t \in Stoppers, ShutdownExchange(t) PROVE Settles
  BY <1>1, <1>6 DEF ShutdownExchange, ShutdownCalledBy, WorkerAt, OwnerCalls,
                    ShutdownAt,
              AlreadyShut
<1>7. ASSUME NEW t \in Stoppers, ShutdownNotify(t) PROVE Settles
  <2>1. UNCHANGED <<queue_, tmp_queue, pc, queue_task_num_>>
    BY <1>7 DEF ShutdownNotify, ShutdownAt
  <2>2. wpc' = wpc \/ (wpc = "wait" /\ wpc' = "lock")
    BY <1>7 DEF ShutdownNotify, ShutdownAt, NotifyOne
  <2>3. QED
    BY <1>1, <2>1, <2>2
<1>8. CASE ShutdownJoin
  BY <1>1, <1>8 DEF ShutdownJoin, ShutdownAt
<1>9. CASE ShutdownSelfJoin
  BY <1>1, <1>9 DEF ShutdownSelfJoin, ShutdownAt, IInv, PlaceInv, TypeOK
<1>10. CASE WorkerLoop
  BY <1>1, <1>10 DEF WorkerLoop, WorkerAt
<1>11. CASE WorkerLock
  BY <1>1, <1>11 DEF WorkerLock, WorkerAt
<1>12. CASE WorkerPredicate
  BY <1>1, <1>12 DEF WorkerPredicate, WorkerAt, WaitOver, IInv, PlaceInv
<1>13. CASE WorkerBlock
  BY <1>1, <1>13 DEF WorkerBlock, WorkerAt
<1>14. CASE SpuriousWakeup
  BY <1>1, <1>14 DEF SpuriousWakeup, WorkerAt
<1>15. CASE WorkerNext
  BY <1>1, <1>15 DEF WorkerNext, WorkerAt
<1>16. CASE TaskEnds
  <2>1. /\ UNCHANGED <<queue_, tmp_queue, pc, queue_task_num_>>
        /\ wpc = "run" /\ wpc' \in {"pop", "dec"}
        /\ Throwing = {} => wpc' = "dec"
    BY <1>16 DEF TaskEnds, WorkerAt, AfterTask
  <2>2. QED
    BY <1>1, <2>1
<1>17. CASE WorkerDecrement
  BY <1>1, <1>17 DEF WorkerDecrement, WorkerAt
<1>18. CASE WorkerPop
  <2>1. wpc = "pop" /\ wpc' = "next" /\ UNCHANGED <<pc, queue_task_num_>>
    BY <1>18 DEF WorkerPop, WorkerAt, IInv, PlaceInv
  <2>2. CASE draining
    <3>1. queue_ # <<>> /\ queue_' = Tail(queue_) /\ tmp_queue' = tmp_queue
      BY <1>18, <2>2 DEF WorkerPop, WorkerAt, IInv, PlaceInv
    <3>2. Len(queue_') = Len(queue_) - 1
      BY <3>1, HeadTailProperties DEF IInv, TypeOK
    <3>3. QED
      BY <1>1, <2>1, <3>1, <3>2
  <2>3. CASE ~draining
    <3>1. tmp_queue # <<>> /\ tmp_queue' = Tail(tmp_queue) /\ queue_' = queue_
      BY <1>18, <2>3 DEF WorkerPop, WorkerAt, IInv, PlaceInv
    <3>2. Len(tmp_queue') = Len(tmp_queue) - 1
      BY <3>1, HeadTailProperties DEF IInv, TypeOK
    <3>3. QED
      BY <1>1, <2>1, <3>1, <3>2
  <2>4. QED
    BY <2>2, <2>3
<1>19. CASE QueueRaceCrash
  BY <1>1, <1>19 DEF QueueRaceCrash
<1>20. CASE UNCHANGED vars
  BY <1>1, <1>20 DEF vars
<1> QED
  BY <1>2, <1>3, <1>4, <1>5, <1>6, <1>7, <1>8, <1>9, <1>10, <1>11, <1>12,
     <1>13, <1>14, <1>15, <1>16, <1>17, <1>18, <1>19, <1>20
  DEF ShutdownStep, WorkerStep

Moves(t, u, v) == pc[t] = u /\ pc' = [pc EXCEPT ![t] = v]

(* What the steps of Execute by t do to both counts.                       *)
LEMMA CallMoves ==
  ASSUME TypeOK, NEW t \in Threads
  PROVE
  /\ Moves(t, "idle", "count") => Entering' = Entering /\ Taken' = Taken
  /\ Moves(t, "count", "undo") => Entering' = Entering + 1 /\ Taken' = Taken
  /\ Moves(t, "count", "lock") => Entering' = Entering + 1 /\ Taken' = Taken + 1
  /\ Moves(t, "undo", "idle") => Entering' = Entering - 1 /\ Taken' = Taken
  /\ Moves(t, "lock", "put") => Entering' = Entering /\ Taken' = Taken
  /\ Moves(t, "put", "idle") => Entering' = Entering - 1 /\ Taken' = Taken - 1
<1> DEFINE A == {"idle", "count", "undo", "lock", "put"}
           G(v) == [pc EXCEPT ![t] = v]
           E == {"undo", "lock", "put"}
           T == {"lock", "put"}
<1>1. pc \in [Threads -> A]
  BY DEF TypeOK
<1>2. Entering \in Nat /\ Taken \in Nat
  BY CountType DEF Entering, Taken
<1>3. ASSUME NEW v \in A
      PROVE  /\ CountAt(G(v), E) = Entering - (IF pc[t] \in E THEN 1 ELSE 0)
                                           + (IF v \in E THEN 1 ELSE 0)
             /\ CountAt(G(v), T) = Taken - (IF pc[t] \in T THEN 1 ELSE 0)
                                        + (IF v \in T THEN 1 ELSE 0)
  <2>1. \A S : CountAt([pc EXCEPT ![t] = v], S) =
                CountAt(pc, S) - (IF pc[t] \in S THEN 1 ELSE 0)
                               + (IF v \in S THEN 1 ELSE 0)
    <3> HIDE DEF A
    <3> QED
      BY <1>1, <1>3, CountMove
  <2>2. QED
    BY <2>1 DEF Entering, Taken
<1>4. ASSUME Moves(t, "idle", "count")
      PROVE  Entering' = Entering /\ Taken' = Taken
  <2>1. Entering' = CountAt(G("count"), E) /\ Taken' = CountAt(G("count"), T)
    BY <1>4 DEF Moves, Entering, Taken
  <2>2. CountAt(G("count"), E) = Entering /\ CountAt(G("count"), T) = Taken
    BY <1>2, <1>3, <1>4 DEF Moves
  <2>3. QED
    BY <2>1, <2>2
<1>5. ASSUME Moves(t, "count", "undo")
      PROVE  Entering' = Entering + 1 /\ Taken' = Taken
  <2>1. Entering' = CountAt(G("undo"), E) /\ Taken' = CountAt(G("undo"), T)
    BY <1>5 DEF Moves, Entering, Taken
  <2>2. CountAt(G("undo"), E) = Entering + 1 /\ CountAt(G("undo"), T) = Taken
    BY <1>2, <1>3, <1>5 DEF Moves
  <2>3. QED
    BY <2>1, <2>2
<1>6. ASSUME Moves(t, "count", "lock")
      PROVE  Entering' = Entering + 1 /\ Taken' = Taken + 1
  <2>1. Entering' = CountAt(G("lock"), E) /\ Taken' = CountAt(G("lock"), T)
    BY <1>6 DEF Moves, Entering, Taken
  <2>2. CountAt(G("lock"), E) = Entering + 1 /\ CountAt(G("lock"), T) = Taken + 1
    BY <1>2, <1>3, <1>6 DEF Moves
  <2>3. QED
    BY <2>1, <2>2
<1>7. ASSUME Moves(t, "undo", "idle")
      PROVE  Entering' = Entering - 1 /\ Taken' = Taken
  <2>1. Entering' = CountAt(G("idle"), E) /\ Taken' = CountAt(G("idle"), T)
    BY <1>7 DEF Moves, Entering, Taken
  <2>2. CountAt(G("idle"), E) = Entering - 1 /\ CountAt(G("idle"), T) = Taken
    BY <1>2, <1>3, <1>7 DEF Moves
  <2>3. QED
    BY <2>1, <2>2
<1>8. ASSUME Moves(t, "lock", "put")
      PROVE  Entering' = Entering /\ Taken' = Taken
  <2>1. Entering' = CountAt(G("put"), E) /\ Taken' = CountAt(G("put"), T)
    BY <1>8 DEF Moves, Entering, Taken
  <2>2. CountAt(G("put"), E) = Entering /\ CountAt(G("put"), T) = Taken
    BY <1>2, <1>3, <1>8 DEF Moves
  <2>3. QED
    BY <2>1, <2>2
<1>9. ASSUME Moves(t, "put", "idle")
      PROVE  Entering' = Entering - 1 /\ Taken' = Taken - 1
  <2>1. Entering' = CountAt(G("idle"), E) /\ Taken' = CountAt(G("idle"), T)
    BY <1>9 DEF Moves, Entering, Taken
  <2>2. CountAt(G("idle"), E) = Entering - 1 /\ CountAt(G("idle"), T) = Taken - 1
    BY <1>2, <1>3, <1>9 DEF Moves
  <2>3. QED
    BY <2>1, <2>2
<1> QED
  BY <1>4, <1>5, <1>6, <1>7, <1>8, <1>9

(* Held is a function of both queues and the worker's place.               *)
LEMMA HeldStays ==
  ASSUME UNCHANGED <<queue_, tmp_queue, wpc>>
  PROVE  Held' = Held
  BY DEF Held

(* The steps of Execute keep the counter and the backlog: a call goes on   *)
(* only if the increment it made itself stayed within queue_threshold      *)
(* (guard_thread_executor.cc:133-141).                                     *)
LEMMA CallKeeps ==
  ASSUME IInv, CounterInv, BacklogInv, NEW t \in Threads,
         (\E k \in Tasks : ExecuteCheck(t, k)) \/ ExecuteStep(t)
  PROVE  CounterInv' /\ BacklogInv'
<1>1. Entering \in Nat /\ Taken \in Nat /\ Held \in Int /\ queue_task_num_ \in Int
      /\ QueueThreshold \in Int
  BY CountType, HeldType, OptionsAssumption
  DEF IInv, TypeOK, Entering, Taken
<1>2. ASSUME NEW k \in Tasks, ExecuteCheck(t, k) PROVE CounterInv' /\ BacklogInv'
  <2>1. Held' = Held /\ queue_task_num_' = queue_task_num_
    BY <1>2, HeldStays DEF ExecuteCheck, CallAt, lockedVars, workerVars
  <2>2. Moves(t, "idle", "count")
    BY <1>2 DEF Moves, ExecuteCheck, CallAt
  <2>3. Entering' = Entering /\ Taken' = Taken
    BY <2>2, CallMoves DEF IInv
  <2>4. QED
    BY <2>1, <2>3 DEF CounterInv, BacklogInv
<1>3. CASE ExecuteCount(t)
  <2>1. Held' = Held /\ queue_task_num_' = queue_task_num_ + 1
    BY <1>3, HeldStays DEF ExecuteCount, CallAt, lockedVars, workerVars
  <2>2. CASE OverThreshold(queue_task_num_')
    <3>1. Moves(t, "count", "undo")
      BY <1>3, <2>2 DEF Moves, ExecuteCount, CallAt
    <3>2. Entering' = Entering + 1 /\ Taken' = Taken
      BY <3>1, CallMoves DEF IInv
    <3>3. QED
      BY <1>1, <2>1, <3>2 DEF CounterInv, BacklogInv
  <2>3. CASE ~OverThreshold(queue_task_num_')
    <3>1. Moves(t, "count", "lock")
      BY <1>3, <2>3 DEF Moves, ExecuteCount, CallAt
    <3>2. Entering' = Entering + 1 /\ Taken' = Taken + 1
      BY <3>1, CallMoves DEF IInv
    <3>3. Taken <= Entering
      BY CountSubset DEF Entering, Taken
    <3>4. queue_task_num_ + 1 <= QueueThreshold
      BY <1>1, <2>1, <2>3 DEF OverThreshold
    <3>5. Held + Entering <= queue_task_num_
      BY DEF CounterInv
    <3>6. Held + (Taken + 1) <= QueueThreshold
      BY <1>1, <3>3, <3>4, <3>5
    <3>7. QED
      BY <1>1, <2>1, <3>2, <3>6 DEF CounterInv, BacklogInv
  <2>4. QED
    BY <2>2, <2>3
<1>4. CASE ExecuteUndo(t)
  <2>1. Held' = Held /\ queue_task_num_' = queue_task_num_ - 1
    BY <1>4, HeldStays DEF ExecuteUndo, CallAt, lockedVars, workerVars
  <2>2. Moves(t, "undo", "idle")
    BY <1>4 DEF Moves, ExecuteUndo, CallAt, ExecuteReturns
  <2>3. Entering' = Entering - 1 /\ Taken' = Taken
    BY <2>2, CallMoves DEF IInv
  <2>4. QED
    BY <1>1, <2>1, <2>3 DEF CounterInv, BacklogInv
<1>5. CASE ExecuteLock(t)
  <2>1. Held' = Held /\ queue_task_num_' = queue_task_num_
    BY <1>5, HeldStays DEF ExecuteLock, CallAt, workerVars
  <2>2. Moves(t, "lock", "put")
    BY <1>5 DEF Moves, ExecuteLock, CallAt
  <2>3. Entering' = Entering /\ Taken' = Taken
    BY <2>2, CallMoves DEF IInv
  <2>4. QED
    BY <2>1, <2>3 DEF CounterInv, BacklogInv
<1>6. CASE ExecutePut(t)
  <2>1. Held' = Held + 1 /\ queue_task_num_' = queue_task_num_
    <3>1. /\ queue_' = Append(queue_, arg[t]) /\ tmp_queue' = tmp_queue
          /\ queue_task_num_' = queue_task_num_
      BY <1>6 DEF ExecutePut, CallAt
    <3>2. wpc' = wpc \/ (wpc = "wait" /\ wpc' = "lock")
      BY <1>6 DEF ExecutePut, CallAt, NotifyOne
    <3>3. pc[t] = "put" /\ arg[t] \in Tasks
      BY <1>6 DEF ExecutePut, CallAt, IInv, PlaceInv
    <3>4. Len(queue_') = Len(queue_) + 1
      BY <3>1, <3>3, AppendProperties DEF IInv, TypeOK
    <3>5. Len(queue_) \in Nat /\ Len(tmp_queue) \in Nat
      BY DEF IInv, TypeOK
    <3>6. QED
      BY <3>1, <3>2, <3>4, <3>5 DEF Held
  <2>2. Moves(t, "put", "idle")
    BY <1>6 DEF Moves, ExecutePut, CallAt, ExecuteReturns
  <2>3. Entering' = Entering - 1 /\ Taken' = Taken - 1
    BY <2>2, CallMoves DEF IInv
  <2>4. QED
    BY <1>1, <2>1, <2>3 DEF CounterInv, BacklogInv
<1> QED
  BY <1>2, <1>3, <1>4, <1>5, <1>6 DEF ExecuteStep

(* The counter starts at zero, with nothing held.                          *)
LEMMA InitCounters == Init => CounterInv /\ BacklogInv
<1> SUFFICES ASSUME Init PROVE CounterInv /\ BacklogInv
  OBVIOUS
<1>1. Held = 0 /\ queue_task_num_ = 0
  BY DEF Init, Held
<1>2. \A S : "idle" \notin S => CountAt(pc, S) = 0
  BY FS_EmptySet DEF Init, CountAt
<1>3. Entering = 0 /\ Taken = 0
  BY <1>2 DEF Entering, Taken
<1> QED
  BY <1>1, <1>3, OptionsAssumption DEF CounterInv, BacklogInv

(* Every step keeps the counter and the backlog in order.                  *)
LEMMA CountersStep ==
  IInv /\ IInv' /\ CounterInv /\ BacklogInv /\ [Next]_vars
    => CounterInv' /\ BacklogInv'
  BY WorkerSettles, SettlesKeeps, CallKeeps DEF Next

(* queue_task_num_ counts every task held and every call on its way in,    *)
(* and exactly those as long as no task throws, for any number of callers  *)
(* (guard_thread_executor.cc:78, 92, 133, 139).                            *)
THEOREM CounterNeverUndercounts == Spec => []CounterCovers
<1>1. Init => CounterInv /\ BacklogInv
  BY InitCounters
<1>2. CounterInv <=> CounterCovers
  BY CounterIsCount
<1> QED
  BY <1>1, <1>2, CountersStep, Invariance, PTL DEF Spec

(* The executor never holds more than queue_threshold tasks, although the  *)
(* check and the emplace are separate steps (guard_thread_executor.cc:     *)
(* 133-150).                                                               *)
THEOREM BacklogStaysBounded == Spec => []BoundedBacklog
<1>1. Init => CounterInv /\ BacklogInv
  BY InitCounters
<1>2. BacklogInv <=> BoundedBacklog
  BY CounterIsCount
<1> QED
  BY <1>1, <1>2, CountersStep, Invariance, PTL DEF Spec

-----------------------------------------------------------------------------
(* A step that moves no task and leaves task() neither entered nor left.   *)
Quiet ==
  /\ UNCHANGED <<queue_, tmp_queue, draining, finished>>
  /\ Begun' <=> Begun
  /\ wpc' = "run" <=> wpc = "run"

(* A quiet step changes nothing that SerialExecutor can see.               *)
LEMMA QuietStutters == Quiet => UNCHANGED SE!vars
<1> SUFFICES ASSUME Quiet PROVE UNCHANGED SE!vars
  OBVIOUS
<1>1. ActiveQueue' = ActiveQueue
  BY DEF Quiet, ActiveQueue
<1>2. Pending' = Pending
  BY <1>1 DEF Quiet, Pending
<1>3. Running' = Running
  BY <1>1 DEF Quiet, Running
<1> QED
  BY <1>2, <1>3 DEF Quiet, SE!vars

(* All steps but emplace, the swap, the pop, the entry of the drain, and   *)
(* the beginning and the end of a task are quiet.                          *)
LEMMA QuietSteps ==
  ASSUME IInv,
         \/ Initialize \/ InitializeBadOptions \/ Start \/ Destroy
         \/ \E t \in Stoppers : ShutdownExchange(t) \/ ShutdownNotify(t)
         \/ ShutdownJoin
         \/ \E t \in Threads : \/ \E k \in Tasks : ExecuteCheck(t, k)
                               \/ ExecuteCount(t) \/ ExecuteUndo(t)
                               \/ ExecuteLock(t)
         \/ WorkerLock \/ WorkerBlock \/ SpuriousWakeup \/ WorkerDecrement
         \/ QueueRaceCrash \/ UNCHANGED vars
  PROVE  Quiet
<1> USE DEF Quiet, Begun, ownerVars, workerVars, callVars, lockedVars,
            ghostVars
<1>1. CASE Initialize
  BY <1>1 DEF Initialize, IInv, PlaceInv
<1>2. CASE InitializeBadOptions
  BY <1>2 DEF InitializeBadOptions, ShutdownAt
<1>3. CASE Start
  BY <1>3 DEF Start, OwnerCalls, ShutdownAt
<1>4. CASE Destroy
  BY <1>4 DEF Destroy, OwnerCalls, ShutdownAt
<1>5. ASSUME NEW t \in Stoppers, ShutdownExchange(t) PROVE Quiet
  BY <1>5 DEF ShutdownExchange, ShutdownCalledBy, WorkerAt, OwnerCalls,
              ShutdownAt,
              AlreadyShut
<1>6. ASSUME NEW t \in Stoppers, ShutdownNotify(t) PROVE Quiet
  BY <1>6 DEF ShutdownNotify, ShutdownAt, NotifyOne
<1>7. CASE ShutdownJoin
  BY <1>7 DEF ShutdownJoin, ShutdownAt
<1>8. ASSUME NEW t \in Threads, NEW k \in Tasks, ExecuteCheck(t, k)
     PROVE  Quiet
  BY <1>8 DEF ExecuteCheck, CallAt, MayCall
<1>9. ASSUME NEW t \in Threads, ExecuteCount(t) PROVE Quiet
  BY <1>9 DEF ExecuteCount, CallAt
<1>10. ASSUME NEW t \in Threads, ExecuteUndo(t) PROVE Quiet
  BY <1>10 DEF ExecuteUndo, CallAt, ExecuteReturns
<1>11. ASSUME NEW t \in Threads, ExecuteLock(t) PROVE Quiet
  BY <1>11 DEF ExecuteLock, CallAt
<1>12. CASE WorkerLock
  BY <1>12 DEF WorkerLock, WorkerAt
<1>13. CASE WorkerBlock
  BY <1>13 DEF WorkerBlock, WorkerAt
<1>14. CASE SpuriousWakeup
  BY <1>14 DEF SpuriousWakeup, WorkerAt
<1>15. CASE WorkerDecrement
  BY <1>15 DEF WorkerDecrement, WorkerAt
<1>16. CASE QueueRaceCrash
  BY <1>16 DEF QueueRaceCrash
<1>17. CASE UNCHANGED vars
  BY <1>17 DEF vars
<1> QED
  BY <1>1, <1>2, <1>3, <1>4, <1>5, <1>6, <1>7, <1>8, <1>9, <1>10, <1>11,
     <1>12, <1>13, <1>14, <1>15, <1>16, <1>17

(* The head and the tail of a concatenation.                               *)
LEMMA ConcatHead ==
  ASSUME NEW S, NEW r \in Seq(S), NEW s \in Seq(S), r # <<>>
  PROVE  Head(r \o s) = Head(r) /\ Tail(r \o s) = Tail(r) \o s /\ r \o s # <<>>
  OBVIOUS

(* Appending to the second part of a concatenation.                        *)
LEMMA AppendConcat ==
  ASSUME NEW S, NEW r \in Seq(S), NEW s \in Seq(S), NEW k \in S
  PROVE  r \o Append(s, k) = Append(r \o s, k)
  OBVIOUS

(* The part of the active queue that was not begun.                        *)
Rest == IF Begun THEN Tail(ActiveQueue) ELSE ActiveQueue

(* The types of the queues and of what the refinement makes of them.       *)
LEMMA QueueTypes ==
  ASSUME IInv
  PROVE  /\ queue_ \in Seq(Tasks) /\ tmp_queue \in Seq(Tasks)
         /\ ActiveQueue \in Seq(Tasks) /\ Rest \in Seq(Tasks)
         /\ Begun => Head(ActiveQueue) \in Tasks
         /\ Pending = IF draining THEN Rest ELSE Rest \o queue_
<1>1. queue_ \in Seq(Tasks) /\ tmp_queue \in Seq(Tasks)
  BY DEF IInv, TypeOK
<1>2. ActiveQueue \in Seq(Tasks)
  BY <1>1 DEF ActiveQueue
<1>3. Begun => ActiveQueue # <<>>
  BY DEF IInv, PlaceInv
<1>4. Rest \in Seq(Tasks) /\ (Begun => Head(ActiveQueue) \in Tasks)
  BY <1>2, <1>3, HeadTailProperties DEF Rest
<1>5. Pending = IF draining THEN Rest ELSE Rest \o queue_
  BY DEF Pending, Rest
<1> QED
  BY <1>1, <1>2, <1>4, <1>5

(* emplace is Submit.                                                      *)
LEMMA PutSubmits ==
  ASSUME IInv, NEW t \in Threads, ExecutePut(t)
  PROVE  SE!Submit(arg[t])
<1>1. arg[t] \in Tasks /\ queue_' = Append(queue_, arg[t])
  BY DEF ExecutePut, CallAt, IInv, PlaceInv
<1>2. UNCHANGED <<tmp_queue, draining, finished>>
  BY DEF ExecutePut, CallAt, ghostVars
<1>3. (Begun' <=> Begun) /\ (wpc' = "run" <=> wpc = "run")
  BY DEF ExecutePut, CallAt, NotifyOne, Begun
<1>4. Begun => ActiveQueue # <<>>
  BY DEF IInv, PlaceInv
<1>5. Pending' = Append(Pending, arg[t])
  <2>1. CASE ~draining
    <3>1. Rest' = Rest
      BY <1>2, <1>3, <2>1 DEF Rest, ActiveQueue
    <3>2. Pending' = Rest \o Append(queue_, arg[t])
      BY <1>1, <1>2, <2>1, <3>1 DEF Pending, Rest
    <3>3. /\ Pending = Rest \o queue_
          /\ Rest \in Seq(Tasks) /\ queue_ \in Seq(Tasks)
      BY <2>1, QueueTypes
    <3>4. Rest \o Append(queue_, arg[t]) = Append(Rest \o queue_, arg[t])
      BY <1>1, <3>3, AppendConcat
    <3>5. QED
      BY <3>2, <3>3, <3>4
  <2>2. CASE draining
    <3>1. Begun => Tail(queue_') = Append(Tail(queue_), arg[t])
      BY <1>1, <1>4, <2>2, QueueTypes, HeadTailAppend DEF ActiveQueue
    <3>2. QED
      BY <1>1, <1>2, <1>3, <2>2, <3>1 DEF Pending, ActiveQueue
  <2>3. QED
    BY <2>1, <2>2
<1>6. Running' = Running
  <2>1. Begun => Head(ActiveQueue') = Head(ActiveQueue)
    BY <1>1, <1>2, <1>4, QueueTypes, HeadTailAppend DEF ActiveQueue
  <2>2. QED
    BY <1>3, <2>1 DEF Running, Begun
<1> QED
  BY <1>2, <1>5, <1>6 DEF SE!Submit

(* Entering task() is Begin, leaving it is End.                            *)
LEMMA NextBegins ==
  ASSUME IInv, WorkerNext
  PROVE  SE!Begin \/ UNCHANGED SE!vars
<1>1. wpc = "next" /\ UNCHANGED <<queue_, tmp_queue, draining, finished>>
  BY DEF WorkerNext, WorkerAt, lockedVars, ghostVars
<1>2. CASE ActiveQueue = <<>>
  <2>1. Quiet
    BY <1>1, <1>2 DEF WorkerNext, WorkerAt, Quiet, Begun
  <2>2. QED
    BY <2>1, QuietStutters
<1>3. CASE ActiveQueue # <<>>
  <2>1. wpc' = "run" /\ ActiveQueue' = ActiveQueue
    BY <1>1, <1>3 DEF WorkerNext, WorkerAt, ActiveQueue
  <2>2. /\ Pending = IF draining THEN ActiveQueue ELSE ActiveQueue \o queue_
        /\ Pending' = IF draining THEN Tail(ActiveQueue)
                      ELSE Tail(ActiveQueue) \o queue_
    BY <1>1, <2>1 DEF Pending, Begun
  <2>3. /\ Head(Pending) = Head(ActiveQueue)
        /\ Pending' = Tail(Pending)
        /\ Pending # <<>>
    BY <1>3, <2>2, QueueTypes, ConcatHead
  <2>4. Running = NoTask /\ Running' = Head(ActiveQueue)
    BY <1>1, <2>1 DEF Running
  <2>5. QED
    BY <1>1, <2>3, <2>4 DEF SE!Begin
<1> QED
  BY <1>2, <1>3

LEMMA TaskCompletes ==
  ASSUME IInv, TaskEnds \/ ShutdownSelfJoin
  PROVE  SE!End
<1>1. /\ wpc = "run" /\ wpc' \in {"pop", "dec"}
      /\ UNCHANGED <<queue_, tmp_queue, draining>>
      /\ finished' = finished \cup {Head(ActiveQueue)}
  BY DEF TaskEnds, WorkerAt, AfterTask, ShutdownSelfJoin, ShutdownAt,
         lockedVars, IInv, TypeOK,
         PlaceInv, Stoppers
<1>2. Running = Head(ActiveQueue) /\ Running' = NoTask
  BY <1>1 DEF Running
<1>3. Running # NoTask
  BY <1>1, <1>2, QueueTypes, TasksAssumption DEF Begun
<1>4. ActiveQueue' = ActiveQueue
  BY <1>1 DEF ActiveQueue
<1>5. Pending' = Pending
  BY <1>1, <1>4 DEF Pending, Begun
<1> QED
  BY <1>1, <1>2, <1>3, <1>5 DEF SE!End

(* The swap, the change to the drain and the pop move no task past another.*)
LEMMA WorkerMoves ==
  ASSUME IInv, WorkerLoop \/ WorkerPredicate \/ WorkerPop
  PROVE  UNCHANGED SE!vars
<1>1. CASE WorkerLoop
  <2>1. tmp_queue = <<>> /\ ~Begun /\ ~Begun' /\ ~draining
    BY <1>1 DEF WorkerLoop, WorkerAt, IInv, PlaceInv, Begun
  <2>2. UNCHANGED <<queue_, tmp_queue, finished>>
    BY <1>1 DEF WorkerLoop, WorkerAt, lockedVars, ghostVars
  <2>3. Pending = queue_ /\ Pending' = queue_
    BY <2>1, <2>2, QueueTypes, ConcatEmptySeq DEF Pending, ActiveQueue
  <2>4. Running' = Running
    BY <2>1 DEF Running, Begun
  <2>5. QED
    BY <2>2, <2>3, <2>4 DEF SE!vars
<1>2. CASE WorkerPredicate
  <2>1. /\ tmp_queue = <<>> /\ ~Begun /\ ~Begun' /\ ~draining
        /\ UNCHANGED <<draining, finished>>
        /\ \/ tmp_queue' = queue_ /\ queue_' = <<>>
           \/ UNCHANGED <<tmp_queue, queue_>>
    BY <1>2 DEF WorkerPredicate, WorkerAt, IInv, PlaceInv, Begun, ghostVars
  <2>2. Pending = queue_ /\ Pending' = queue_
    BY <2>1, QueueTypes, ConcatEmptySeq DEF Pending, ActiveQueue
  <2>3. Running' = Running
    BY <2>1 DEF Running, Begun
  <2>4. QED
    BY <2>1, <2>2, <2>3 DEF SE!vars
<1>3. CASE WorkerPop
  <2>1. wpc = "pop" /\ wpc' = "next" /\ UNCHANGED <<draining, finished>>
    BY <1>3 DEF WorkerPop, WorkerAt, ghostVars
  <2>2. /\ draining => queue_' = Tail(queue_) /\ tmp_queue' = tmp_queue
        /\ ~draining => tmp_queue' = Tail(tmp_queue) /\ queue_' = queue_
    BY <1>3 DEF WorkerPop, WorkerAt
  <2>3. Pending' = Pending
    BY <2>1, <2>2 DEF Pending, Begun, ActiveQueue
  <2>4. Running' = Running
    BY <2>1 DEF Running
  <2>5. QED
    BY <2>1, <2>3, <2>4 DEF SE!vars
<1> QED
  BY <1>1, <1>2, <1>3

(* Every step is a step of SerialExecutor or invisible to it.              *)
LEMMA StepRefines == IInv /\ [Next]_vars => [SE!Next]_SE!vars
<1> SUFFICES ASSUME IInv, [Next]_vars PROVE [SE!Next]_SE!vars
  OBVIOUS
<1>1. ASSUME NEW t \in Threads, ExecutePut(t) PROVE SE!Next
  <2>1. arg[t] \in Tasks
    BY <1>1 DEF ExecutePut, CallAt, IInv, PlaceInv
  <2>2. QED
    BY <1>1, <2>1, PutSubmits DEF SE!Next
<1>2. CASE WorkerNext
  BY <1>2, NextBegins DEF SE!Next
<1>3. CASE TaskEnds \/ ShutdownSelfJoin
  BY <1>3, TaskCompletes DEF SE!Next
<1>4. CASE WorkerLoop \/ WorkerPredicate \/ WorkerPop
  BY <1>4, WorkerMoves
<1>5. CASE Quiet
  BY <1>5, QuietStutters
<1> QED
  BY <1>1, <1>2, <1>3, <1>4, <1>5, QuietSteps
  DEF Next, ShutdownStep, ExecuteStep, WorkerStep

(* The constructed executor is an initial state of SerialExecutor.         *)
LEMMA InitRefines == Init => SE!Init
<1> SUFFICES ASSUME Init PROVE SE!Init
  OBVIOUS
<1>1. Pending = <<>>
  BY ConcatEmptySeq DEF Init, Pending, Begun, ActiveQueue
<1>2. Running = NoTask /\ finished = {}
  BY DEF Init, Running
<1> QED
  BY <1>1, <1>2 DEF SE!Init

(* The executor implements SerialExecutor: tasks run one at a time, each   *)
(* as often as it was taken in, in the order in which they were taken in   *)
(* (guard_thread_executor.cc:66-97, 149-151).                              *)
THEOREM ImplementsSerialExecutor == Spec => RunsInOrder
  BY InitRefines, StepRefines, Invariance, PTL DEF Spec, RunsInOrder,
                                                   SE!SafeSpec

-----------------------------------------------------------------------------
(* The executor when it is driven as ExecutorManager drives it, for any    *)
(* callers, tasks and queue_threshold.                                     *)

(* Initialize, Start unless a later executor fails to initialize, Shutdown *)
(* and the destructor, with nobody calling Execute when Shutdown begins    *)
(* and no task that calls Shutdown (executor_manager.cc:110-155).          *)
Driven ==
  /\ \A s \in Scripts :
       \/ s = <<"Initialize", "Start", "Shutdown", "Destroy">>
       \/ s = <<"Initialize", "Shutdown", "Destroy">>
  /\ ~LateCallers
  /\ Stopping = {}

(* How far Owner has come.                                                 *)
ScriptInv ==
  /\ state_ = "kPreInit" =>
       /\ wpc = "none" /\ ~joinable /\ spc[Owner] = "idle"
       /\ \/ script = <<"Initialize", "Start", "Shutdown", "Destroy">>
          \/ script = <<"Initialize", "Shutdown", "Destroy">>
  /\ state_ = "kInit" =>
       /\ spc[Owner] = "idle"
       /\ IF joinable
          THEN /\ wpc # "none"
               /\ \/ script = <<"Start", "Shutdown", "Destroy">>
                  \/ script = <<"Shutdown", "Destroy">>
          ELSE wpc = "none" /\ script \in {<<"Destroy">>, <<>>}
  /\ state_ = "kStart" =>
       /\ wpc # "none" /\ joinable /\ spc[Owner] = "idle"
       /\ script = <<"Shutdown", "Destroy">>
  /\ state_ = "kShutdown" =>
       /\ wpc # "none"
       /\ IF spc[Owner] = "idle"
          THEN ~joinable /\ wpc = "exited" /\ script \in {<<"Destroy">>, <<>>}
          ELSE joinable /\ script = <<"Destroy">>

(* When no call of Execute is on its way, and none can begin.              *)
QuietInv ==
  /\ alive
  /\ draining \/ wpc = "exited" => state_ = "kShutdown"
  /\ wpc = "exited" => draining /\ queue_ = <<>> /\ tmp_queue = <<>>
  /\ state_ = "kShutdown" \/ wpc = "none" => \A c \in Callers : pc[c] = "idle"
  /\ \A t \in Threads : pc[t] = "idle" => arg[t] = NoTask

DInv == IInv /\ ScriptInv /\ QuietInv

-----------------------------------------------------------------------------
(* The scripts, call by call.                                              *)
LEMMA Scripted ==
  /\ Head(<<"Initialize", "Start", "Shutdown", "Destroy">>) = "Initialize"
  /\ Tail(<<"Initialize", "Start", "Shutdown", "Destroy">>)
       = <<"Start", "Shutdown", "Destroy">>
  /\ Head(<<"Initialize", "Shutdown", "Destroy">>) = "Initialize"
  /\ Tail(<<"Initialize", "Shutdown", "Destroy">>) = <<"Shutdown", "Destroy">>
  /\ Head(<<"Start", "Shutdown", "Destroy">>) = "Start"
  /\ Tail(<<"Start", "Shutdown", "Destroy">>) = <<"Shutdown", "Destroy">>
  /\ Head(<<"Shutdown", "Destroy">>) = "Shutdown"
  /\ Tail(<<"Shutdown", "Destroy">>) = <<"Destroy">>
  /\ Head(<<"Destroy">>) = "Destroy"
  /\ Tail(<<"Destroy">>) = <<>>
OBVIOUS

(* Owner makes its calls in their order.                                   *)
LEMMA CallsInOrder ==
  ASSUME DInv, script # <<>>, spc[Owner] = "idle"
  PROVE  /\ Head(script) = "Initialize" =>
              /\ state_ = "kPreInit"
              /\ Tail(script) \in {<<"Start", "Shutdown", "Destroy">>,
                                   <<"Shutdown", "Destroy">>}
         /\ Head(script) = "Start" =>
              /\ state_ = "kInit" /\ joinable
              /\ Tail(script) = <<"Shutdown", "Destroy">>
         /\ Head(script) = "Shutdown" =>
              /\ state_ \in {"kInit", "kStart"} /\ joinable
              /\ Tail(script) = <<"Destroy">>
         /\ Head(script) = "Destroy" =>
              /\ state_ \in {"kInit", "kShutdown"} /\ ~joinable
              /\ Tail(script) = <<>>
<1> USE Scripted DEF DInv, ScriptInv
<1>1. CASE state_ = "kPreInit"
  BY <1>1
<1>2. CASE state_ = "kInit"
  BY <1>2
<1>3. CASE state_ = "kStart"
  BY <1>3
<1>4. CASE state_ = "kShutdown"
  BY <1>4
<1> QED
  BY <1>1, <1>2, <1>3, <1>4 DEF IInv, TypeOK, State

LEMMA DrivenInit == ASSUME Driven PROVE Init => ScriptInv /\ QuietInv
BY DEF Driven, Init, ScriptInv, QuietInv, Stoppers, Threads

(* The calls of Owner come in the order of its script.                     *)
LEMMA OwnerStep ==
  ASSUME Driven, DInv,
         \/ Initialize \/ InitializeBadOptions \/ Start \/ Destroy
         \/ \E t \in Stoppers : ShutdownExchange(t) \/ ShutdownStep(t)
  PROVE  ScriptInv' /\ QuietInv'
<1> USE DEF DInv, IInv, TypeOK, PlaceInv, ScriptInv, QuietInv, ownerVars,
            workerVars, callVars, lockedVars, ghostVars, State, Stoppers
<1>1. spc[Worker] = "idle" /\ Owner # Worker
      /\ spc[Owner] \in {"idle", "notify", "join"}
  BY ThreadsAssumption DEF Driven
<1>2. CASE Initialize
  BY <1>2, CallsInOrder DEF Initialize, OwnerCalls, ShutdownAt
<1>3. CASE InitializeBadOptions
  BY <1>3, CallsInOrder DEF InitializeBadOptions, ShutdownAt
<1>4. CASE Start
  BY <1>4, CallsInOrder DEF Start, OwnerCalls, ShutdownAt
<1>5. CASE Destroy
  BY <1>5, CallsInOrder DEF Destroy, OwnerCalls, ShutdownAt
<1>6. ASSUME NEW t \in Stoppers, ShutdownExchange(t)
      PROVE  ScriptInv' /\ QuietInv'
  <2>1. t = Owner /\ OwnerCalls("Shutdown") /\ \A c \in Callers : pc[c] = "idle"
    BY <1>6 DEF ShutdownExchange, ShutdownCalledBy, CallersQuiet, Driven
  <2>2. state_ \in {"kInit", "kStart"} /\ joinable /\ script' = <<"Destroy">>
    BY <2>1, CallsInOrder DEF OwnerCalls, ShutdownAt
  <2> QED
    BY <1>6, <2>1, <2>2 DEF ShutdownExchange, AlreadyShut
<1>7. ASSUME NEW t \in Stoppers, ShutdownNotify(t)
      PROVE  ScriptInv' /\ QuietInv'
  <2>1. t = Owner
    BY <1>1, <1>7 DEF ShutdownNotify, ShutdownAt
  <2> QED
    BY <1>7, <2>1 DEF ShutdownNotify, ShutdownAt, NotifyOne
<1>8. CASE ShutdownJoin
  BY <1>8 DEF ShutdownJoin, ShutdownAt
<1>9. ~ShutdownSelfJoin
  BY <1>1 DEF ShutdownSelfJoin, ShutdownAt
<1> QED
  BY <1>2, <1>3, <1>4, <1>5, <1>6, <1>7, <1>8, <1>9 DEF ShutdownStep

(* Execute is called by nobody after Shutdown but tasks.                   *)
LEMMA CallStep ==
  ASSUME DInv, Driven,
         \E t \in Threads :
           (\E k \in Tasks : ExecuteCheck(t, k)) \/ ExecuteStep(t)
  PROVE  ScriptInv' /\ QuietInv'
<1> USE DEF DInv, IInv, TypeOK, PlaceInv, ScriptInv, QuietInv, ownerVars,
            workerVars, callVars, lockedVars, ghostVars, Threads
<1>1. PICK t \in Threads :
        (\E k \in Tasks : ExecuteCheck(t, k)) \/ ExecuteStep(t)
  OBVIOUS
<1>2. ASSUME NEW k \in Tasks, ExecuteCheck(t, k)
      PROVE  ScriptInv' /\ QuietInv'
  BY <1>2, ThreadsAssumption DEF ExecuteCheck, CallAt, MayCall, Driven
<1>3. CASE ExecuteCount(t)
  BY <1>3, ThreadsAssumption DEF ExecuteCount, CallAt
<1>4. CASE ExecuteUndo(t)
  BY <1>4, ThreadsAssumption DEF ExecuteUndo, CallAt, ExecuteReturns
<1>5. CASE ExecuteLock(t)
  BY <1>5, ThreadsAssumption DEF ExecuteLock, CallAt
<1>6. CASE ExecutePut(t)
  BY <1>6, ThreadsAssumption DEF ExecutePut, CallAt, ExecuteReturns, NotifyOne
<1> QED
  BY <1>1, <1>2, <1>3, <1>4, <1>5, <1>6 DEF ExecuteStep

LEMMA WorkerStepKeeps ==
  ASSUME DInv,
         WorkerStep \/ SpuriousWakeup \/ QueueRaceCrash \/ UNCHANGED vars
  PROVE  ScriptInv' /\ QuietInv'
<1> USE DEF DInv, IInv, TypeOK, PlaceInv, ScriptInv, QuietInv, ownerVars,
            workerVars, callVars, lockedVars, ghostVars, WorkerAt
<1>1. CASE WorkerLoop
  BY <1>1 DEF WorkerLoop
<1>2. CASE WorkerLock
  BY <1>2 DEF WorkerLock
<1>3. CASE WorkerPredicate
  BY <1>3 DEF WorkerPredicate
<1>4. CASE WorkerBlock
  BY <1>4 DEF WorkerBlock
<1>5. CASE WorkerNext
  BY <1>5 DEF WorkerNext, ActiveQueue
<1>6. CASE TaskEnds
  BY <1>6 DEF TaskEnds, AfterTask
<1>7. CASE WorkerDecrement
  BY <1>7 DEF WorkerDecrement
<1>8. CASE WorkerPop
  BY <1>8 DEF WorkerPop
<1>9. CASE SpuriousWakeup
  BY <1>9 DEF SpuriousWakeup
<1>10. ~QueueRaceCrash
  BY DEF QueueRaceCrash, Racing
<1>11. CASE UNCHANGED vars
  BY <1>11 DEF vars
<1> QED
  BY <1>1, <1>2, <1>3, <1>4, <1>5, <1>6, <1>7, <1>8, <1>9, <1>10, <1>11
  DEF WorkerStep

LEMMA DrivenInvariance == ASSUME Driven PROVE Spec => []DInv
<1>1. Init => ScriptInv /\ QuietInv
  BY DrivenInit
<1>2. IInv /\ (ScriptInv /\ QuietInv) /\ [Next]_vars
        => (ScriptInv /\ QuietInv)'
  BY OwnerStep, CallStep, WorkerStepKeeps DEF DInv, Next
<1>3. IInv /\ (ScriptInv /\ QuietInv) => DInv
  BY DEF DInv
<1> QED
  BY <1>1, <1>2, <1>3, Invariance, PTL DEF Spec

-----------------------------------------------------------------------------
(* When Shutdown has joined the thread no task is left in either queue or  *)
(* in a call, whoever called Execute and however often until then          *)
(* (guard_thread_executor.cc:87, 119-123).                                 *)
THEOREM DrainsOnShutdown == ASSUME Driven PROVE Spec => []ShutdownDrains
<1>1. DInv => ShutdownDrains
  <2> SUFFICES ASSUME DInv, wpc # "none", ~joinable
               PROVE  wpc = "exited" /\ InSystem = {NoTask}
    BY DEF ShutdownDrains
  <2>1. wpc = "exited" /\ queue_ = <<>> /\ tmp_queue = <<>>
    BY DEF DInv, ScriptInv, QuietInv, IInv, TypeOK, State
  <2>2. \A t \in Threads : arg[t] = NoTask
    BY <2>1 DEF DInv, QuietInv, IInv, PlaceInv, Threads
  <2>3. DOMAIN arg = Threads /\ Worker \in Threads
    BY DEF DInv, IInv, TypeOK, Threads
  <2>4. Elems(arg) = {NoTask}
    BY <2>2, <2>3 DEF Elems
  <2>5. Elems(queue_) = {} /\ Elems(tmp_queue) = {}
    BY <2>1 DEF Elems
  <2> QED
    BY <2>1, <2>4, <2>5 DEF InSystem
<1> QED
  BY <1>1, DrivenInvariance, PTL

(* The destructor finds no thread and the drain has queue_ for itself      *)
(* (guard_thread_executor.h:21, 74).                                       *)
THEOREM NothingTerminates == ASSUME Driven PROVE Spec => []NeverTerminates
<1>1. DInv => NeverTerminates
  BY DEF DInv, QuietInv, NeverTerminates
<1> QED
  BY <1>1, DrivenInvariance, PTL

-----------------------------------------------------------------------------
(* The thread as ExecutorLifecycle sees it.                                *)
ThreadSeen ==
  IF wpc = "none" THEN "none"
  ELSE IF ~joinable THEN "joined"
  ELSE IF wpc = "exited" THEN "exited"
  ELSE "running"

(* Every step is a call of the life cycle, the return of the thread, its   *)
(* join, or nothing to ExecutorManager.                                    *)
LEMMA LifecycleStep ==
  ASSUME Driven, DInv, [Next]_vars
  PROVE  [L!Next]_(L!vars)
<1> USE DEF ownerVars, workerVars, callVars, lockedVars, ghostVars
<1>1. ASSUME UNCHANGED <<state_, ThreadSeen>> PROVE [L!Next]_(L!vars)
  BY <1>1 DEF L!vars, ThreadSeen
<1>2. ASSUME UNCHANGED <<state_, wpc, joinable>> PROVE [L!Next]_(L!vars)
  BY <1>1, <1>2 DEF ThreadSeen
<1>3. /\ spc[Worker] = "idle" /\ Owner # Worker
      /\ spc \in [{Owner, Worker} -> {"idle", "notify", "join"}]
      /\ joinable \in BOOLEAN /\ state_ \in State
      /\ wpc \in {"none", "loop", "lock", "pred", "block", "wait", "next",
                  "run", "dec", "pop", "exited"}
  BY ThreadsAssumption
  DEF Driven, DInv, IInv, TypeOK, PlaceInv, Stoppers
<1>4. CASE Initialize
  <2>1. state_ = "kPreInit"
    BY <1>4, CallsInOrder DEF Initialize, OwnerCalls, ShutdownAt
  <2>2. L!Initialize
    BY <1>4, <2>1 DEF Initialize, L!Initialize, L!MayLaunch, DInv, ScriptInv
  <2> QED
    BY <2>2 DEF L!Next
<1>5. CASE InitializeBadOptions
  <2>1. L!Initialize
    BY <1>5 DEF InitializeBadOptions, L!Initialize, L!MayLaunch, DInv,
                ScriptInv
  <2> QED
    BY <2>1 DEF L!Next
<1>6. CASE Start
  <2>1. state_ = "kInit"
    BY <1>6, CallsInOrder DEF Start, OwnerCalls, ShutdownAt
  <2>2. L!Start
    BY <1>6, <2>1 DEF Start, L!Start, L!MayLaunch
  <2> QED
    BY <2>2 DEF L!Next
<1>7. CASE Destroy
  BY <1>2, <1>7 DEF Destroy
<1>8. ASSUME NEW t \in Stoppers, ShutdownExchange(t) PROVE [L!Next]_(L!vars)
  <2>1. OwnerCalls("Shutdown")
    BY <1>8 DEF ShutdownExchange, ShutdownCalledBy, Driven
  <2>2. state_ \in {"kInit", "kStart"}
    BY <2>1, CallsInOrder DEF OwnerCalls, ShutdownAt
  <2>3. L!Shutdown
    BY <1>8, <2>2 DEF ShutdownExchange, L!Shutdown
  <2> QED
    BY <2>3 DEF L!Next
<1>9. ASSUME NotifyOne, UNCHANGED <<state_, joinable>>
      PROVE  [L!Next]_(L!vars)
  BY <1>1, <1>9 DEF NotifyOne, ThreadSeen
<1>10. ASSUME NEW t \in Stoppers, ShutdownNotify(t) PROVE [L!Next]_(L!vars)
  BY <1>9, <1>10 DEF ShutdownNotify
<1>11. CASE ShutdownJoin
  <2>1. state_ = "kShutdown" /\ joinable /\ wpc = "exited"
    BY <1>3, <1>11 DEF ShutdownJoin, ShutdownAt, DInv, ScriptInv, State
  <2>2. L!Join
    BY <1>11, <2>1 DEF ShutdownJoin, L!Join
  <2> QED
    BY <2>2 DEF L!Next
<1>12. ~ShutdownSelfJoin
  BY <1>3 DEF ShutdownSelfJoin, ShutdownAt
<1>13. ASSUME NEW t \in Threads,
              (\E k \in Tasks : ExecuteCheck(t, k)) \/ ExecuteStep(t)
       PROVE  [L!Next]_(L!vars)
  BY <1>2, <1>9, <1>13
  DEF ExecuteCheck, ExecuteStep, ExecuteCount, ExecuteUndo, ExecuteLock,
      ExecutePut
<1>14. CASE WorkerNext
  <2>1. CASE wpc' = "exited"
    <3>1. state_ = "kShutdown" /\ wpc = "next" /\ joinable
      BY <1>14, <2>1 DEF WorkerNext, WorkerAt, DInv, QuietInv, ScriptInv
    <3>2. L!Exit
      BY <1>14, <2>1, <3>1 DEF WorkerNext, L!Exit
    <3> QED
      BY <3>2 DEF L!Next
  <2>2. CASE wpc' # "exited"
    BY <1>1, <1>14, <2>2 DEF WorkerNext, WorkerAt, ThreadSeen
  <2> QED
    BY <2>1, <2>2
<1>15. CASE \/ WorkerLoop \/ WorkerLock \/ WorkerPredicate \/ WorkerBlock
            \/ TaskEnds \/ WorkerDecrement \/ WorkerPop \/ SpuriousWakeup
  <2>1. /\ wpc \notin {"none", "exited"} /\ wpc' \notin {"none", "exited"}
        /\ UNCHANGED <<state_, joinable>>
    BY <1>15 DEF WorkerLoop, WorkerLock, WorkerPredicate, WorkerBlock,
                 TaskEnds, AfterTask, WorkerDecrement, WorkerPop,
                 SpuriousWakeup, WorkerAt
  <2> QED
    BY <1>1, <2>1 DEF ThreadSeen
<1>16. CASE QueueRaceCrash
  BY <1>2, <1>16 DEF QueueRaceCrash
<1>17. CASE UNCHANGED vars
  BY <1>2, <1>17 DEF vars
<1> QED
  BY <1>4, <1>5, <1>6, <1>7, <1>8, <1>10, <1>11, <1>12, <1>13, <1>14, <1>15,
     <1>16, <1>17
  DEF Next, ShutdownStep, WorkerStep

(* Driven in the order of ExecutorManager, the executor keeps to the life  *)
(* cycle that ExecutorManager counts on, except that its thread returns    *)
(* in the end (guard_thread_executor.cc:44-126).                           *)
THEOREM KeepsLifecycleSafely == ASSUME Driven PROVE Spec => L!SafeSpec
<1>1. Init => L!Init
  BY DEF Init, L!Init
<1>2. DInv /\ [Next]_vars => [L!Next]_(L!vars)
  BY LifecycleStep
<1> QED
  BY <1>1, <1>2, DrivenInvariance, PTL DEF Spec, L!SafeSpec
=============================================================================
