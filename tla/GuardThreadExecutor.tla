------------------------ MODULE GuardThreadExecutor ------------------------
(***************************************************************************)
(* src/runtime/core/executor/guard_thread_executor: one worker thread that *)
(* runs the tasks other threads hand to Execute.                           *)
(*                                                                         *)
(* Threads: Owner drives the life cycle (ExecutorManager, on the main      *)
(* thread), each of Callers calls Execute, Worker is the thread that       *)
(* Initialize launches.  While Worker runs a task, the task itself may     *)
(* call Execute or Shutdown on the same executor.                          *)
(*                                                                         *)
(* A step is one access to state that threads share: an atomic operation   *)
(* on state_ or queue_task_num_, the acquisition of mutex_, or what is     *)
(* done under mutex_ up to its release.  The code that logs is left out.   *)
(***************************************************************************)
EXTENDS Integers, Sequences, FiniteSets

CONSTANTS
  Callers,         \* the threads that call Execute
  Owner,           \* the thread that calls Initialize, Start, Shutdown
  Worker,          \* *thread_ptr_
  NoThread,        \* holder of a free mutex_
  Tasks,           \* task objects; each is one std::function handed over
  NoTask,
  Throwing,        \* the tasks that end by throwing a std::exception
  Stopping,        \* the tasks that call Shutdown on their own executor
  Repeat,          \* the tasks that may be handed over again once finished
  QueueThreshold,  \* options_.queue_threshold
  Scripts,         \* the sequences of life-cycle calls Owner may make
  LateCallers      \* TRUE: Callers go on calling Execute during Shutdown

LifecycleCalls == {"Initialize", "Start", "Shutdown", "Destroy"}

ASSUME ThreadsAssumption ==
  /\ IsFiniteSet(Callers)
  /\ Owner \notin Callers \cup {Worker}
  /\ Worker \notin Callers
  /\ NoThread \notin Callers \cup {Owner, Worker}

ASSUME TasksAssumption ==
  /\ NoTask \notin Tasks
  /\ Throwing \subseteq Tasks
  /\ Stopping \subseteq Tasks
  /\ Repeat \subseteq Tasks

ASSUME OptionsAssumption ==
  /\ QueueThreshold \in Nat
  /\ Scripts \subseteq Seq(LifecycleCalls)
  /\ LateCallers \in BOOLEAN

Threads  == Callers \cup {Worker}    \* those that call Execute
Stoppers == {Owner, Worker}          \* those that call Shutdown

State == {"kPreInit", "kInit", "kStart", "kShutdown"}

VARIABLES
  state_,           \* std::atomic<State>
  queue_task_num_,  \* std::atomic_uint32_t
  mutex_,           \* the thread that holds it, or NoThread
  queue_,           \* std::queue<Task>, guarded by mutex_ (except in the drain)
  joinable,         \* thread_ptr_ && thread_ptr_->joinable()
  tmp_queue,        \* Worker's local queue
  wpc,              \* Worker's place in the thread function
  draining,         \* Worker is past the main loop, in "run all the left task"
  pc, arg,          \* Execute: each thread's place and its task
  spc,              \* Shutdown: place of Owner and Worker
  script,           \* the life-cycle calls Owner still has to make
  finished,         \* history: the tasks that ran to their end
  alive             \* FALSE once the process has died

ownerVars  == <<joinable, spc, script>>
workerVars == <<tmp_queue, wpc, draining>>
callVars   == <<pc, arg>>
lockedVars == <<mutex_, queue_>>
ghostVars  == <<finished, alive>>
vars == <<state_, queue_task_num_, lockedVars, ownerVars, workerVars, callVars,
          ghostVars>>

-----------------------------------------------------------------------------
(* The queue the worker's inner loop consumes: tmp_queue in the main loop, *)
(* queue_ itself in the loop after it.                                     *)
ActiveQueue == IF draining THEN queue_ ELSE tmp_queue

Elems(s) == {s[i] : i \in DOMAIN s}

InSystem == Elems(queue_) \cup Elems(tmp_queue) \cup Elems(arg)

Init ==
  /\ state_ = "kPreInit"
  /\ queue_task_num_ = 0
  /\ mutex_ = NoThread
  /\ queue_ = <<>>
  /\ joinable = FALSE
  /\ tmp_queue = <<>>
  /\ wpc = "none"
  /\ draining = FALSE
  /\ pc = [t \in Threads |-> "idle"]
  /\ arg = [t \in Threads |-> NoTask]
  /\ spc = [t \in Stoppers |-> "idle"]
  /\ script \in Scripts
  /\ finished = {}
  /\ alive = TRUE

(* Who is where; nobody is anywhere once the process has died.             *)
WorkerAt(place)      == alive /\ wpc = place
CallAt(t, place)     == alive /\ pc[t] = place
ShutdownAt(t, place) == alive /\ spc[t] = place

-----------------------------------------------------------------------------
(* Life cycle.                                                             *)

OwnerCalls(name) ==
  /\ ShutdownAt(Owner, "idle")
  /\ script # <<>>
  /\ Head(script) = name
  /\ script' = Tail(script)

(* The exchange on state_ happens before the check that may throw, so a    *)
(* rejected call has already overwritten state_.                           *)
Initialize ==
  /\ OwnerCalls("Initialize")
  /\ state_' = "kInit"
  /\ IF state_ = "kPreInit"
     THEN wpc' = "loop" /\ joinable' = TRUE
     ELSE UNCHANGED <<wpc, joinable>>
  /\ UNCHANGED <<queue_task_num_, lockedVars, spc, tmp_queue, draining,
                 callVars, ghostVars>>

(* The options do not decode: options_node.as<Options>() throws after the  *)
(* exchange and before the thread is made.  The exception leaves           *)
(* ExecutorManager::Initialize, which destroys the executor.               *)
InitializeBadOptions ==
  /\ ShutdownAt(Owner, "idle")
  /\ script # <<>> /\ Head(script) = "Initialize"
  /\ state_ = "kPreInit"
  /\ state_' = "kInit"
  /\ script' = <<"Destroy">>
  /\ UNCHANGED <<queue_task_num_, lockedVars, joinable, spc, workerVars,
                 callVars, ghostVars>>

Start ==
  /\ OwnerCalls("Start")
  /\ state_' = "kStart"
  /\ UNCHANGED <<queue_task_num_, lockedVars, joinable, spc, workerVars,
                 callVars, ghostVars>>

(* ~GuardThreadExecutor is defaulted: destroying thread_ptr_ while its     *)
(* thread is joinable is std::terminate.                                   *)
Destroy ==
  /\ OwnerCalls("Destroy")
  /\ alive' = ~joinable
  /\ UNCHANGED <<state_, queue_task_num_, lockedVars, joinable, spc,
                 workerVars, callVars, finished>>

(* With LateCallers = FALSE the users of the executor have stopped calling *)
(* it when Shutdown is called.                                             *)
CallersQuiet == LateCallers \/ \A c \in Callers : pc[c] = "idle"

ShutdownCalledBy(t) ==
  /\ CallersQuiet
  /\ \/ t = Owner /\ OwnerCalls("Shutdown")
     \/ /\ t = Worker /\ spc[Worker] = "idle" /\ pc[Worker] = "idle"
        /\ WorkerAt("run") /\ Head(ActiveQueue) \in Stopping
        /\ UNCHANGED script

(* Wrong: Shutdown has nothing to do unless Start was called.              *)
NotStarted == state_ # "kStart"

AlreadyShut == state_ = "kShutdown"

ShutdownExchange(t) ==
  /\ ShutdownCalledBy(t)
  /\ state_' = "kShutdown"
  /\ spc' = IF AlreadyShut THEN spc ELSE [spc EXCEPT ![t] = "notify"]
  /\ UNCHANGED <<queue_task_num_, lockedVars, joinable, workerVars, callVars,
                 ghostVars>>

(* Wrong: the notification is forgotten.                                   *)
NotifyNobody == wpc' = wpc

(* cond_.notify_one(): only Worker ever waits on cond_.                    *)
NotifyOne == wpc' = IF wpc = "wait" THEN "lock" ELSE wpc

(* Wrong: notifies without mutex_.                                         *)
ShutdownNotifyUnlocked(t) ==
  /\ ShutdownAt(t, "notify")
  /\ NotifyOne
  /\ spc' = [spc EXCEPT ![t] = "join"]
  /\ UNCHANGED <<state_, queue_task_num_, lockedVars, joinable, script,
                 tmp_queue, draining, callVars, ghostVars>>

ShutdownNotify(t) ==
  /\ ShutdownAt(t, "notify")
  /\ mutex_ = NoThread
  /\ NotifyOne
  /\ spc' = [spc EXCEPT ![t] = "join"]
  /\ UNCHANGED <<state_, queue_task_num_, lockedVars, joinable, script,
                 tmp_queue, draining, callVars, ghostVars>>

(* join() returns when the thread function has returned; thread_ptr_ is    *)
(* then reset.                                                             *)
ShutdownJoin ==
  /\ ShutdownAt(Owner, "join")
  /\ joinable => wpc = "exited"
  /\ joinable' = FALSE
  /\ spc' = [spc EXCEPT ![Owner] = "idle"]
  /\ UNCHANGED <<state_, queue_task_num_, lockedVars, script, workerVars,
                 callVars, ghostVars>>

(* A task that shuts its own executor down joins the thread it runs on:    *)
(* join() throws (resource deadlock would occur), the exception leaves     *)
(* Shutdown and the task, and the catch in the worker's loop takes it.     *)
ShutdownSelfJoin ==
  /\ ShutdownAt(Worker, "join")
  /\ spc' = [spc EXCEPT ![Worker] = "idle"]
  /\ wpc' = "pop"
  /\ finished' = finished \cup {Head(ActiveQueue)}
  /\ UNCHANGED <<state_, queue_task_num_, lockedVars, joinable, script,
                 tmp_queue, draining, callVars, alive>>

ShutdownStep(t) ==
  \/ ShutdownNotify(t)
  \/ t = Owner /\ ShutdownJoin
  \/ t = Worker /\ ShutdownSelfJoin

-----------------------------------------------------------------------------
(* Execute.  The check of state_ only logs: the call goes on whatever it   *)
(* loaded.  Only calls before Initialize has launched the worker are left  *)
(* out, which the code takes in as well, counted against the default of    *)
(* queue_threshold_: ExecutorManager, which makes the executor, gives it   *)
(* to nobody until then.                                                   *)
MayCall(t) ==
  IF t = Worker
  THEN wpc = "run" /\ spc[Worker] = "idle"
  ELSE wpc # "none" /\ (LateCallers \/ state_ # "kShutdown")

ExecuteCheck(t, k) ==
  /\ CallAt(t, "idle")
  /\ MayCall(t)
  /\ k \notin InSystem
  /\ k \notin finished \/ k \in Repeat
  /\ pc' = [pc EXCEPT ![t] = "count"]
  /\ arg' = [arg EXCEPT ![t] = k]
  /\ UNCHANGED <<state_, queue_task_num_, lockedVars, ownerVars, workerVars,
                 ghostVars>>

(* Wrong: off by one.                                                      *)
OverThresholdByOne(n) == n > QueueThreshold + 1

OverThreshold(n) == n > QueueThreshold

ExecuteCount(t) ==
  /\ CallAt(t, "count")
  /\ queue_task_num_' = queue_task_num_ + 1
  /\ pc' = [pc EXCEPT ![t] =
              IF OverThreshold(queue_task_num_') THEN "undo" ELSE "lock"]
  /\ UNCHANGED <<state_, lockedVars, ownerVars, workerVars, arg, ghostVars>>

ExecuteReturns(t) ==
  /\ pc' = [pc EXCEPT ![t] = "idle"]
  /\ arg' = [arg EXCEPT ![t] = NoTask]

(* "... the task will not be delivered."                                   *)
ExecuteUndo(t) ==
  /\ CallAt(t, "undo")
  /\ queue_task_num_' = queue_task_num_ - 1
  /\ ExecuteReturns(t)
  /\ UNCHANGED <<state_, lockedVars, ownerVars, workerVars, ghostVars>>

(* Wrong: the task is moved from before it is emplaced.                    *)
ExecuteLockMoved(t) ==
  /\ CallAt(t, "lock")
  /\ mutex_ = NoThread
  /\ mutex_' = t
  /\ pc' = [pc EXCEPT ![t] = "put"]
  /\ arg' = [arg EXCEPT ![t] = NoTask]
  /\ UNCHANGED <<state_, queue_task_num_, queue_, ownerVars, workerVars,
                 ghostVars>>

ExecuteLock(t) ==
  /\ CallAt(t, "lock")
  /\ mutex_ = NoThread
  /\ mutex_' = t
  /\ pc' = [pc EXCEPT ![t] = "put"]
  /\ UNCHANGED <<state_, queue_task_num_, queue_, ownerVars, workerVars, arg,
                 ghostVars>>

ExecutePut(t) ==
  /\ CallAt(t, "put")
  /\ queue_' = Append(queue_, arg[t])
  /\ NotifyOne
  /\ mutex_' = NoThread
  /\ ExecuteReturns(t)
  /\ UNCHANGED <<state_, queue_task_num_, ownerVars, tmp_queue, draining,
                 ghostVars>>

ExecuteStep(t) ==
  ExecuteCount(t) \/ ExecuteUndo(t) \/ ExecuteLock(t) \/ ExecutePut(t)

-----------------------------------------------------------------------------
(* The thread function.                                                    *)

(* Wrong: the thread function ends with the main loop.                     *)
WorkerLoopExits ==
  /\ WorkerAt("loop")
  /\ wpc' = IF state_ = "kShutdown" THEN "exited" ELSE "lock"
  /\ UNCHANGED <<state_, queue_task_num_, lockedVars, ownerVars, tmp_queue,
                 draining, callVars, ghostVars>>

WorkerLoop ==
  /\ WorkerAt("loop")
  /\ IF state_ = "kShutdown"
     THEN wpc' = "next" /\ draining' = TRUE
     ELSE wpc' = "lock" /\ UNCHANGED draining
  /\ UNCHANGED <<state_, queue_task_num_, lockedVars, ownerVars, tmp_queue,
                 callVars, ghostVars>>

WorkerLock ==
  /\ WorkerAt("lock")
  /\ mutex_ = NoThread
  /\ mutex_' = Worker
  /\ wpc' = "pred"
  /\ UNCHANGED <<state_, queue_task_num_, queue_, ownerVars, tmp_queue,
                 draining, callVars, ghostVars>>

(* Wrong: the predicate of cond_.wait forgets Shutdown.                    *)
WaitOverNoShutdown == queue_ # <<>>

(* The predicate of cond_.wait.                                            *)
WaitOver == queue_ # <<>> \/ state_ = "kShutdown"

(* Wrong: mutex_ is kept while the tasks run.                              *)
WorkerPredicateLocked ==
  /\ WorkerAt("pred")
  /\ IF WaitOver
     THEN tmp_queue' = queue_ /\ queue_' = <<>> /\ wpc' = "next"
     ELSE wpc' = "block" /\ UNCHANGED <<tmp_queue, queue_>>
  /\ UNCHANGED <<state_, queue_task_num_, mutex_, ownerVars, draining,
                 callVars, ghostVars>>

(* The predicate, and the swap and unlock once it holds.                   *)
WorkerPredicate ==
  /\ WorkerAt("pred")
  /\ IF WaitOver
     THEN /\ tmp_queue' = queue_
          /\ queue_' = <<>>
          /\ mutex_' = NoThread
          /\ wpc' = "next"
     ELSE wpc' = "block" /\ UNCHANGED <<tmp_queue, queue_, mutex_>>
  /\ UNCHANGED <<state_, queue_task_num_, ownerVars, draining, callVars,
                 ghostVars>>

(* cond_.wait releases mutex_ and blocks in one step.                      *)
WorkerBlock ==
  /\ WorkerAt("block")
  /\ mutex_' = NoThread
  /\ wpc' = "wait"
  /\ UNCHANGED <<state_, queue_task_num_, queue_, ownerVars, tmp_queue,
                 draining, callVars, ghostVars>>

SpuriousWakeup ==
  /\ WorkerAt("wait")
  /\ wpc' = "lock"
  /\ UNCHANGED <<state_, queue_task_num_, lockedVars, ownerVars, tmp_queue,
                 draining, callVars, ghostVars>>

WorkerNext ==
  /\ WorkerAt("next")
  /\ wpc' = IF ActiveQueue # <<>> THEN "run"
            ELSE IF draining THEN "exited" ELSE "loop"
  /\ UNCHANGED <<state_, queue_task_num_, lockedVars, ownerVars, tmp_queue,
                 draining, callVars, ghostVars>>

(* Wrong: the pop is skipped too when the task throws.                     *)
AfterTaskNoPop(k) == IF k \in Throwing THEN "next" ELSE "dec"

(* The task returns, or throws: then the decrement is skipped.             *)
AfterTask(k) == IF k \in Throwing THEN "pop" ELSE "dec"

TaskEnds ==
  /\ WorkerAt("run")
  /\ pc[Worker] = "idle"
  /\ spc[Worker] = "idle"
  /\ wpc' = AfterTask(Head(ActiveQueue))
  /\ finished' = finished \cup {Head(ActiveQueue)}
  /\ UNCHANGED <<state_, queue_task_num_, lockedVars, ownerVars, tmp_queue,
                 draining, callVars, alive>>

WorkerDecrement ==
  /\ WorkerAt("dec")
  /\ queue_task_num_' = queue_task_num_ - 1
  /\ wpc' = "pop"
  /\ UNCHANGED <<state_, lockedVars, ownerVars, tmp_queue, draining, callVars,
                 ghostVars>>

(* Wrong: the decrement is repeated after the catch.                       *)
WorkerPopCounts ==
  /\ WorkerAt("pop")
  /\ IF draining
     THEN queue_' = Tail(queue_) /\ UNCHANGED tmp_queue
     ELSE tmp_queue' = Tail(tmp_queue) /\ UNCHANGED queue_
  /\ queue_task_num_' = queue_task_num_ - 1
  /\ wpc' = "next"
  /\ UNCHANGED <<state_, mutex_, ownerVars, draining, callVars, ghostVars>>

WorkerPop ==
  /\ WorkerAt("pop")
  /\ IF draining
     THEN queue_' = Tail(queue_) /\ UNCHANGED tmp_queue
     ELSE tmp_queue' = Tail(tmp_queue) /\ UNCHANGED queue_
  /\ wpc' = "next"
  /\ UNCHANGED <<state_, queue_task_num_, mutex_, ownerVars, draining,
                 callVars, ghostVars>>

WorkerStep ==
  \/ WorkerLoop \/ WorkerLock \/ WorkerPredicate \/ WorkerBlock
  \/ WorkerNext \/ TaskEnds \/ WorkerDecrement \/ WorkerPop

(* Undefined behaviour: the drain reads and pops queue_ without mutex_     *)
(* while another thread, holding mutex_, is about to emplace.  Either the  *)
(* accesses fall one after the other (the actions above) or the process    *)
(* dies.                                                                   *)
Racing(c) == alive /\ draining /\ wpc # "exited" /\ pc[c] = "put"

QueueRaceCrash ==
  /\ \E c \in Callers : Racing(c)
  /\ alive' = FALSE
  /\ UNCHANGED <<state_, queue_task_num_, lockedVars, ownerVars, workerVars,
                 callVars, finished>>

-----------------------------------------------------------------------------
Next ==
  \/ Initialize \/ InitializeBadOptions \/ Start \/ Destroy
  \/ \E t \in Stoppers : ShutdownExchange(t) \/ ShutdownStep(t)
  \/ \E t \in Threads :
       (\E k \in Tasks : ExecuteCheck(t, k)) \/ ExecuteStep(t)
  \/ WorkerStep \/ SpuriousWakeup
  \/ QueueRaceCrash

Spec == Init /\ [][Next]_vars

(* Every thread that can go on does: the operating system runs runnable    *)
(* threads and mutex_ is held only for a few instructions.  A task calls   *)
(* Execute finitely often, then returns: strong fairness, as the end of a  *)
(* task is disabled during its calls.  Nothing makes Owner or Callers      *)
(* start a call, and no spurious wakeup is owed to anyone.                 *)
Fairness ==
  /\ WF_vars(WorkerStep)
  /\ SF_vars(TaskEnds)
  /\ \A t \in Threads : WF_vars(ExecuteStep(t))
  /\ \A t \in Stoppers : WF_vars(ShutdownStep(t))

FairSpec == Spec /\ Fairness

-----------------------------------------------------------------------------
(* Properties.                                                             *)

(* Types of the variables.                                                 *)
TypeOK ==
  /\ state_ \in State
  /\ queue_task_num_ \in Int
  /\ mutex_ \in Threads \cup {NoThread}
  /\ queue_ \in Seq(Tasks)
  /\ joinable \in BOOLEAN
  /\ tmp_queue \in Seq(Tasks)
  /\ wpc \in {"none", "loop", "lock", "pred", "block", "wait", "next", "run",
              "dec", "pop", "exited"}
  /\ draining \in BOOLEAN
  /\ pc \in [Threads -> {"idle", "count", "undo", "lock", "put"}]
  /\ arg \in [Threads -> Tasks \cup {NoTask}]
  /\ spc \in [Stoppers -> {"idle", "notify", "join"}]
  /\ script \in Seq(LifecycleCalls)
  /\ finished \subseteq Tasks
  /\ alive \in BOOLEAN

(* Tasks taken in and not yet counted out; the head of the active queue is *)
(* counted out (or never will be) before it is popped.                     *)
Held == Len(queue_) + Len(tmp_queue) - (IF wpc = "pop" THEN 1 ELSE 0)

CallsAt(S) == Cardinality({t \in Threads : pc[t] \in S})

(* queue_task_num_ never undercounts the tasks in both queues and the      *)
(* calls on their way in, and counts them exactly as long as no task ends  *)
(* by an exception (guard_thread_executor.cc:78, 92, 133, 139).            *)
CounterCovers ==
  LET counted == Held + CallsAt({"undo", "lock", "put"})
  IN  /\ queue_task_num_ >= counted
      /\ Throwing \cup Stopping = {} => queue_task_num_ = counted

(* The check against queue_threshold and the emplace are far apart, yet    *)
(* the tasks taken in never outnumber the threshold, whatever the          *)
(* interleaving of callers and worker (guard_thread_executor.cc:133-150).  *)
BoundedBacklog == Held + CallsAt({"lock", "put"}) <= QueueThreshold

(* Shutdown sets state_ outside mutex_, but notifies under it: the worker  *)
(* is never asleep, or about to sleep, with a task in queue_ or with a     *)
(* shutdown whose notification is already past (guard_thread_executor.cc:  *)
(* 70, 110-117, 149-151).                                                  *)
NoLostWakeup ==
  wpc \in {"block", "wait"} =>
    /\ queue_ = <<>>
    /\ state_ = "kShutdown" => \E t \in Stoppers : spc[t] = "notify"

(* "After Shutdown, Run all the left task": when Shutdown has joined the   *)
(* thread, no task handed to Execute is left anywhere                      *)
(* (guard_thread_executor.cc:87, 119-123).                                 *)
ShutdownDrains ==
  wpc # "none" /\ ~joinable => wpc = "exited" /\ InSystem = {NoTask}

(* Neither destroying the executor nor its drain kills the process, if the *)
(* callers and the life cycle follow the protocol of ExecutorManager       *)
(* (guard_thread_executor.h:21, 74).                                       *)
NeverTerminates == alive

(* A Shutdown that has begun returns (guard_thread_executor.cc:109-126).   *)
ShutdownReturns ==
  \A t \in Stoppers : spc[t] = "notify" ~> spc[t] = "idle"

(* A call of Execute returns, also one made by a task on the worker's own  *)
(* thread, as no lock is held while tasks run (guard_thread_executor.cc:   *)
(* 68-84, 149).  The mutex owes nobody its turn: a worker that is woken    *)
(* spuriously for ever could keep a caller out.                            *)
CallsReturn ==
  \A t \in Threads :
    (pc[t] = "count" ~> pc[t] = "idle") \/ []<><<SpuriousWakeup>>_vars

(* The executor keeps the promise of SerialExecutor: pending are the tasks *)
(* in both queues that were not begun, running is the one in task().       *)
Begun == wpc \in {"run", "dec", "pop"}

Pending ==
  LET rest == IF Begun THEN Tail(ActiveQueue) ELSE ActiveQueue
  IN  IF draining THEN rest ELSE rest \o queue_

Running == IF wpc = "run" THEN Head(ActiveQueue) ELSE NoTask

SE == INSTANCE SerialExecutor
        WITH pending <- Pending, running <- Running, completed <- finished

(* Tasks run one at a time, each as often as it was taken in, in the order *)
(* in which they were taken in (guard_thread_executor.cc:66-97, 149-151).  *)
RunsInOrder == SE!SafeSpec

(* The same, and every task taken in is run in the end.                    *)
RunsAllInOrder == SE!Spec

(* The executor as ExecutorManager knows it.                               *)
L == INSTANCE ExecutorLifecycle
       WITH state  <- state_,
            thread <- IF wpc = "none" THEN "none"
                      ELSE IF ~joinable THEN "joined"
                      ELSE IF wpc = "exited" THEN "exited"
                      ELSE "running"

(* Driven in the order of ExecutorManager, the executor keeps to the life  *)
(* cycle that ExecutorManager counts on: its worker returns if, and only   *)
(* if, it was shut down, whatever is queued or on its way then             *)
(* (guard_thread_executor.cc:44-126).                                      *)
KeepsLifecycle == L!Spec

(* "GuardThreadExecutor can only execute task when state is 'Start'"       *)
(* (guard_thread_executor.cc:130): no task enters queue_ before Start.     *)
TakesTasksOnlyOnceStarted ==
  [][Len(queue_') > Len(queue_) => state_ # "kInit"]_vars

(* "The number of tasks in the GuardThreadExecutor has reached the         *)
(* threshold" (guard_thread_executor.cc:135-140): a call is turned away    *)
(* only if the tasks taken in do reach it.                                 *)
RejectsOnlyWhenFull ==
  [][\A t \in Threads : pc[t] = "count" /\ pc'[t] = "undo" =>
       Held + CallsAt({"lock", "put"}) >= QueueThreshold]_vars
=============================================================================
