# A formal model of the ados runtime

`ados` is a runtime for robotics processes: `main` builds an `AdosCore`, which
reads a configuration file, makes a set of executors (threads that run tasks),
starts them, waits for a signal and shuts everything down in reverse. This
directory holds TLA+ models of that code, TLC configurations that check them
and TLAPS proofs about them. File names below are relative to
`src/runtime/core/executor/` unless they say otherwise.

## 1. Inventory

| Component | State | Operations | Interacts with |
|---|---|---|---|
| `GuardThreadExecutor` | `state_`, `queue_task_num_`, `mutex_`/`cond_`/`queue_`, `thread_ptr_`, the worker's `tmp_queue` | `Initialize` (launches the worker), `Start`, `Shutdown` (wakes and joins it), `Execute` | any thread calls `Execute`; tasks run on the worker and may call back |
| `TimeWheelExecutor` | `state_`, wheels (`timing_wheel_vec_`), overflow map (`timing_task_map_`, `timing_task_map_pos_`), `current_tick_count_` under `tick_mutex_`, `start_time_point_`, `timer_thread_ptr_` | `Initialize`, `Start` (launches `TimerLoop`), `Shutdown`, `ExecuteAt`, `Now`, `Execute` (logs only) | any thread calls `ExecuteAt`; tasks run on the timer thread and may call back; the system clock |
| `MainThreadExecutor` | `state_`, name, thread id | `Initialize`, `Start`, `Shutdown`; `Execute`, `ExecuteAt`, `Now` only log | the main thread |
| `ExecutorManager` | `state_`, `used_executor_names_`, `executor_map_` | `Initialize` (checks options, makes the executors), `Start`, `Shutdown` (reverse order); `GetExecutor` is declared, not defined | owns the executors; driven by `AdosCore` |
| `ConfiguratorManager` | `state_`, `root_options_node_` | `Initialize`, `Start`, `Shutdown`, `GetNodeOptionsByKey` | driven by `AdosCore` |
| `AdosCore` | `state_`, `shutdown_flag_`, `shutdown_promise_`, `shutdown_impl_flag_`, hooks | `Initialize`, `Start` (blocks until shut down), `Shutdown`, `EnterState` | owns both managers; `Shutdown` is called from a signal handler |
| `main` | `global_core_ptr` | `SignalHandler`, `main` | signals |
| `BlockQueue` (`src/utils/common`) | `queue_`, `running_flag_` under `mutex_`, `cond_` | `Enqueue`, `Dequeue`, `TryDequeue`, `Stop`, `Size`, `IsRunning` | producers and consumers; nothing in the runtime uses it yet |
| `thread_tool` (`src/utils/common`) | name, CPUs and policy of the calling thread | `SetNameForCurrentThread`, `BindCpuForCurrentThread`, `SetCpuSchedForCurrentThread` | each executor's thread calls them once; the kernel |
| `LoggerManager`, log tools | declared; `logger_manager.cc` is empty | | |
| time and string tools | none | conversions of time points | the timing wheel |

What makes each of them correct:

- **GuardThreadExecutor**: every accepted task runs exactly once, in order, one
  at a time; never more than `queue_threshold` tasks are held; the worker does
  not sleep while there is work or a shutdown; `Shutdown` returns, and returns
  only when every accepted task has run; a call returns also when made from a
  task; the destructor finds no running thread.
- **TimeWheelExecutor**: a task runs at its tick, neither early nor late, and
  not before its time point; no task is dropped by the cascade between
  wheels; `Now` does not run ahead of the clock (of both, a tick that `Shutdown`
  cuts short is excepted); `Shutdown` ends the thread.
- **BlockQueue**: no lost wakeup, nothing handed out twice, `Stop` releases
  every waiter.
- **thread_tool**: the thread of an executor can be told by its name, and runs
  on CPUs and under a policy that its own executor, or the main one, asked for.
- **life cycle (all five classes with a `state_`)**: the order
  `kPreInit -> kInit -> kStart -> kShutdown`, each transition once; here the
  exchange happens before the check, so a rejected call has already moved it.
- **ExecutorManager**: whatever was initialized is shut down, also when a later
  executor fails; names are unique.
- **AdosCore and main**: one signal, or several, at any moment lead to one
  orderly shutdown; `GetState` tells the truth about the executors.

Concurrency is confined to a few places: callers of `Execute`/`ExecuteAt`
against the executor's own thread and against the life-cycle calls of the main
thread; tasks that call back into their executor; signal handlers against
everything. Nothing is persisted and there is no network, so there is no crash
recovery and no message loss; failure means exceptions, in tasks and while the
runtime comes up. Each place where this is hard to test is listed in
`PROJECT.json` under `hazards`, with the properties that watch it, or, where
there is none, with the reason.

## 2. Modules

| Module | Models | Uses |
|---|---|---|
| `SerialExecutor` | abstract: the promise of `ExecutorBase::Execute` on one thread: pending, running, completed | |
| `TimerService` | abstract: the promise of `ExecuteAt`: each task in its tick, in the order of the calls, none dropped while it serves | |
| `ExecutorLifecycle` | abstract: what `ExecutorManager` and an executor expect of each other | |
| `Fifo` | abstract: the promise of a queue between threads that can be stopped | |
| `GuardThreadExecutor` | `guard_thread_executor.{h,cc}` | implements `SerialExecutor`, `ExecutorLifecycle` |
| `GuardThreadExecutorProofs` | its theorems, for any sequence of life-cycle calls and when driven as `ExecutorManager` drives it | `GuardThreadExecutor` |
| `TimeWheelExecutor` | `time_wheel_executor.{h,cc}` | implements `TimerService`, `ExecutorLifecycle` |
| `TimeWheelLemmas` | arithmetic of ticks and revolutions, and two inductions, stated without the model | |
| `TimeWheelExecutorProofs` | its types, the wheels as an odometer, the near tasks; any number of levels | `TimeWheelExecutor`, `TimeWheelLemmas` |
| `TimeWheelServiceProofs` | in which tick each task runs, the clock, the life cycle | `TimeWheelExecutorProofs` |
| `NearTasksProofs` | that the near tasks are served as `TimerService` says | `TimeWheelServiceProofs` |
| `ThreadTool` | `src/utils/common/thread_tool.h` as operators on the attributes of a thread | |
| `ExecutorManager` | `executor_manager.cc`, and the executors seen from outside (`main_thread_executor.cc`, thread launched, set up, joined) | `ThreadTool` |
| `ExecutorManagerProofs` | its invariant and the lemmas about its steps | `ExecutorManager` |
| `AdosCore` | `ados_core.cc`, `main/main.cc`, `configurator_manager.cc` | `ExecutorManager`; keeps every executor to `ExecutorLifecycle` |
| `AdosCoreProofs` | theorems about the composed runtime | `AdosCore`, `ExecutorManagerProofs` |
| `BlockQueue` | `src/utils/common/block_queue.h` | implements `Fifo` |
| `BlockQueueProofs` | its theorems | `BlockQueue` |
| `MC...` | instances for TLC: scripts, wheel sizes, configurations | the module they name |

`AdosCore` composes the runtime: its main thread enters `ExecutorManager`'s
calls (`ExecutorsInitialize`, `ExecutorsStart`, `ShutdownImpl` conjoin the
manager's `...Begins` actions; `ManagerContinues` is the rest of the call). The
executors appear there as `state_`, a thread and its attributes, not with their
queues and wheels. What makes that sound is `ExecutorLifecycle`, the contract
between the two sides. It says in which order the calls come (the manager's
duty), when the thread may be launched and return (the executor's), and that a
thread told to stop returns in the end (the executor's, as fairness).
`GuardThreadExecutor` and `TimeWheelExecutor`, called in an order the contract
allows (the constant `Scripts`), implement it with its fairness
(`KeepsLifecycle`). `AdosCore` is checked to make every executor behave by it
(`ExecutorsKeepLifecycle`, also proved), and assumes its fairness as that of
`ThreadExits`.

### GuardThreadExecutor

A step is one access to shared state: an atomic operation on `state_` or
`queue_task_num_`, the acquisition of `mutex_`, or what is done under it up to
its release.

| Code | Actions |
|---|---|
| `Initialize` 44-101 | `Initialize`, `InitializeBadOptions` (the options do not decode) |
| `Start` 103-107 | `Start` (a rejected one still overwrites `state_`) |
| `Shutdown` 109-126 | `ShutdownExchange`, `ShutdownNotify`, `ShutdownJoin`, `ShutdownSelfJoin` (called by a task: `join` throws) |
| `Execute` 128-152 | `ExecuteCheck`, `ExecuteCount`, `ExecuteUndo`, `ExecuteLock`, `ExecutePut` |
| thread function 55-98 | `WorkerLoop`, `WorkerLock`, `WorkerPredicate`, `WorkerBlock`, `SpuriousWakeup`, `WorkerNext`, `TaskEnds`, `WorkerDecrement`, `WorkerPop` |
| destructor | `Destroy` (`std::terminate` if the thread is joinable) |
| the drain without `mutex_` | `QueueRaceCrash`: a call and the drain in `queue_` at once, undefined behaviour |

`tmp_queue` is the local queue of the main loop; in the drain the same inner
loop consumes `queue_` itself (`ActiveQueue`). `queue_task_num_` is an integer:
`CounterCovers` shows that it never falls below zero, and it stays far from
2^32. `finished` and `alive` are history. Refinement: `pending` is what lies in
the two queues and was not begun, `running` the task inside `task()`.

### TimeWheelExecutor

What is done under `tick_mutex_` is one step. The timer thread's places are
`begin`, `loop`, `sleep`, `tick`, `run`, `count`, `exited`; `TimerTick` is the
part of `TimerLoop` under the lock (lines 195-198 with `Tick` and the
`borrow_func` of every level), `TaskEnds` a task, `TimerCounts` the
`++current_tick_count_` that follows. `ExecuteAt` computes level and slot, or
the key of the map, exactly as lines 126-152 do, in arithmetic modulo `TimeMod`
for the unsigned difference. Line 126 reads `start_time_point_` without a lock,
so a call may use the value of before `TimerBegins`: `StartsRead`. `ClockAdvances`
and `ClockSetBack` move the system clock. `fate` is history: whether a task was past, near
(less than a revolution of level 0 ahead, and its slot not yet taken) or far
when it was handed over, and whether it has run. The list that a carry of a
level other than the last brings down is dropped, as in the code. With two or
more levels the list that comes down from the map is spliced at an index taken
modulo the scale of the level, which may lie outside the wheel: `OutOfWheel`,
taken for the end of the process, which is why `NeverCrashes` is a property of
one level only. Refinement to `TimerService`: `tick` is `current_tick_count_`,
the agenda has a row for each tick that near entries name (`Agenda`), and in it
their tasks in the order of the list that is being run or of the slot they are
in (`TasksIn`, a recursive function over the positions of that list); the
service is `serving` while the timer thread is there, so that what `Shutdown`
clears after the join is all that may be dropped.

`ExecuteAt` looks at no state, and neither does the model's: calls come in any
state of `CallStates`, also after a `Shutdown` whose `kShutdown` a rejected
`Start` or `Initialize` has overwritten, and end the process when they need a
wheel that is gone.

### BlockQueue

Every method holds `mutex_` throughout, except for the wait, so a method is one
action and `Dequeue` has two: `Dequeue` up to the wait or to the end, and
`DequeueWakes` when the thread has the mutex again. `waiting` are the threads on
`cond_`, `woken` those that were notified, or woke up by themselves, and have
not got the mutex yet: in between, others may take what they were woken for.
`Destroy` is the destructor called when all calls have come back; to destroy
the queue while somebody is in `Dequeue` is undefined and left out.

### ExecutorManager and AdosCore

`executors_options` is a sequence of name, type, whether the options decode and
what they say of CPUs and policy. `InitializeNext`, `StartNext`/`StartedNext`,
`ShutdownNext`/`ShutdownJoin` are one turn of the loops of
`executor_manager.cc`; `StartedNext` is the wait of `TimeWheelExecutor::Start`.
A thread is `launched` with the attributes of the main thread and sets its own
first (`ThreadSetsUp`); the main executor sets those of the main thread while it
is initialized (`Fresh`). `SetUp` is the `try` block that all three executors
have: an exception of one of the calls skips the calls after it. `phase` is
`AdosCore::state_`: of states entered without a call between them the last one
remains. Exceptions set `thrown`; `main` then
unwinds through `~AdosCore` (`cpc = "destroy"`), which may call `ShutdownImpl`
for the first time. Handlers are a sequence of records (signal, thread, place)
in order of delivery: a handler stops the thread it runs on, may be interrupted
by a handler of the other signal, and takes three steps, `HandlerChecks` (the
load of `global_core_ptr`), `HandlerExchanges` (the exchange on
`shutdown_flag_`) and `HandlerSetsPromise`. A second `set_value` throws out of
the handler, which ends the process. Without a core the handler raises its
signal again and never leaves. A handler that uses a destroyed core
(`HandlerStrays`) crashes the process or does nothing.

## 3. What the runs check

All runs of kind `pass` finish with no error; the others find the violation
that `findings` describes.

| Run | Instance | Shows |
|---|---|---|
| `guard_safety` | 2 callers, 3 tasks (one throws, one shuts its own executor down, one may be handed over again), threshold 2, life-cycle calls in and out of order, calls also after `Shutdown` | `TypeOK`, `CounterCovers`, `BoundedBacklog`, `NoLostWakeup`, `RunsInOrder` |
| `guard_lifecycle` | as `ExecutorManager` drives it, users stop at `Shutdown`, one task throws | `ShutdownDrains`, `NeverTerminates`, `KeepsLifecycle`, `RunsAllInOrder`, `ShutdownReturns`, `CallsReturn` |
| `guard_early_task` | | a task handed over between `Initialize` and `Start` is taken in |
| `guard_counter_leak` | 1 throwing task, threshold 1 | a task that throws is never counted out: an idle executor rejects for ever |
| `wheel_levels` | two levels of two slots, calls for past and future and before `Start`, life-cycle calls out of order, a task that shuts its executor down | `TypeOK`, `OdometerInSync`, `NearIsPunctual`, `NearTasksOnTime` |
| `wheel_clock` | one level, `dt` slept in two pieces, a `Shutdown` between them, the clock set back once | `NothingForgotten`, `NeverBeforeItsTime`, `NowNeverAhead`, `AtMostOneRevolutionOff`, `NeverCrashes`, `KeepsLifecycle`, `NearTasksRun`, `LifecycleCallsReturn` |
| `wheel_forgets` | two levels | a task beyond level 0 is destroyed by the carry |
| `wheel_early` | one level | a task from the map runs one revolution early |
| `wheel_late` | one level, 2 tasks | a task handed over for the current tick while it runs is one revolution late |
| `runtime` | eight configurations (empty, good, an executor that does not decode first, in the middle, last, a duplicate, an unknown type, a misplaced guard), with CPUs and policies that can be set, cannot be or do not exist, up to three signals on any thread | `TypeOK`, `NeverTerminates`, `ShutdownInReverse`, `HandlersFindTheCore`, `PhaseIsTrue`, `ThreadsAreRecognizable`, `AttributesStayApart`, `ExecutorsKeepLifecycle`, `EndsWhenAsked` |
| `runtime_clash` | main and guard executor of one name | the guard executor is destroyed with its thread running |
| `block_queue` | 4 threads in any role, 3 items | `TypeOK`, `NoLostWakeup`, `ImplementsFifo` |

`RejectsOnlyWhenFull` is also violated without a throwing task, by the
increments of calls that are themselves being turned away: take two callers
and `Throwing = {}` in `GuardCounterLeak.cfg`.

`ShutdownDrains` is a promise to users who stop when `Shutdown` is called. A
call of `Execute` that is on its way when the drain ends leaves its task in
`queue_` unrun; such calls are among the behaviours of `guard_safety`
(`LateCallers = TRUE`), and neither code nor comments say what should become of
them.

`NeverBeforeItsTime` and `NowNeverAhead` have an exception, which is what the
code does: a `Shutdown` ends the sleep under way with its piece (line 193), and
if `dt` is more than `kMaxSleepDt` the tick that follows (195-209) comes before
its end. Its tasks run early and `Now()` is ahead of the clock. Both properties
hold the code to one such tick and to what was left of its `dt`
(`CutOff`, at most `dt - kMaxSleepDt`); in every state other than `kShutdown`
they allow nothing. `wheel_clock` reaches the exception: with `CutOff` zero TLC
finds both violated.

In `guard_safety` a task throws, so the equality that `CounterCovers` claims of
executors without such tasks is not exercised there; its proof covers it.

Every property of a passing run comes with a mutant, an operator marked
"Wrong:" beside the definition it stands in for; replacing the one by the other
breaks that property.

**Bounds.** `Tasks`, `Callers`, `Scripts`, the set of configurations. Three
tasks and a threshold of two give a rejected call, a batch of two and a task
that arrives during a batch; a third caller adds no new pair of places, and the
counter is proved for any number. `MaxTime` bounds the clock: it covers at least
one turn of all levels and two of the first, so carries happen with the wheels in every
position and tasks come back from the map; beyond it the clock still moves when
a `Shutdown` waits for it. `Times` holds a time before the start, ones inside
the first level, and ones beyond the wheels. `Epoch` is larger than the wheels
can hold, so that a call before `Start`, which computes with a start time of
zero, lands in the map as it does with a real epoch. `TimeMod` stands for 2^64
and is only large enough that a negative difference lands far beyond the
wheels. The clock is set back once, by less than `dt` (`MaxSetBacks`, `SetBack`):
the timer thread then sleeps until the clock has come back, and a second time
would add to that. Setting it forward needs no action, as time may pass without
the timer thread for any other reason. Four threads on a `BlockQueue` are two
that wait, one that puts in and one that comes by and takes the item of a woken
one; with three items the queue is longer than the number of the woken.
`MaxSignals = 3` gives two handlers of one signal on two threads and
one of the other that interrupts either.

**Fairness.** Threads that can run do: weak fairness on the worker's steps, on
the steps of a begun `Execute` or `Shutdown`, on the timer thread, on the main
thread and on handlers, since the scheduler of the operating system is all they
need. In `BlockQueue` only some woken thread gets the mutex, not a certain one,
and so `Fifo` promises only that somebody is served while there are items; after
`Stop` all are refused. Tasks return (strong fairness on `TaskEnds`: a task that calls back is
between calls again and again), and time passes. Nothing obliges anybody to
start a call, to send a signal or to wake the worker spuriously; and as a mutex
owes nobody its turn, `CallsReturn` leaves out behaviours with endless spurious
wakeups.

**Deadlock.** All runs say `CHECK_DEADLOCK FALSE`: a process that has ended, an
executor whose script is over and a clock at `MaxTime` have no next step. That
nobody waits for ever is what the liveness properties say.

## 4. What is proved

Each theorem holds for every value of the constants that the named assumptions
allow: any threads, tasks, thresholds, wheel sizes, configurations and numbers
of signals. The assumptions are those at the head of each module; the ones
worth a reader's attention are listed at the end of this section. Proofs go by
an inductive invariant, called `IInv` in each module (TLC finds no violation of
it, nor of `DInv`, `PlanInv` and `OnceInv`, on the instances of section 3), and
what a run checks for an instance follows from it. A theorem whose property
needs more than the assumptions says so in its statement (`Driven`,
`NamesApart`, `Last = 1`).

### GuardThreadExecutor

`GuardThreadExecutorProofs` holds for any finite set of callers, any tasks
(throwing, stopping, repeated), any threshold, any sequence of life-cycle calls
and for calls during `Shutdown`. The inductive invariant is `IInv == TypeOK /\
PlaceInv /\ LockInv /\ NoLostWakeup`. `PlaceInv` says which places of worker,
calls and `Shutdown` go together (a call from a task is made while the worker
runs one, a begun task is the head of a queue that is not empty, there is no
worker before `Initialize`). `LockInv` says who holds `mutex_` at which place:
it is what excludes a task or a notification between the worker's predicate and
its wait, so `NoLostWakeup` is not inductive without it.

- `TypeCorrect`, `NeverSleepsThroughWork`: parts of `IInv`.
- `CounterNeverUndercounts`, `BacklogStaysBounded`: `CounterCovers` and
  `BoundedBacklog`, on top of `IInv`. The number of calls at a place is a
  cardinality; `CountMove` says how it changes when one call moves. Each call
  adds one to the counter before it may become one of the held tasks, and the
  worker subtracts only for a task still held, so tasks plus calls never exceed
  the counter; a call goes on only if the counter, itself included, is within
  the threshold.
- `ImplementsSerialExecutor`: every step is a `Submit`, a `Begin`, an `End` or
  a stutter of `SerialExecutor`; `ExecutePut` submits at the end of `queue_`,
  the swap moves tasks between queues without changing their order.

The second part is about the executor as `ExecutorManager` drives it.
`Driven` is that protocol: the scripts of `ExecutorManager`, callers that stop
at `Shutdown`, no task that calls `Shutdown`. Without it the three properties
are false (section 3). `DInv` adds to `IInv` how far the owner has come
(`ScriptInv`) and that no call is on its way once `Shutdown` has begun
(`QuietInv`): users have returned from `Execute` before `Shutdown` is
called, and only tasks go on calling, from the worker itself, so the drain,
which has no mutex, meets nobody in `queue_`.

- `DrainsOnShutdown`: `ShutdownDrains`. The worker leaves the drain only with
  both queues empty and nobody left to fill them.
- `NothingTerminates`: `NeverTerminates`.
- `KeepsLifecycleSafely`: every step is one of `ExecutorLifecycle` or a stutter.

### TimeWheelExecutor

`TimeWheelExecutorProofs` holds for any number of levels of any sizes, any
calls from any thread, life-cycle calls in any order and any clock.
`IInv == TypeOK /\ PlaceInv`.

- `TypeCorrect`: `TypeOK`. The work is in the tick: the carries (`Ticked`) and the
  splice of the list from the map (`Spliced`) leave every level a well-formed
  wheel, unless the splice leaves the wheel and the process with it.
- `WheelsInSync`: `OdometerInSync` is inductive with `IInv`. `TimeWheelLemmas`
  has the arithmetic: a level carries exactly when the count reaches a multiple
  of its scale, and then quotient and remainder move as position and carry do.
  `Recursion` and `Induction` there are over a number, the level or the
  position in a list, and not over data.
- `NearTasksArePunctual`: `NearIsPunctual`, on top of both. A task is near if
  its slot lies between the position of level 0 and one revolution ahead of it;
  no carry reaches that slot before its tick (`FirstSlot`).

`TimeWheelServiceProofs` follows each task. `PlanInv` says of every place where
a task can be (the list being run, a slot, the map under a key) in which ticks
it may run. For a near task that is its own tick, whatever the levels; for the
others it says with one level that the tick is their own or exactly one
revolution off. It is a plan in that it speaks of the tick to come, and is
needed because `AtMostOneRevolutionOff` speaks only of the moment of running.

- `NeverFarOff`: `AtMostOneRevolutionOff`.
- `OneLevelForgetsNothing` (for `Last = 1`): `NothingForgotten`. With two
  levels it is false, which the run `wheel_forgets` shows.
- `NowNeverRunsAhead`, `NearTasksWait` (for `Driven`, any number of levels):
  `NowNeverAhead` and `NeverBeforeItsTime`, with the exception of section 3,
  from `ClockInv`: the timer thread wakes up at multiples of `dt` after its
  first look at the clock, less what is still in `real_dt`, and counts a tick
  only after that. Between sleeps `real_dt` is zero unless the state is
  `kShutdown`, and then it is at most `dt - kMaxSleepDt`, as a first piece was
  slept; the loop ends after that tick, so it is the only one.
  `Driven` is needed: an executor that is initialized and started again goes
  on from the old `current_tick_count_` with a new `start_time_point_`.
- `NothingCrashes` (for `Driven`, one level, calls that stop at `Shutdown`
  except from tasks): `NeverCrashes`. The wheels are cleared only after the
  join, and a running task keeps the join waiting.
- `KeepsLifecycleSafely` (for `Driven`): every step is one of
  `ExecutorLifecycle` or a stutter.

`NearTasksProofs` has the refinement of `TimerService`, without any hypothesis:

- `NearTasksServed`: `NearTasksOnTime`. `OnceInv` adds to the invariants above
  that a near task is kept once (no list has it twice, no two slots have it,
  and nothing that was run is kept anywhere), without which a task could leave
  the agenda and still be run. What the agenda holds is computed by a recursion
  over the positions of a list; `Collecting`, `TasksInAppend` and the lemmas
  after them say what it returns when an entry is put at the end, taken from
  the head or when none of the list is due, by induction on the position. Then
  there is a lemma per kind of step: `CallServes` (a call adds to the end of
  the row of its tick, or to none), `TaskEndsServes` (the task that ends is the
  first of the row of this tick), `TickServes` (the slot that a tick takes is
  the whole row, and the lists that carries bring down have no near task),
  `QuietServes` (all else leaves the agenda alone, save that it is cleared
  once the thread has returned, `WheelsGo`; `++current_tick_count_` comes only
  after its row is empty).

`NothingForgotten` says that a task is kept, not that it will be run. The
window in which `tick_mutex_` is free while the tasks of a tick run (lines
198-209) has one more effect than the one `wheel_late` shows: in the last tick
of a revolution `timing_task_map_pos_` has already moved on while
`current_tick_count_` has not, so a call with a time between one and two
revolutions ahead goes into the map under a key whose turn is over, and stays
there until `Shutdown`. The proof of `MapPlan` met it: the keys of the map have
no lower bound in `timing_task_map_pos_`. No property of a run depends on it.

### ExecutorManager, AdosCore and main

`IInv == TypeOK /\ ManagerInv /\ PlaceInv /\ PhaseInv /\ CoreInv /\
HandlersInv`, for any configurations and any number of signals. `ManagerInv`
(in `ExecutorManagerProofs`, with a lemma per step of the manager) relates the
executors made to the names used and to the executors still to be made, started
or shut down; `PlaceInv` and `PhaseInv` say where the manager and `GetState`
stand at each place of `main`, `CoreInv` when there is a core and a pointer to
it, and `HandlersInv` that a handler in flight runs on a live thread, found the
pointer set, and is the only one past the exchange on `shutdown_flag_`.

- `TypeCorrect`, `ShutsDownInReverse`, `HandlersFindCore`, `AttributesApart`,
  `PhaseTellsTheTruth`: `TypeOK`, `ShutdownInReverse`, `HandlersFindTheCore`,
  `AttributesStayApart`, `PhaseIsTrue`.
- `ThreadsShowTheirNames`: `ThreadsAreRecognizable`. Its hypotheses say what a
  string is in TLA+ and the provers do not know: a sequence of characters, `..`
  one of two. `ShortenedEnds` is about the text that `Shortened` puts together,
  `SetUpNames` about the three calls of the set-up, of which the first sets the
  name whatever the others do.
- `NothingTerminates`, `DuplicatesAreRejected`: `NeverTerminates` and
  `NamesAreUnique` for configurations in which the main and the guard executor
  have different names (`NamesApart`). The run `runtime_clash` shows one where
  they have not, which is hence the only duplicate the code lets through.
- `LifecycleIsKept`: `ExecutorsKeepLifecycle`. With the two theorems called
  `KeepsLifecycleSafely` it closes the circle: the manager leads every executor
  through the contract, and under the contract the executors do their part.

### BlockQueue

`IInv == TypeOK /\ NoLostWakeup`, for any finite set of threads: `TypeCorrect`,
`NobodySleepsThroughItems` and `ImplementsFifoSafely` (every step is one of
`Fifo` or a stutter).

### Assumptions to know of

- `TimeWheelExecutor!OptionsAssumption`: no level is empty, and a level after
  the first has at least two slots. The code checks neither. The second was
  found by the proof of `TypeOK`: such a level begins at slot 1 (line 64).
- `ExecutorManager!NamesAssumption`: names, and what a thread makes of them,
  are texts.
- Of `ThreadsShowTheirNames` only: names are sequences of characters.
- `Driven` in two modules, `NamesApart` and `Last = 1`, as hypotheses of the
  theorems named above. The runs `guard_lifecycle`, `wheel_clock` and `runtime`
  are instances that satisfy them (of `runtime`, the configurations with
  different names).

### Only model-checked

- Liveness: `ShutdownReturns`, `CallsReturn`, `RunsAllInOrder`, `NearTasksRun`,
  `LifecycleCallsReturn`, `EndsWhenAsked`, and the fairness in `KeepsLifecycle`
  and `ImplementsFifo`; out of the prover's reach.
- What the runs of kind `violation` refute.

## 5. What is not modelled

- Log lines (`log_tool.h`), the command line, the reading of YAML beyond
  "decodes or throws".
- The conversions of `time_tool.h` other than those in nanoseconds: the runtime
  does not use them. In nanoseconds, the unit of `system_clock`, they change
  nothing.
- Calls of `Execute` or `ExecuteAt` before `Initialize` has returned. The code
  takes them in: the guard executor counts them against the default threshold
  of 10000 and nobody runs them yet, the time wheel computes with a `dt_count_`
  that was never set. `ExecutorManager` makes, initializes and only then
  publishes an executor, so nobody can make such a call.
- The clearing of the wheels while a call of `ExecuteAt` is half done:
  `ExecuteAt` is one step, and no property claims anything of such a call.
- Failures of the system: a thread that cannot be created, memory that cannot
  be allocated.
- Exceptions of tasks that are not `std::exception`: they end the process.
- A clock set to before the epoch, or back so far that a sleep outlasts the run.
- `dt_us` of zero, an empty `wheel_size` or one with a zero: undefined
  behaviour by division or indexing, without statement in the code.
- What `set_value` does inside a signal handler (it is not async-signal-safe).
- Tasks that hand themselves over without end make a drain that never ends, and
  a task that shuts its own executor down leaves a joinable thread to the
  destructor; both are outside `guard_lifecycle`, whose users keep to the
  protocol of `ExecutorManager`.
- `EnterState`'s hooks: nothing registers one.
- A `BlockQueue` destroyed while it is in use.
- `LoggerManager` (declared only), `string_tool.h` and `exception.h` (no state).

## 6. Plan

All components with state of their own are modelled, and every safety invariant
and action property a run checks is proved, as is the safety part of every
refinement. Left to do:

1. `NeverCrashes` for any number of levels under the condition that all tasks
   lie within level 0, so that no list comes down from the map. (That none of
   them is forgotten then is part of `NearTasksServed`.)
2. The fairness-free half of `EndsWhenAsked`: a promise that is set stays set
   and is read.
