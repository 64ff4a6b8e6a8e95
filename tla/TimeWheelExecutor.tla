------------------------- MODULE TimeWheelExecutor -------------------------
(***************************************************************************)
(* src/runtime/core/executor/time_wheel_executor: tasks handed to          *)
(* ExecuteAt with a point in time are kept in wheels of slots, and beyond  *)
(* them in a map; a timer thread advances the wheels once per dt and runs  *)
(* the tasks of the slot it leaves.                                        *)
(*                                                                         *)
(* What is done under tick_mutex_ is one step, so the mutex itself is not  *)
(* a variable.  Time is the system clock in units of our choice; somebody  *)
(* may set it back.  ExecuteAt is one step whoever calls it: a user on     *)
(* another thread or the task that is running.                             *)
(***************************************************************************)
EXTENDS Integers, Sequences, FiniteSets

CONSTANTS
  Tasks,       \* task objects; each is handed over at most once
  Stopping,    \* the tasks that call Shutdown on their own executor
  WheelSize,   \* options_.wheel_size
  Dt,          \* options_.dt, in clock units
  MaxSleepDt,  \* kMaxSleepDt
  TimeMod,     \* 2^64: virtual_tp is a uint64_t
  Times,       \* the points in time callers ask for
  Epoch,       \* the clock when the process starts
  MaxTime,     \* bound on the clock
  SetBack,     \* by how much the clock is set back
  MaxSetBacks, \* bound on how often it is
  Scripts,     \* the sequences of life-cycle calls ExecutorManager may make
  CallStates   \* the states in which users call ExecuteAt

LifecycleCalls == {"Initialize", "Start", "Shutdown", "Destroy"}

State == {"kPreInit", "kInit", "kStart", "kShutdown"}

(* The code checks none of these.  Every level but the first starts at its *)
(* slot 1, which must be there.                                            *)
ASSUME OptionsAssumption ==
  /\ WheelSize \in Seq(Nat \ {0})
  /\ WheelSize # <<>>
  /\ \A ii \in 2 .. Len(WheelSize) : WheelSize[ii] > 1
  /\ {Dt, MaxSleepDt, TimeMod} \subseteq Nat \ {0}

ASSUME UsageAssumption ==
  /\ {Epoch, MaxTime, SetBack, MaxSetBacks} \cup Times \subseteq Nat
  /\ MaxSetBacks * SetBack <= Epoch
  /\ Stopping \subseteq Tasks
  /\ Scripts \subseteq Seq(LifecycleCalls)
  /\ CallStates \subseteq State

Levels == 1 .. Len(WheelSize)
Last   == Len(WheelSize)

(* timing_wheel_vec_[ii].scale: the ticks of one revolution of level ii.   *)
Scale[ii \in 0 .. Len(WheelSize)] ==
  IF ii = 0 THEN 1 ELSE Scale[ii - 1] * WheelSize[ii]

VARIABLES
  state_,               \* std::atomic<State>
  script,               \* the life-cycle calls still to be made
  opc,                  \* place of ExecutorManager in Start or Shutdown
  joinable,             \* timer_thread_ptr_ && timer_thread_ptr_->joinable()
  start_flag_,
  start_time_point_,
  timing_wheel_vec_,    \* per level the position and the lists of the slots
  timing_task_map_,     \* key -> list of the tasks beyond the last wheel
  timing_task_map_pos_,
  current_tick_count_,
  tpc,                  \* the timer thread's place in TimerLoop
  last_loop,            \* last_loop_time_point
  real_dt,              \* what is left of dt to sleep
  task_list,            \* the tasks of the slot being run
  now,                  \* the system clock
  latest,               \* history: the latest time it has shown
  set_backs,            \* how often it was set back
  fate,                 \* history: what became of each task
  alive                 \* FALSE once the process has died

ownerVars == <<script, opc, joinable>>
startVars == <<start_flag_, start_time_point_>>
wheelVars == <<timing_wheel_vec_, timing_task_map_, timing_task_map_pos_>>
sleepVars == <<last_loop, real_dt>>
clockVars == <<now, latest, set_backs>>
vars == <<state_, ownerVars, startVars, wheelVars, current_tick_count_, tpc,
          sleepVars, task_list, clockVars, fate, alive>>

Entries == [tick_count : Nat, task : Tasks]

EmptyWheel(ii) == [slot \in 0 .. WheelSize[ii] - 1 |-> <<>>]

Init ==
  /\ state_ = "kPreInit"
  /\ script \in Scripts
  /\ opc = "idle"
  /\ joinable = FALSE
  /\ start_flag_ = FALSE
  /\ start_time_point_ = 0
  /\ timing_wheel_vec_ = <<>>
  /\ timing_task_map_ = <<>>
  /\ timing_task_map_pos_ = 0
  /\ current_tick_count_ = 0
  /\ tpc = "none"
  /\ last_loop = 0
  /\ real_dt = 0
  /\ task_list = <<>>
  /\ now = Epoch
  /\ latest = Epoch
  /\ set_backs = 0
  /\ fate = [k \in Tasks |-> "new"]
  /\ alive = TRUE

TimerAt(place) == alive /\ tpc = place

OwnerAt(place) == alive /\ opc = place

-----------------------------------------------------------------------------
(* Life cycle.                                                             *)

OwnerCalls(name) ==
  /\ OwnerAt("idle")
  /\ script # <<>>
  /\ Head(script) = name
  /\ script' = Tail(script)

(* Every level but the first starts one slot ahead: its slot 0 belongs to  *)
(* the revolution that is already under way.                               *)
Initialize ==
  /\ OwnerCalls("Initialize")
  /\ state_' = "kInit"
  /\ IF state_ = "kPreInit"
     THEN /\ timing_wheel_vec_' =
               [ii \in Levels |-> [current_pos |-> IF ii = 1 THEN 0 ELSE 1,
                                   wheel       |-> EmptyWheel(ii)]]
          /\ timing_task_map_pos_' = 1
     ELSE UNCHANGED <<timing_wheel_vec_, timing_task_map_pos_>>
  /\ UNCHANGED <<opc, joinable, startVars, timing_task_map_,
                 current_tick_count_, tpc, sleepVars, task_list, clockVars,
                 fate, alive>>

(* The options do not decode: the exception leaves                         *)
(* ExecutorManager::Initialize, which destroys the executor.               *)
InitializeBadOptions ==
  /\ OwnerAt("idle")
  /\ script # <<>> /\ Head(script) = "Initialize"
  /\ state_ = "kPreInit"
  /\ state_' = "kInit"
  /\ script' = <<"Destroy">>
  /\ UNCHANGED <<opc, joinable, startVars, wheelVars, current_tick_count_, tpc,
                 sleepVars, task_list, clockVars, fate, alive>>

(* A Start in kInit launches the timer thread (assigning over a joinable   *)
(* one is std::terminate), any other throws with state_ overwritten.       *)
Start ==
  /\ OwnerCalls("Start")
  /\ state_' = "kStart"
  /\ IF state_ = "kInit"
     THEN /\ alive' = ~joinable
          /\ joinable' = TRUE
          /\ tpc' = IF joinable THEN tpc ELSE "begin"
          /\ opc' = "start"
     ELSE UNCHANGED <<alive, joinable, tpc, opc>>
  /\ UNCHANGED <<startVars, wheelVars, current_tick_count_, sleepVars,
                 task_list, clockVars, fate>>

(* start_flag_.wait(false) returns.                                        *)
StartReturns ==
  /\ OwnerAt("start")
  /\ start_flag_
  /\ opc' = "idle"
  /\ UNCHANGED <<state_, script, joinable, startVars, wheelVars,
                 current_tick_count_, tpc, sleepVars, task_list, clockVars,
                 fate, alive>>

ShutdownExchange ==
  /\ OwnerCalls("Shutdown")
  /\ state_' = "kShutdown"
  /\ opc' = IF state_ = "kShutdown" THEN "idle" ELSE "join"
  /\ UNCHANGED <<joinable, startVars, wheelVars, current_tick_count_, tpc,
                 sleepVars, task_list, clockVars, fate, alive>>

(* Wrong: the wheels are cleared before the timer thread has returned.     *)
JoinedNoWait == TRUE

(* join() returns when the timer thread has.                               *)
Joined == joinable => tpc = "exited"

(* After the join, everything is cleared without tick_mutex_.              *)
ShutdownJoin ==
  /\ OwnerAt("join")
  /\ Joined
  /\ joinable' = FALSE
  /\ timing_task_map_' = <<>>
  /\ timing_wheel_vec_' = <<>>
  /\ opc' = "idle"
  /\ UNCHANGED <<state_, script, startVars, timing_task_map_pos_,
                 current_tick_count_, tpc, sleepVars, task_list, clockVars,
                 fate, alive>>

(* A task shuts its own executor down: join() throws on the timer thread   *)
(* before anything is reset; the task goes on or ends by the exception.    *)
TaskShutsDown ==
  /\ TimerAt("run")
  /\ Head(task_list).task \in Stopping
  /\ state_' = "kShutdown"
  /\ UNCHANGED <<ownerVars, startVars, wheelVars, current_tick_count_, tpc,
                 sleepVars, task_list, clockVars, fate, alive>>

(* Destroying a joinable std::thread is std::terminate.                    *)
Destroy ==
  /\ OwnerCalls("Destroy")
  /\ alive' = ~joinable
  /\ UNCHANGED <<state_, opc, joinable, startVars, wheelVars,
                 current_tick_count_, tpc, sleepVars, task_list, clockVars,
                 fate>>

-----------------------------------------------------------------------------
(* ExecuteAt.                                                              *)

(* start_time_point_ is read before tick_mutex_ is taken, when TimerBegins *)
(* has not set it, or is about to: a call may go on with the old 0.        *)
StartsRead == {0, start_time_point_}

(* The distance to it, in unsigned arithmetic.                             *)
VirtualTp(tp, start) == (tp - start) % TimeMod

Past(v) == v < current_tick_count_ * Dt

(* A level has room for a distance if it is less than one revolution of    *)
(* it, counted in the units of the level.                                  *)
HasRoom(ii, diff) == diff \div Scale[ii - 1] < WheelSize[ii]

(* Wrong: counts from slot 0 instead of the current one.                   *)
SlotFromZero(ii, diff) == (diff \div Scale[ii - 1]) % WheelSize[ii]

Slot(ii, diff) ==
  (diff \div Scale[ii - 1] + current_tick_count_ \div Scale[ii - 1])
    % WheelSize[ii]

MapKey(diff) == diff \div Scale[Last] + current_tick_count_ \div Scale[Last]

(* Wrong: at the front of the list.                                        *)
PlaceInFront(ii, e, diff) ==
  timing_wheel_vec_' =
    [timing_wheel_vec_ EXCEPT ![ii].wheel[Slot(ii, diff)] = <<e>> \o @]

Place(ii, e, diff) ==
  timing_wheel_vec_' =
    [timing_wheel_vec_ EXCEPT ![ii].wheel[Slot(ii, diff)] = Append(@, e)]

Lookup(map, key) == IF key \in DOMAIN map THEN map[key] ELSE <<>>

PlaceInMap(e, diff) ==
  timing_task_map_' =
    [key \in DOMAIN timing_task_map_ \cup {MapKey(diff)} |->
       IF key = MapKey(diff) THEN Append(Lookup(timing_task_map_, key), e)
                             ELSE timing_task_map_[key]]

(* The timer thread has taken the slot of this tick and not yet counted    *)
(* the tick: tasks are running and tick_mutex_ is free.                    *)
InWindow == tpc \in {"run", "count"}

(* "near" is what level 0 can hold and whose slot is still to come.        *)
Near(diff) ==
  /\ start_flag_
  /\ HasRoom(1, diff)
  /\ InWindow => diff > 0

(* ExecuteAt looks at no state.  Only calls before Initialize has returned *)
(* are left out: dt_count_ is not set, and ExecutorManager, which makes    *)
(* the executor, gives it to nobody until then.                            *)
MayCall ==
  /\ state_ \in CallStates \/ tpc = "run"
  /\ timing_task_map_pos_ # 0

(* A point in time that is past is passed to Execute, which only logs.     *)
(* After Shutdown there are no wheels, whatever calls out of order have    *)
(* made of state_: indexing them is undefined behaviour, here the end of   *)
(* the process.                                                            *)
ExecuteAt(k, tp, start) ==
  LET v    == VirtualTp(tp, start)
      tick == v \div Dt
      diff == tick - current_tick_count_
      e    == [tick_count |-> tick, task |-> k]
  IN  /\ alive
      /\ MayCall
      /\ fate[k] = "new"
      /\ \/ /\ Past(v)
            /\ fate' = [fate EXCEPT ![k] = "past"]
            /\ UNCHANGED <<wheelVars, alive>>
         \/ /\ ~Past(v)
            /\ \E ii \in Levels :
                 /\ HasRoom(ii, diff)
                 /\ \A jj \in 1 .. ii - 1 : ~HasRoom(jj, diff)
                 /\ IF timing_wheel_vec_ = <<>>
                    THEN alive' = FALSE /\ UNCHANGED timing_wheel_vec_
                    ELSE Place(ii, e, diff) /\ UNCHANGED alive
            /\ fate' = [fate EXCEPT ![k] =
                          IF Near(diff) THEN "near" ELSE "far"]
            /\ UNCHANGED <<timing_task_map_, timing_task_map_pos_>>
         \/ /\ ~Past(v)
            /\ \A ii \in Levels : ~HasRoom(ii, diff)
            /\ PlaceInMap(e, diff)
            /\ fate' = [fate EXCEPT ![k] = "far"]
            /\ UNCHANGED <<timing_wheel_vec_, timing_task_map_pos_, alive>>
      /\ UNCHANGED <<state_, ownerVars, startVars, current_tick_count_, tpc,
                     sleepVars, task_list, clockVars>>

-----------------------------------------------------------------------------
(* TimerLoop.                                                              *)

TimerBegins ==
  /\ TimerAt("begin")
  /\ last_loop' = now
  /\ start_time_point_' = now
  /\ start_flag_' = TRUE
  /\ tpc' = "loop"
  /\ UNCHANGED <<state_, ownerVars, wheelVars, current_tick_count_, real_dt,
                 task_list, clockVars, fate, alive>>

(* Wrong: every piece is a whole kMaxSleepDt.                              *)
SleepWholePieces(left) ==
  /\ last_loop' = last_loop + MaxSleepDt
  /\ real_dt' = left - MaxSleepDt
  /\ tpc' = "sleep"

(* dt is slept in pieces of at most kMaxSleepDt; sleep_until gets the sum, *)
(* so a late wakeup delays nothing after it.                               *)
SleepFrom(left) ==
  LET sleep_time == IF left > MaxSleepDt THEN MaxSleepDt ELSE left
  IN  /\ last_loop' = last_loop + sleep_time
      /\ real_dt' = left - sleep_time
      /\ tpc' = "sleep"

(* Wrong: state_ is looked at only between the pieces of a sleep.          *)
TimerLoopUnasked ==
  /\ TimerAt("loop")
  /\ SleepFrom(Dt)
  /\ UNCHANGED <<state_, ownerVars, startVars, wheelVars, current_tick_count_,
                 task_list, clockVars, fate, alive>>

TimerLoop ==
  /\ TimerAt("loop")
  /\ IF state_ = "kShutdown"
     THEN tpc' = "exited" /\ UNCHANGED sleepVars
     ELSE SleepFrom(Dt)
  /\ UNCHANGED <<state_, ownerVars, startVars, wheelVars, current_tick_count_,
                 task_list, clockVars, fate, alive>>

(* Wrong: what is left of dt is not slept.                                 *)
SleepsOnNever == FALSE

(* Wrong: the condition of the do-while is turned around.                  *)
SleepsOnShut == real_dt > 0 \/ state_ = "kShutdown"

SleepsOn == state_ # "kShutdown" /\ real_dt > 0

TimerWakes ==
  /\ TimerAt("sleep")
  /\ now >= last_loop
  /\ IF SleepsOn THEN SleepFrom(real_dt)
                 ELSE tpc' = "tick" /\ UNCHANGED sleepVars
  /\ UNCHANGED <<state_, ownerVars, startVars, wheelVars, current_tick_count_,
                 task_list, clockVars, fate, alive>>

(* Wrong: a level is advanced whenever the one below is at its last slot.  *)
CarriesFromBelow(ii) ==
  ii > 1 => timing_wheel_vec_[ii - 1].current_pos = WheelSize[ii - 1] - 1

(* A tick of level 0 carries into level ii when all levels below are at    *)
(* their last slot, and into the map when all levels are.                  *)
Carries(ii) ==
  \A jj \in 1 .. ii - 1 : timing_wheel_vec_[jj].current_pos = WheelSize[jj] - 1

(* Every level that ticks empties its slot.  The list of level 0 is run;   *)
(* those of the other levels are dropped, as borrow_func splices what it   *)
(* took only in the branch for the last level.                             *)
Ticked ==
  [ii \in Levels |->
     IF Carries(ii)
     THEN [current_pos |-> (timing_wheel_vec_[ii].current_pos + 1)
                             % WheelSize[ii],
           wheel |-> [timing_wheel_vec_[ii].wheel EXCEPT
                        ![timing_wheel_vec_[ii].current_pos] = <<>>]]
     ELSE timing_wheel_vec_[ii]]

(* Wrong: the slot after it.                                               *)
SlotOfBorrowedNext(e) == (e.tick_count + 1) % Scale[Last]

(* The list the last level's borrow_func takes from the map, appended to   *)
(* the slots of the last level.  The slot is taken modulo the scale: with  *)
(* more than one level it may lie outside the wheel.                       *)
Borrowed == Lookup(timing_task_map_, timing_task_map_pos_)

SlotOfBorrowed(e) == e.tick_count % Scale[Last]

OutOfWheel ==
  \E i \in DOMAIN Borrowed : SlotOfBorrowed(Borrowed[i]) >= WheelSize[Last]

(* Wrong: the list taken from the map is not spliced.                      *)
SpliceNothing == Ticked

(* Wrong: the lists taken from the map replace those of the slots.         *)
SpliceOver ==
  [Ticked EXCEPT ![Last].wheel =
     [slot \in DOMAIN @ |->
        SelectSeq(Borrowed, LAMBDA e : SlotOfBorrowed(e) = slot)]]

(* The last level's wheel when the first i entries have been spliced.      *)
SplicedWheel[i \in 0 .. Len(Borrowed)] ==
  IF i = 0 THEN Ticked[Last].wheel
  ELSE [SplicedWheel[i - 1] EXCEPT
          ![SlotOfBorrowed(Borrowed[i])] = Append(@, Borrowed[i])]

Spliced == [Ticked EXCEPT ![Last].wheel = SplicedWheel[Len(Borrowed)]]

(* Tick under tick_mutex_.  With no task to run the tick is counted at     *)
(* once; the wheels are only cleared when the thread has returned.         *)
TimerTick ==
  /\ TimerAt("tick")
  /\ timing_wheel_vec_ # <<>>
  /\ IF Carries(Last + 1)
     THEN /\ timing_task_map_pos_' = timing_task_map_pos_ + 1
          /\ timing_task_map_' = [key \in DOMAIN timing_task_map_
                                            \ {timing_task_map_pos_} |->
                                    timing_task_map_[key]]
          /\ IF OutOfWheel
             THEN alive' = FALSE /\ timing_wheel_vec_' = Ticked
             ELSE UNCHANGED alive /\ timing_wheel_vec_' = Spliced
     ELSE /\ timing_wheel_vec_' = Ticked
          /\ UNCHANGED <<timing_task_map_, timing_task_map_pos_, alive>>
  /\ task_list' = timing_wheel_vec_[1].wheel[timing_wheel_vec_[1].current_pos]
  /\ IF task_list' # <<>>
     THEN tpc' = "run" /\ UNCHANGED current_tick_count_
     ELSE /\ tpc' = "loop"
          /\ current_tick_count_' = current_tick_count_ + 1
  /\ UNCHANGED <<state_, ownerVars, startVars, sleepVars, clockVars, fate>>

(* Undefined behaviour: timing_wheel_vec_[0] of an empty vector.           *)
TimerTickNoWheels ==
  /\ TimerAt("tick")
  /\ timing_wheel_vec_ = <<>>
  /\ alive' = FALSE
  /\ UNCHANGED <<state_, ownerVars, startVars, wheelVars, current_tick_count_,
                 tpc, sleepVars, task_list, clockVars, fate>>

(* A task returns or throws: the next one of the slot is run either way.   *)
TaskEnds ==
  /\ TimerAt("run")
  /\ fate' = [fate EXCEPT ![Head(task_list).task] =
                IF @ = "near" THEN "done" ELSE "ran"]
  /\ task_list' = Tail(task_list)
  /\ tpc' = IF Tail(task_list) = <<>> THEN "count" ELSE "run"
  /\ UNCHANGED <<state_, ownerVars, startVars, wheelVars, current_tick_count_,
                 sleepVars, clockVars, alive>>

TimerCounts ==
  /\ TimerAt("count")
  /\ current_tick_count_' = current_tick_count_ + 1
  /\ tpc' = "loop"
  /\ UNCHANGED <<state_, ownerVars, startVars, wheelVars, sleepVars, task_list,
                 clockVars, fate, alive>>

TimerStep ==
  \/ TimerBegins \/ TimerLoop \/ TimerWakes \/ TimerTick \/ TimerTickNoWheels
  \/ TaskEnds \/ TimerCounts

(* Time passes, up to MaxTime; a shutdown still waits for the piece of dt  *)
(* being slept.                                                            *)
ClockAdvances ==
  /\ alive
  /\ now < MaxTime \/ (state_ = "kShutdown" /\ now < last_loop)
  /\ now' = now + 1
  /\ latest' = IF now' > latest THEN now' ELSE latest
  /\ UNCHANGED <<state_, ownerVars, startVars, wheelVars, current_tick_count_,
                 tpc, sleepVars, task_list, set_backs, fate, alive>>

(* Somebody sets the clock back.  Setting it forward needs no action: the  *)
(* timer thread may at any time be kept from running while time passes.    *)
ClockSetBack ==
  /\ alive
  /\ set_backs < MaxSetBacks
  /\ now' = now - SetBack
  /\ set_backs' = set_backs + 1
  /\ UNCHANGED <<state_, ownerVars, startVars, wheelVars, current_tick_count_,
                 tpc, sleepVars, task_list, latest, fate, alive>>

-----------------------------------------------------------------------------
OwnerContinues == StartReturns \/ ShutdownJoin

Next ==
  \/ Initialize \/ InitializeBadOptions \/ Start \/ ShutdownExchange \/ Destroy
  \/ OwnerContinues
  \/ TaskShutsDown
  \/ \E k \in Tasks, tp \in Times, start \in StartsRead :
       ExecuteAt(k, tp, start)
  \/ TimerStep
  \/ ClockAdvances \/ ClockSetBack

Spec == Init /\ [][Next]_vars

(* Time passes, runnable threads run, tasks return.  Nothing makes         *)
(* ExecutorManager or a user start a call.                                 *)
Fairness ==
  /\ WF_vars(ClockAdvances)
  /\ WF_vars(TimerStep)
  /\ WF_vars(OwnerContinues)

FairSpec == Spec /\ Fairness

-----------------------------------------------------------------------------
(* Properties.                                                             *)

(* Types of the variables.                                                 *)
TypeOK ==
  /\ state_ \in State
  /\ script \in Seq(LifecycleCalls)
  /\ opc \in {"idle", "start", "join"}
  /\ {joinable, start_flag_, alive} \subseteq BOOLEAN
  /\ {start_time_point_, timing_task_map_pos_, current_tick_count_, last_loop,
      real_dt, now, latest} \subseteq Nat
  /\ now <= latest
  /\ set_backs \in 0 .. MaxSetBacks
  /\ timing_wheel_vec_ # <<>> =>
       /\ DOMAIN timing_wheel_vec_ = Levels
       /\ \A ii \in Levels :
            /\ timing_wheel_vec_[ii].current_pos \in 0 .. WheelSize[ii] - 1
            /\ timing_wheel_vec_[ii].wheel \in
                 [0 .. WheelSize[ii] - 1 -> Seq(Entries)]
  /\ DOMAIN timing_task_map_ \subseteq Nat
  /\ \A key \in DOMAIN timing_task_map_ :
       timing_task_map_[key] \in Seq(Entries)
  /\ tpc \in {"none", "begin", "loop", "sleep", "tick", "run", "count",
              "exited"}
  /\ task_list \in Seq(Entries)
  /\ fate \in [Tasks -> {"new", "past", "near", "far", "done", "ran"}]

(* The next tick whose slot is to be taken.                                *)
NextTick == IF InWindow THEN current_tick_count_ + 1 ELSE current_tick_count_

(* How often each level has been advanced, with the head start that        *)
(* Initialize gives to every level but the first and to the map.           *)
Odometer[ii \in 1 .. Len(WheelSize) + 1] ==
  IF ii = 1 THEN NextTick ELSE Odometer[ii - 1] \div WheelSize[ii - 1] + 1

(* The wheels are an odometer of the ticks: through every carry, of any    *)
(* number of levels, whether tasks were run or not, each level and the map *)
(* stand where current_tick_count_ says (time_wheel_executor.cc:55-66, 82, *)
(* 209; .h:77-88).                                                         *)
OdometerInSync ==
  timing_wheel_vec_ # <<>> /\ alive =>
    /\ \A ii \in Levels :
         timing_wheel_vec_[ii].current_pos = Odometer[ii] % WheelSize[ii]
    /\ timing_task_map_pos_ = Odometer[Last + 1]

InSlot(k, ii, slot) ==
  \E i \in DOMAIN timing_wheel_vec_[ii].wheel[slot] :
    timing_wheel_vec_[ii].wheel[slot][i].task = k

(* A task whose time lies less than one revolution of level 0 ahead and    *)
(* whose slot was not taken yet runs in its own tick, neither earlier nor  *)
(* later, wherever the wheels stood when it was handed over                *)
(* (time_wheel_executor.cc:136-146; .h:77-88).                             *)
NearIsPunctual ==
  timing_wheel_vec_ # <<>> =>
    \A k \in {t \in Tasks : fate[t] = "near"} :
      \/ \E i \in DOMAIN task_list :
           task_list[i] = [tick_count |-> current_tick_count_, task |-> k]
      \/ \E n \in NextTick .. NextTick + WheelSize[1] - 1 :
           \E i \in DOMAIN timing_wheel_vec_[1].wheel[n % WheelSize[1]] :
             timing_wheel_vec_[1].wheel[n % WheelSize[1]][i] =
               [tick_count |-> n, task |-> k]

InMap(k) ==
  \E key \in DOMAIN timing_task_map_ :
    \E i \in DOMAIN timing_task_map_[key] : timing_task_map_[key][i].task = k

Stored(k) ==
  \/ \E i \in DOMAIN task_list : task_list[i].task = k
  \/ \E ii \in Levels :
       \E slot \in 0 .. WheelSize[ii] - 1 : InSlot(k, ii, slot)
  \/ InMap(k)

(* "Multi-level timing wheel" (time_wheel_executor.h:101): a task that was *)
(* taken in is kept until it has run or Shutdown clears the wheels; no     *)
(* carry loses it.                                                         *)
NothingForgotten ==
  timing_wheel_vec_ # <<>> /\ alive =>
    \A k \in Tasks : fate[k] \in {"near", "far"} => Stored(k)

(* What Shutdown may cut off dt: all of it but the first piece.            *)
CutOff ==
  IF state_ = "kShutdown" /\ Dt > MaxSleepDt THEN Dt - MaxSleepDt ELSE 0

(* A near task does not run before the system clock has shown the end of   *)
(* its tick, and so the point in time it was handed over for, also if the  *)
(* clock is set back and forth.  The exception is Shutdown: if dt is more  *)
(* than kMaxSleepDt, the sleep under way ends with its piece, and the      *)
(* tasks of the next slot run too early, by what is left of that one dt    *)
(* and never more (time_wheel_executor.cc:177-193, 195-201).               *)
NeverBeforeItsTime ==
  tpc = "run" =>
    \A i \in DOMAIN task_list :
      fate[task_list[i].task] = "near" =>
        latest + CutOff
          >= start_time_point_ + (task_list[i].tick_count + 1) * Dt

(* What Now() returns.                                                     *)
Now == current_tick_count_ * Dt + start_time_point_

(* The executor's own time, which users add to for ExecuteAt, does not run *)
(* ahead of the clock, however late and in however many pieces the timer   *)
(* thread sleeps, until a Shutdown cuts a dt of more than kMaxSleepDt:     *)
(* that one tick is counted all the same, and Now() stays ahead by what    *)
(* was left of it at most (time_wheel_executor.cc:117-122, 177-193, 209).  *)
NowNeverAhead == start_flag_ => Now <= latest + CutOff

(* With one level, a task that is not run in its own tick is run exactly   *)
(* one revolution before or after it: the map and the slot just emptied    *)
(* shift a task by no more than that (time_wheel_executor.cc:75, 142, 151).*)
AtMostOneRevolutionOff ==
  tpc = "run" /\ Last = 1 =>
    \A i \in DOMAIN task_list :
      task_list[i].tick_count - current_tick_count_
        \in {-WheelSize[1], 0, WheelSize[1]}

(* Users who stop when Shutdown is called, and tasks that go on calling    *)
(* while it waits for them, never reach wheels that are gone, nor does the *)
(* timer thread (time_wheel_executor.cc:102-108).                          *)
NeverCrashes == alive

(* A near task is run, unless Shutdown comes first                         *)
(* (time_wheel_executor.cc:175-215).                                       *)
NearTasksRun ==
  \A k \in Tasks :
    fate[k] = "near" ~> fate[k] = "done" \/ state_ = "kShutdown"

(* Start and Shutdown return: the timer thread raises start_flag_, and     *)
(* sees kShutdown within one piece of dt (time_wheel_executor.cc:93, 103,  *)
(* 172, 193).                                                              *)
LifecycleCallsReturn == \A place \in {"start", "join"} :
  opc = place ~> opc = "idle"

(* The executor as ExecutorManager knows it.                               *)
L == INSTANCE ExecutorLifecycle
       WITH state  <- state_,
            thread <- IF tpc = "none" THEN "none"
                      ELSE IF ~joinable THEN "joined"
                      ELSE IF tpc = "exited" THEN "exited"
                      ELSE "running"

(* Driven in the order of ExecutorManager, the executor keeps to the life  *)
(* cycle that ExecutorManager counts on: its timer thread returns if, and  *)
(* only if, it was shut down (time_wheel_executor.cc:87-111, 175, 193).    *)
KeepsLifecycle == L!Spec

(* The tasks of the entries of a list that are among due, in the order of  *)
(* the list.                                                               *)
TasksIn(list, due) ==
  LET f[i \in 0 .. Len(list)] ==
        IF i = 0 THEN <<>>
        ELSE IF list[i] \in due THEN Append(f[i - 1], list[i].task)
        ELSE f[i - 1]
  IN  f[Len(list)]

(* What is kept in the list being run and in the slots of level 0.         *)
FirstEntries ==
  IF timing_wheel_vec_ = <<>> THEN {}
  ELSE {task_list[i] : i \in DOMAIN task_list} \cup
       UNION {{timing_wheel_vec_[1].wheel[slot][i] :
                 i \in DOMAIN timing_wheel_vec_[1].wheel[slot]} :
                slot \in 0 .. WheelSize[1] - 1}

NearEntries == {e \in FirstEntries : fate[e.task] = "near"}

(* The near tasks of tick n: those of the list being run, then those of    *)
(* the slot of the tick.                                                   *)
DueIn(n) == [tick_count : {n}, task : {k \in Tasks : fate[k] = "near"}]

NearIn(n) ==
  TasksIn(task_list, DueIn(n))
    \o TasksIn(timing_wheel_vec_[1].wheel[n % WheelSize[1]], DueIn(n))

Agenda == [n \in {e.tick_count : e \in NearEntries} |-> NearIn(n)]

TS == INSTANCE TimerService
        WITH tick    <- current_tick_count_,
             agenda  <- Agenda,
             done    <- {k \in Tasks : fate[k] = "done"},
             serving <- tpc \notin {"none", "exited"}

(* For near tasks the wheels are the timer service they are meant to be:   *)
(* each runs in its own tick, once, in the order of the calls within the   *)
(* tick, and the tick is counted only when they have run, whatever carries *)
(* bring down among them; they are dropped only when the timer thread has  *)
(* returned (time_wheel_executor.cc:102-108, 136-146, 195-209).            *)
NearTasksOnTime == TS!Spec

(* "distance of the tick from start_time" (time_wheel_executor.h:65): a    *)
(* task is not run in a tick before the one its entry names.               *)
NeverEarly ==
  tpc = "run" =>
    \A i \in DOMAIN task_list : task_list[i].tick_count <= current_tick_count_

(* The same: nor in a tick after it.                                       *)
NeverLate ==
  tpc = "run" =>
    \A i \in DOMAIN task_list : task_list[i].tick_count >= current_tick_count_
=============================================================================
