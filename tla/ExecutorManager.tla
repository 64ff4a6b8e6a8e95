-------------------------- MODULE ExecutorManager --------------------------
(***************************************************************************)
(* src/runtime/core/executor/executor_manager: checks the executors of the *)
(* configuration, makes and initializes them, starts them in this order    *)
(* and shuts them down in the opposite one.                                *)
(*                                                                         *)
(* All of it runs on the main thread, called by AdosCore.  An executor is  *)
(* seen from outside: its state_ and its thread, launched by Initialize    *)
(* (guard_thread) or Start (time_wheel), joined by Shutdown.  What goes on *)
(* inside is in GuardThreadExecutor and TimeWheelExecutor.  The attributes *)
(* of the threads are set as ThreadTool says.                              *)
(***************************************************************************)
EXTENDS ThreadTool, SequencesExt

CONSTANTS
  Names,        \* executor names
  DefaultMain,  \* "nxpilot_main"
  DefaultGuard, \* "nxpilot_guard"
  Configs       \* the values executors_options may take

Types == {"main_thread", "guard_thread", "time_wheel", "unknown"}

(* decodes: whether the options of the executor can be decoded.            *)
ExecutorOptions ==
  [name : Names, type : Types, decodes : BOOLEAN, options : ThreadOptions]

(* Names are texts, and what a thread makes of its name is one, too.       *)
ASSUME NamesAssumption ==
  \A name \in Names : {name, Shortened(name)} \subseteq STRING

ASSUME ConfigAssumption ==
  /\ {DefaultMain, DefaultGuard} \subseteq Names
  /\ DefaultMain # DefaultGuard
  /\ Configs \subseteq Seq(ExecutorOptions)

VARIABLES
  executors_options,    \* options_.executors_options
  state_,               \* std::atomic<State> of the manager
  used_executor_names_,
  executor_map_,        \* name -> the executor: type, state_, options_, its
                        \* thread and that thread's attributes
  mpc,                  \* the call the manager is in, or "idle"
  todo,                 \* executors still to be made, started or shut down
  thrown,               \* the call ended by an exception
  alive                 \* FALSE once the process has died

managerVars == <<executors_options, state_, used_executor_names_,
                 executor_map_, mpc, todo, thrown, alive>>

(* A thread that was launched has still to set its attributes.             *)
Threads == {"none", "launched", "running", "exited", "joined"}

Alive == {"launched", "running"}

Attributes == [name : STRING, cpus : SUBSET UsableCpus, sched : SchedOptions]

State == {"kPreInit", "kInit", "kStart", "kShutdown"}

ManagerInit ==
  /\ executors_options \in Configs
  /\ state_ = "kPreInit"
  /\ used_executor_names_ = <<>>
  /\ executor_map_ = <<>>
  /\ mpc = "idle"
  /\ todo = <<>>
  /\ thrown = FALSE
  /\ alive = TRUE

ManagerAt(place) == alive /\ mpc = place

Throw == thrown' = TRUE /\ mpc' = "idle"

Return == UNCHANGED thrown /\ mpc' = "idle"

-----------------------------------------------------------------------------
(* Initialize.                                                             *)

(* "MainThreadExecutor should be the first", GuardThreadExecutor the first *)
(* or the second after it.                                                 *)
WellPlaced ==
  \A idx \in DOMAIN executors_options :
    LET type == executors_options[idx].type
    IN  /\ type = "main_thread" => idx = 1
        /\ type = "guard_thread" =>
             idx = 1 \/ (idx = 2 /\ executors_options[1].type = "main_thread")

(* No CPUs and no policy.                                                  *)
DefaultOptions == [cpus |-> {}, sched |-> [policy |-> "", priority |-> 0]]

(* The entry of a type that is configured once at most, or the default.    *)
OrDefault(type, name) ==
  IF \E e \in ToSet(executors_options) : e.type = type
  THEN CHOOSE e \in ToSet(executors_options) : e.type = type
  ELSE [name |-> name, type |-> type, decodes |-> TRUE,
        options |-> DefaultOptions]

(* How many entries are for main and guard: in WellPlaced options the      *)
(* first ones.                                                             *)
InFront ==
  CHOOSE n \in 0 .. 2 :
    \A idx \in DOMAIN executors_options :
      idx <= n <=>
        executors_options[idx].type \in {"main_thread", "guard_thread"}

(* One main, one guard, configured or by default, then all the others.     *)
ToInitialize ==
  <<OrDefault("main_thread", DefaultMain),
    OrDefault("guard_thread", DefaultGuard)>>
    \o SubSeq(executors_options, InFront + 1, Len(executors_options))

InitializeBegins ==
  /\ ManagerAt("idle")
  /\ state_ = "kPreInit"
  /\ WellPlaced
  /\ state_' = "kInit"
  /\ mpc' = "init"
  /\ todo' = ToInitialize
  /\ UNCHANGED <<executors_options, used_executor_names_, executor_map_,
                 thrown, alive>>

(* A second Initialize, or the node does not decode, or a misplaced entry: *)
(* nothing was made yet.                                                   *)
InitializeThrows ==
  /\ ManagerAt("idle")
  /\ state_' = "kInit"
  /\ Throw
  /\ UNCHANGED <<executors_options, used_executor_names_, executor_map_, todo,
                 alive>>

(* Looked at only for executors other than main and guard.                 *)
Rejected(e) ==
  /\ e.type \notin {"main_thread", "guard_thread"}
  /\ e.name \in DOMAIN executor_map_ \/ e.type = "unknown"

(* The attributes of the main thread, which creates all others: set by the *)
(* main executor, the first that is made.                                  *)
MainAttributes ==
  IF used_executor_names_ = <<>> THEN ProcessAttributes
  ELSE executor_map_[used_executor_names_[1]].attributes

(* The main executor sets the attributes of the thread that initializes    *)
(* it; a thread begins with those of the one that launched it.             *)
Fresh(e) ==
  [type       |-> e.type,
   state      |-> "kInit",
   options    |-> e.options,
   thread     |-> IF e.type = "guard_thread" THEN "launched" ELSE "none",
   attributes |-> IF e.type = "main_thread"
                  THEN SetUp(MainAttributes, e.name, e.options)
                  ELSE MainAttributes]

WithExecutor(name, x) ==
  [n \in DOMAIN executor_map_ \cup {name} |->
     IF n = name THEN x ELSE executor_map_[n]]

(* An executor whose options do not decode throws before it has a thread   *)
(* and is destroyed.  One whose name is taken is initialized but not kept: *)
(* it is destroyed with its thread running, which is std::terminate.       *)
InitializeNext ==
  /\ ManagerAt("init")
  /\ todo # <<>>
  /\ LET e == Head(todo)
     IN  IF Rejected(e) \/ ~e.decodes
         THEN /\ Throw
              /\ UNCHANGED <<used_executor_names_, executor_map_, todo, alive>>
         ELSE /\ used_executor_names_' = Append(used_executor_names_, e.name)
              /\ todo' = Tail(todo)
              /\ IF e.name \in DOMAIN executor_map_
                 THEN /\ alive' = (Fresh(e).thread = "none")
                      /\ UNCHANGED executor_map_
                 ELSE /\ executor_map_' = WithExecutor(e.name, Fresh(e))
                      /\ UNCHANGED alive
              /\ UNCHANGED <<mpc, thrown>>
  /\ UNCHANGED <<executors_options, state_>>

InitializeReturns ==
  /\ ManagerAt("init")
  /\ todo = <<>>
  /\ Return
  /\ UNCHANGED <<executors_options, state_, used_executor_names_,
                 executor_map_, todo, alive>>

-----------------------------------------------------------------------------
(* Start.                                                                  *)

StartBegins ==
  /\ ManagerAt("idle")
  /\ state_' = "kStart"
  /\ IF state_ = "kInit"
     THEN mpc' = "start" /\ todo' = used_executor_names_ /\ UNCHANGED thrown
     ELSE Throw /\ UNCHANGED todo
  /\ UNCHANGED <<executors_options, used_executor_names_, executor_map_,
                 alive>>

(* The names were all put in executor_map_, in state kInit, so neither     *)
(* check of the loop can fail.                                             *)
StartNext ==
  /\ ManagerAt("start")
  /\ todo # <<>>
  /\ executor_map_' =
       [executor_map_ EXCEPT
          ![Head(todo)].state  = "kStart",
          ![Head(todo)].thread =
             IF executor_map_[Head(todo)].type = "time_wheel" THEN "launched"
             ELSE @]
  /\ mpc' = "started"
  /\ UNCHANGED <<executors_options, state_, used_executor_names_, todo, thrown,
                 alive>>

(* A time_wheel executor waits for its thread to have set itself up.       *)
StartedNext ==
  /\ ManagerAt("started")
  /\ executor_map_[Head(todo)].type = "time_wheel" =>
       executor_map_[Head(todo)].thread # "launched"
  /\ todo' = Tail(todo)
  /\ mpc' = "start"
  /\ UNCHANGED <<executors_options, state_, used_executor_names_,
                 executor_map_, thrown, alive>>

StartReturns ==
  /\ ManagerAt("start")
  /\ todo = <<>>
  /\ Return
  /\ UNCHANGED <<executors_options, state_, used_executor_names_,
                 executor_map_, todo, alive>>

-----------------------------------------------------------------------------
(* Shutdown.                                                               *)

(* Wrong: the order of Start.                                              *)
ToShutDownForward == used_executor_names_

ToShutDown == Reverse(used_executor_names_)

ShutdownBegins ==
  /\ ManagerAt("idle")
  /\ state_' = "kShutdown"
  /\ IF state_ = "kShutdown"
     THEN Return /\ UNCHANGED todo
     ELSE mpc' = "shutdown" /\ todo' = ToShutDown /\ UNCHANGED thrown
  /\ UNCHANGED <<executors_options, used_executor_names_, executor_map_,
                 alive>>

ShutdownNext ==
  /\ ManagerAt("shutdown")
  /\ todo # <<>>
  /\ executor_map_' = [executor_map_ EXCEPT ![Head(todo)].state = "kShutdown"]
  /\ mpc' = "join"
  /\ UNCHANGED <<executors_options, state_, used_executor_names_, todo, thrown,
                 alive>>

(* Wrong: the thread is detached.                                          *)
ShutdownDetach ==
  /\ ManagerAt("join")
  /\ executor_map_' = [executor_map_ EXCEPT ![Head(todo)].thread = "detached"]
  /\ todo' = Tail(todo)
  /\ mpc' = "shutdown"
  /\ UNCHANGED <<executors_options, state_, used_executor_names_, thrown,
                 alive>>

(* Wrong: join() does not wait for a thread that has not set itself up.    *)
JoinsLaunched(x) == x.thread # "running"

(* join() returns when the thread has; there may be no thread.             *)
Joins(x) == x.thread \notin Alive

ShutdownJoin ==
  /\ ManagerAt("join")
  /\ Joins(executor_map_[Head(todo)])
  /\ executor_map_' =
       [executor_map_ EXCEPT
          ![Head(todo)].thread = IF @ = "none" THEN @ ELSE "joined"]
  /\ todo' = Tail(todo)
  /\ mpc' = "shutdown"
  /\ UNCHANGED <<executors_options, state_, used_executor_names_, thrown,
                 alive>>

ShutdownReturns ==
  /\ ManagerAt("shutdown")
  /\ todo = <<>>
  /\ Return
  /\ UNCHANGED <<executors_options, state_, used_executor_names_,
                 executor_map_, todo, alive>>

(* The steps of a call once it has begun.                                  *)
ManagerStep ==
  \/ InitializeNext \/ InitializeReturns
  \/ StartNext \/ StartedNext \/ StartReturns
  \/ ShutdownNext \/ ShutdownJoin \/ ShutdownReturns

(* Wrong: the attributes are set for the main thread, too.                 *)
ThreadSetsUpMain(name) ==
  /\ alive
  /\ name \in DOMAIN executor_map_
  /\ executor_map_[name].thread = "launched"
  /\ executor_map_' =
       LET set  == SetUp(executor_map_[name].attributes, name,
                         executor_map_[name].options)
       IN  [executor_map_ EXCEPT ![name].thread = "running",
              ![name].attributes = set,
              ![used_executor_names_[1]].attributes = set]
  /\ UNCHANGED <<executors_options, state_, used_executor_names_, mpc, todo,
                 thrown, alive>>

(* The first thing the thread of an executor does.                         *)
ThreadSetsUp(name) ==
  /\ alive
  /\ name \in DOMAIN executor_map_
  /\ executor_map_[name].thread = "launched"
  /\ executor_map_' =
       [executor_map_ EXCEPT
          ![name].thread     = "running",
          ![name].attributes = SetUp(@, name, executor_map_[name].options)]
  /\ UNCHANGED <<executors_options, state_, used_executor_names_, mpc, todo,
                 thrown, alive>>

(* The thread of an executor that was shut down returns: that it does is   *)
(* shown in GuardThreadExecutor and TimeWheelExecutor.                     *)
ThreadExits(name) ==
  /\ alive
  /\ name \in DOMAIN executor_map_
  /\ executor_map_[name].state = "kShutdown"
  /\ executor_map_[name].thread = "running"
  /\ executor_map_' = [executor_map_ EXCEPT ![name].thread = "exited"]
  /\ UNCHANGED <<executors_options, state_, used_executor_names_, mpc, todo,
                 thrown, alive>>

(* Destroying executor_map_ with a thread that was not joined is           *)
(* std::terminate.                                                         *)
Destroyed ==
  /\ alive' = \A name \in DOMAIN executor_map_ :
                executor_map_[name].thread \in {"none", "joined"}
  /\ UNCHANGED <<executors_options, state_, used_executor_names_,
                 executor_map_, mpc, todo, thrown>>

-----------------------------------------------------------------------------
(* Types of the manager's variables.                                       *)
ManagerTypeOK ==
  /\ executors_options \in Configs
  /\ state_ \in State
  /\ used_executor_names_ \in Seq(Names)
  /\ DOMAIN executor_map_ \subseteq Names
  /\ \A name \in DOMAIN executor_map_ :
       executor_map_[name] \in
         [type : Types \ {"unknown"}, state : State, options : ThreadOptions,
          thread : Threads, attributes : Attributes]
  /\ mpc \in {"idle", "init", "start", "started", "shutdown", "join"}
  /\ mpc = "init" => todo \in Seq(ExecutorOptions)
  /\ mpc \in {"start", "started", "shutdown", "join"} => todo \in Seq(Names)
  /\ {thrown, alive} \subseteq BOOLEAN
=============================================================================
