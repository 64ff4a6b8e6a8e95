------------------------------ MODULE AdosCore ------------------------------
(***************************************************************************)
(* src/runtime/core/ados_core and src/runtime/main: the main thread brings *)
(* the runtime up, waits for a signal and takes it down again; signal      *)
(* handlers run on any of its threads at any moment.                       *)
(*                                                                         *)
(* EnterState keeps state_, here phase; the hooks it calls are left out:   *)
(* nothing registers one.                                                  *)
(***************************************************************************)
EXTENDS ExecutorManager

CONSTANTS
  Signals,    \* {SIGINT, SIGTERM}
  Main,       \* the main thread; the others are named as their executors
  MaxSignals  \* bound on the number of signals delivered

ASSUME CoreAssumption ==
  /\ Main \notin Names
  /\ MaxSignals \in Nat

(* The values of AdosCore::State that are ever entered, in their order.    *)
Phases ==
  << "kPreInit", "kPreInitConfigurator", "kPostInitConfigurator",
     "kPreInitExecutor", "kPostInitExecutor", "kPostInit",
     "kPreStart", "kPreStartConfigurator", "kPostStartConfigurator",
     "kPreStartExecutor", "kPostStartExecutor", "kPostStart",
     "kPreShutdown", "kPreShutdownExecutor", "kPostShutdownExecutor",
     "kPreShutdownConfigurator", "kPostShutdownConfigurator",
     "kPostShutdown" >>

VARIABLES
  cpc,                  \* the main thread's place in main() and AdosCore
  core,                 \* "none", "live", "destroyed": the object core
  phase,                \* AdosCore::state_
  global_core_ptr,      \* TRUE: points to core
  shutdown_flag_,
  shutdown_promise_,    \* TRUE: set
  shutdown_impl_flag_,
  configurator,         \* state_ of ConfiguratorManager
  failed,               \* main() is on its way to return -1
  handlers,             \* the handlers that run, in order of delivery
  signals               \* how many were delivered

flagVars == <<shutdown_flag_, shutdown_promise_, shutdown_impl_flag_>>
vars == <<managerVars, cpc, core, phase, global_core_ptr, flagVars,
          configurator, failed, handlers, signals>>

Init ==
  /\ ManagerInit
  /\ cpc = "begin"
  /\ core = "none"
  /\ phase = "kPreInit"
  /\ global_core_ptr = FALSE
  /\ shutdown_flag_ = FALSE
  /\ shutdown_promise_ = FALSE
  /\ shutdown_impl_flag_ = FALSE
  /\ configurator = "kPreInit"
  /\ failed = FALSE
  /\ handlers = <<>>
  /\ signals = 0

On(thread) == {i \in DOMAIN handlers : handlers[i].thread = thread}

(* A handler interrupts the thread it runs on.                             *)
MainAt(place) == alive /\ cpc = place /\ On(Main) = {}

(* An exception leaves Initialize or Start: main() unwinds, which destroys *)
(* core, and returns -1.                                                   *)
Fails == failed' = TRUE /\ cpc' = "destroy"

(* The last of the states entered in a step is what remains of them.       *)
EnterState(state) == phase' = state

-----------------------------------------------------------------------------
(* The main thread.                                                        *)

Construct ==
  /\ MainAt("begin")
  /\ core' = "live"
  /\ cpc' = "publish"
  /\ UNCHANGED <<managerVars, phase, global_core_ptr, flagVars, configurator,
                 failed, handlers, signals>>

Publish ==
  /\ MainAt("publish")
  /\ global_core_ptr' = TRUE
  /\ cpc' = "configure"
  /\ UNCHANGED <<managerVars, core, phase, flagVars, configurator, failed,
                 handlers, signals>>

(* An exception: no path, no such file or not YAML; or, later, no node to  *)
(* look up the executors in.                                               *)
ConfiguratorInitialize ==
  /\ MainAt("configure")
  /\ configurator' = "kInit"
  /\ \/ /\ cpc' = "initialize" /\ UNCHANGED failed
        /\ EnterState("kPreInitExecutor")
     \/ /\ Fails
        /\ EnterState("kPreInitConfigurator") \/ EnterState("kPreInitExecutor")
  /\ UNCHANGED <<managerVars, core, global_core_ptr, flagVars, handlers,
                 signals>>

(* A call of the executor manager begins at one place of the main thread   *)
(* and has returned, or thrown, at the next.                               *)
ExecutorsInitialize ==
  /\ MainAt("initialize")
  /\ InitializeBegins \/ InitializeThrows
  /\ cpc' = "initializing"
  /\ UNCHANGED <<core, phase, global_core_ptr, flagVars, configurator, failed,
                 handlers, signals>>

ManagerReturned(at) == MainAt(at) /\ mpc = "idle"

(* The manager's Initialize is over; Start begins with the configurator.   *)
ConfiguratorStart ==
  /\ ManagerReturned("initializing")
  /\ IF thrown
     THEN Fails /\ UNCHANGED <<configurator, phase>>
     ELSE /\ cpc' = "start" /\ UNCHANGED failed
          /\ configurator' = "kStart"
          /\ EnterState("kPreStartExecutor")
  /\ UNCHANGED <<managerVars, core, global_core_ptr, flagVars, handlers,
                 signals>>

(* Wrong: the states after Start are entered before it is called.          *)
ExecutorsStartEntered ==
  /\ MainAt("start")
  /\ StartBegins
  /\ cpc' = "starting"
  /\ EnterState("kPostStart")
  /\ UNCHANGED <<core, global_core_ptr, flagVars, configurator, failed,
                 handlers, signals>>

ExecutorsStart ==
  /\ MainAt("start")
  /\ StartBegins
  /\ cpc' = "starting"
  /\ UNCHANGED <<core, phase, global_core_ptr, flagVars, configurator, failed,
                 handlers, signals>>

(* The manager's Start is over, and with it StartImpl.                     *)
Started ==
  /\ ManagerReturned("starting")
  /\ IF thrown THEN Fails /\ UNCHANGED phase
     ELSE cpc' = "wait" /\ EnterState("kPostStart") /\ UNCHANGED failed
  /\ UNCHANGED <<managerVars, core, global_core_ptr, flagVars, configurator,
                 handlers, signals>>

(* shutdown_promise_.get_future().wait() returns.                          *)
WaitReturns ==
  /\ MainAt("wait")
  /\ shutdown_promise_
  /\ cpc' = "shutdown"
  /\ UNCHANGED <<managerVars, core, phase, global_core_ptr, flagVars,
                 configurator, failed, handlers, signals>>

(* ShutdownImpl, at the end of Start and in the destructor: executors      *)
(* first, then the configurator, and once only.                            *)
ShutdownImpl ==
  /\ MainAt("shutdown") \/ MainAt("destroy")
  /\ ~shutdown_impl_flag_
  /\ shutdown_impl_flag_' = TRUE
  /\ EnterState("kPreShutdownExecutor")
  /\ ShutdownBegins
  /\ cpc' = IF cpc = "shutdown" THEN "shutting" ELSE "unwinding"
  /\ UNCHANGED <<core, global_core_ptr, shutdown_flag_, shutdown_promise_,
                 configurator, failed, handlers, signals>>

ShutdownImplAgain ==
  /\ MainAt("destroy")
  /\ shutdown_impl_flag_
  /\ cpc' = "free"
  /\ UNCHANGED <<managerVars, core, phase, global_core_ptr, flagVars,
                 configurator, failed, handlers, signals>>

ConfiguratorShutdown ==
  /\ ManagerReturned("shutting") \/ ManagerReturned("unwinding")
  /\ configurator' = "kShutdown"
  /\ EnterState("kPostShutdown")
  /\ cpc' = IF cpc = "shutting" THEN "request" ELSE "free"
  /\ UNCHANGED <<managerVars, core, global_core_ptr, flagVars, failed,
                 handlers, signals>>

(* core.Shutdown() in main().                                              *)
MainShutdown ==
  /\ MainAt("request")
  /\ cpc' = "unpublish"
  /\ shutdown_flag_' = TRUE
  /\ shutdown_promise_' = (shutdown_promise_ \/ ~shutdown_flag_)
  /\ UNCHANGED <<managerVars, core, phase, global_core_ptr,
                 shutdown_impl_flag_, configurator, failed, handlers, signals>>

(* Wrong: main() leaves global_core_ptr as it is.                          *)
StillPublished == UNCHANGED global_core_ptr

(* global_core_ptr = nullptr, which an exception skips.                    *)
Unpublished == global_core_ptr' = FALSE

Unpublish ==
  /\ MainAt("unpublish")
  /\ Unpublished
  /\ cpc' = "destroy"
  /\ UNCHANGED <<managerVars, core, phase, flagVars, configurator, failed,
                 handlers, signals>>

(* The members of core are destroyed, the executors among them.            *)
Free ==
  /\ MainAt("free")
  /\ Destroyed
  /\ core' = "destroyed"
  /\ cpc' = "exit"
  /\ UNCHANGED <<phase, global_core_ptr, flagVars, configurator, failed,
                 handlers, signals>>

Exit ==
  /\ MainAt("exit")
  /\ cpc' = "gone"
  /\ UNCHANGED <<managerVars, core, phase, global_core_ptr, flagVars,
                 configurator, failed, handlers, signals>>

(* The steps of the manager's call that the main thread is in.             *)
ManagerContinues ==
  /\ On(Main) = {}
  /\ ManagerStep
  /\ UNCHANGED <<cpc, core, phase, global_core_ptr, flagVars, configurator,
                 failed, handlers, signals>>

MainStep ==
  \/ Construct \/ Publish
  \/ ConfiguratorInitialize \/ ExecutorsInitialize
  \/ ConfiguratorStart \/ ExecutorsStart
  \/ Started \/ WaitReturns
  \/ ShutdownImpl \/ ShutdownImplAgain \/ ConfiguratorShutdown
  \/ MainShutdown \/ Unpublish \/ Free \/ Exit
  \/ ManagerContinues

-----------------------------------------------------------------------------
(* Signals.                                                                *)

RunningThreads ==
  {Main} \cup {name \in DOMAIN executor_map_ :
                 executor_map_[name].thread \in Alive}

(* A signal is delivered to any thread that does not run a handler of the  *)
(* same signal: there it is blocked until that handler has returned.       *)
Deliver(sig, thread) ==
  /\ alive /\ cpc # "gone"
  /\ signals < MaxSignals
  /\ thread \in RunningThreads
  /\ \A i \in On(thread) : handlers[i].sig # sig
  /\ handlers' = Append(handlers,
                        [sig |-> sig, thread |-> thread, place |-> "check"])
  /\ signals' = signals + 1
  /\ UNCHANGED <<managerVars, cpc, core, phase, global_core_ptr, flagVars,
                 configurator, failed>>

(* A handler may itself be interrupted by a later one on its thread.       *)
HandlerAt(i, place) ==
  /\ alive
  /\ handlers[i].place = place
  /\ \A j \in On(handlers[i].thread) : j <= i

GoesOn(i, place) == handlers' = [handlers EXCEPT ![i].place = place]

Done(i) == handlers' = RemoveAt(handlers, i)

(* Without a core the handler raises the signal again: it is delivered as  *)
(* soon as the handler returns, so the thread never leaves "raise".        *)
HandlerChecks(i) ==
  /\ HandlerAt(i, "check")
  /\ GoesOn(i, IF global_core_ptr THEN "exchange" ELSE "raise")
  /\ UNCHANGED <<managerVars, cpc, core, phase, global_core_ptr, flagVars,
                 configurator, failed, signals>>

(* Wrong: the flag is tested but not set.                                  *)
FlagTested == UNCHANGED shutdown_flag_

FlagExchanged == shutdown_flag_' = TRUE

(* Shutdown, called by a handler: only the first call sets the promise.    *)
HandlerExchanges(i) ==
  /\ HandlerAt(i, "exchange")
  /\ core = "live"
  /\ FlagExchanged
  /\ IF shutdown_flag_ THEN Done(i) ELSE GoesOn(i, "promise")
  /\ UNCHANGED <<managerVars, cpc, core, phase, global_core_ptr,
                 shutdown_promise_, shutdown_impl_flag_, configurator, failed,
                 signals>>

(* Wrong: like a notification, the value is lost unless main waits.        *)
PromiseSetIfAwaited == shutdown_promise_' = (cpc = "wait")

PromiseSet == shutdown_promise_' = TRUE

(* set_value on a promise that is set throws out of the handler:           *)
(* std::terminate.                                                         *)
HandlerSetsPromise(i) ==
  /\ HandlerAt(i, "promise")
  /\ core = "live"
  /\ PromiseSet
  /\ alive' = ~shutdown_promise_
  /\ Done(i)
  /\ UNCHANGED <<executors_options, state_, used_executor_names_,
                 executor_map_, mpc, todo, thrown, cpc, core, phase,
                 global_core_ptr, shutdown_flag_, shutdown_impl_flag_,
                 configurator, failed, signals>>

(* The handler found a core that is gone by now.                           *)
UsesDestroyedCore ==
  /\ core = "destroyed"
  /\ \E i \in DOMAIN handlers : handlers[i].place \in {"exchange", "promise"}

(* Undefined behaviour: a crash, or nothing.                               *)
HandlerStrays(i) ==
  /\ HandlerAt(i, "exchange") \/ HandlerAt(i, "promise")
  /\ core = "destroyed"
  /\ \/ alive' = FALSE /\ UNCHANGED handlers
     \/ Done(i) /\ UNCHANGED alive
  /\ UNCHANGED <<executors_options, state_, used_executor_names_,
                 executor_map_, mpc, todo, thrown, cpc, core, phase,
                 global_core_ptr, flagVars, configurator, failed, signals>>

HandlerStep ==
  \E i \in DOMAIN handlers :
    \/ HandlerChecks(i) \/ HandlerExchanges(i) \/ HandlerSetsPromise(i)
    \/ HandlerStrays(i)

(* The thread of an executor, unless a handler runs on it.                 *)
ExecutorThread(name) ==
  /\ On(name) = {}
  /\ ThreadSetsUp(name) \/ ThreadExits(name)
  /\ UNCHANGED <<cpc, core, phase, global_core_ptr, flagVars, configurator,
                 failed, handlers, signals>>

-----------------------------------------------------------------------------
Next ==
  \/ MainStep
  \/ \E sig \in Signals, thread \in RunningThreads : Deliver(sig, thread)
  \/ HandlerStep
  \/ \E name \in Names : ExecutorThread(name)

Spec == Init /\ [][Next]_vars

(* Runnable threads run and handlers return; nothing sends a signal.       *)
Fairness ==
  /\ WF_vars(MainStep)
  /\ WF_vars(HandlerStep)
  /\ WF_vars(\E name \in Names : ExecutorThread(name))

FairSpec == Spec /\ Fairness

-----------------------------------------------------------------------------
(* Properties.                                                             *)

(* Types of the variables.                                                 *)
TypeOK ==
  /\ ManagerTypeOK
  /\ cpc \in {"begin", "publish", "configure", "initialize", "initializing",
              "start", "starting", "wait", "shutdown", "shutting", "request",
              "unpublish", "destroy", "unwinding", "free", "exit", "gone"}
  /\ core \in {"none", "live", "destroyed"}
  /\ \E i \in DOMAIN Phases : phase = Phases[i]
  /\ {global_core_ptr, shutdown_flag_, shutdown_promise_, shutdown_impl_flag_,
      failed} \subseteq BOOLEAN
  /\ configurator \in State
  /\ handlers \in Seq([sig : Signals, thread : Names \cup {Main},
                       place : {"check", "exchange", "promise", "raise"}])
  /\ signals \in 0 .. MaxSignals

(* Whatever fails while the runtime comes up, whichever executors were     *)
(* made or started by then, and whenever signals arrive: every thread is   *)
(* joined before its executor is destroyed, and the promise is set once    *)
(* (ados_core.cc:11-19, 49-54, 78-92; executor_manager.cc:142-155).        *)
NeverTerminates == alive \/ UsesDestroyedCore

(* An executor is shut down only when all that were made after it have     *)
(* been and their threads are joined, and the configurator after all of    *)
(* them (executor_manager.cc:147; ados_core.cc:83-89).                     *)
ShutdownInReverse ==
  LET made == used_executor_names_
      gone(name) == /\ executor_map_[name].state = "kShutdown"
                    /\ executor_map_[name].thread \in {"none", "joined"}
  IN  alive =>
        /\ \A i, j \in DOMAIN made :
             i < j /\ executor_map_[made[i]].state = "kShutdown"
               => gone(made[j])
        /\ configurator = "kShutdown" =>
             \A i \in DOMAIN made : gone(made[i])

(* A handler that found global_core_ptr set is never left with a destroyed *)
(* core: main() waits for those on its own thread, and the join waits for  *)
(* those on the threads of executors.  Only on the way out by an exception *)
(* is the pointer left behind (main.cc:17-23, 58-66).                      *)
HandlersFindTheCore == UsesDestroyedCore => failed

PhaseReached(state) ==
  \E i, j \in DOMAIN Phases : i <= j /\ Phases[i] = state /\ Phases[j] = phase

(* What GetState tells is true: after kPostInitExecutor all executors of   *)
(* the configuration are made, at kPostStart all are started and those     *)
(* with a thread have it, after kPostShutdownExecutor all that were made   *)
(* are shut down and joined, whatever failed on the way                    *)
(* (ados_core.cc:33-38, 71-75, 81-91).                                     *)
PhaseIsTrue ==
  LET made == DOMAIN executor_map_
  IN  /\ PhaseReached("kPostInitExecutor") /\ ~PhaseReached("kPreShutdown") =>
           \A i \in DOMAIN ToInitialize : ToInitialize[i].name \in made
      /\ phase = "kPostStart" =>
           \A name \in made :
             /\ executor_map_[name].state = "kStart"
             /\ executor_map_[name].thread \in Alive
                  <=> executor_map_[name].type # "main_thread"
      /\ PhaseReached("kPostShutdownExecutor") =>
           \A name \in made :
             /\ executor_map_[name].state = "kShutdown"
             /\ executor_map_[name].thread \in {"none", "joined"}

L(name) == INSTANCE ExecutorLifecycle
  WITH state  <- IF name \in DOMAIN executor_map_
                 THEN executor_map_[name].state ELSE "kPreInit",
       thread <- IF name \notin DOMAIN executor_map_ THEN "none"
                 ELSE IF executor_map_[name].thread = "launched" THEN "running"
                 ELSE executor_map_[name].thread

(* Whatever fails, every executor is led through its life cycle in order,  *)
(* and a thread that runs is waited for (executor_manager.cc:131-155): the *)
(* protocol that the executors are modelled with on their own.             *)
ExecutorsKeepLifecycle ==
  /\ \A name \in Names : L(name)!Init
  /\ [][\A name \in Names : [L(name)!Next]_(L(name)!vars)]_vars

IsSetUp(name) ==
  /\ name \in DOMAIN executor_map_
  /\ \/ executor_map_[name].type = "main_thread"
     \/ executor_map_[name].thread \in {"running", "exited", "joined"}

(* The name that the system shows for the thread of an executor begins and *)
(* ends as the executor's, although a refusal of the kernel would go       *)
(* unnoticed (thread_tool.h:16-21).                                        *)
ThreadsAreRecognizable ==
  \A name \in Names : IsSetUp(name) =>
    LET shown == executor_map_[name].attributes.name
    IN  IF Len(name) < 15 THEN shown = name
        ELSE /\ SubSeq(shown, 1, 8) = SubSeq(name, 1, 8)
             /\ SubSeq(shown, Len(shown) - 4, Len(shown))
                  = SubSeq(name, Len(name) - 4, Len(name))

(* A thread runs on CPUs and under a policy that its own executor asked    *)
(* for or that it has from the main thread, never from another executor;   *)
(* real time only if one of the two asked for it                           *)
(* (main_thread_executor.cc:48-54; guard_thread_executor.cc:57-64;         *)
(* time_wheel_executor.cc:161-167).                                        *)
AttributesStayApart ==
  \A name \in Names : IsSetUp(name) =>
    LET x       == executor_map_[name]
        creator == IF x.type = "main_thread" THEN ProcessAttributes
                   ELSE MainAttributes
    IN  /\ \/ x.attributes.cpus = creator.cpus
           \/ x.attributes.cpus \subseteq x.options.cpus
        /\ x.attributes.sched \in {creator.sched, x.options.sched, TimeSharing}

(* Once a signal has asked for it, or something failed, the process ends,  *)
(* also if the signal came while the runtime was still coming up; unless a *)
(* later signal finds no core and is raised for ever (main.cc:22;          *)
(* ados_core.cc:41-54).                                                    *)
EndsWhenAsked ==
  shutdown_flag_ \/ failed ~>
    \/ cpc = "gone"
    \/ UsesDestroyedCore
    \/ \E i \in DOMAIN handlers : handlers[i].place = "raise"

(* "Duplicate executor name" (executor_manager.cc:114-115): no executor is *)
(* made under a name that is taken.                                        *)
NamesAreUnique ==
  \A i, j \in DOMAIN used_executor_names_ :
    i # j => used_executor_names_[i] # used_executor_names_[j]
=============================================================================
