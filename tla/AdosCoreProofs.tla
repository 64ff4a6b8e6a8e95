---------------------------- MODULE AdosCoreProofs ----------------------------
(***************************************************************************)
(* Proofs about AdosCore and its ExecutorManager, for any configurations,  *)
(* executors and number of signals.                                        *)
(***************************************************************************)
EXTENDS AdosCore, ExecutorManagerProofs

(* Where the manager stands at each place of the main thread, so that its  *)
(* calls come in their order.                                              *)
PlaceInv ==
  /\ cpc \in {"begin", "publish", "configure", "initialize"} =>
       state_ = "kPreInit"
  /\ cpc \in {"initializing", "start"} => state_ = "kInit"
  /\ cpc \in {"starting", "wait", "shutdown"} => state_ = "kStart"
  /\ cpc \in {"shutting", "request", "unpublish", "unwinding", "free", "exit",
              "gone"} => state_ = "kShutdown"
  /\ cpc \notin {"initializing", "starting", "shutting", "unwinding"} =>
       mpc = "idle"
  /\ cpc = "start" => ~thrown
  /\ cpc = "destroy" =>
       IF shutdown_impl_flag_ THEN state_ = "kShutdown"
       ELSE failed /\ state_ \in {"kPreInit", "kInit"}
  /\ cpc = "unwinding" => failed
  /\ shutdown_impl_flag_ <=> state_ = "kShutdown"
  /\ failed => cpc \in {"destroy", "unwinding", "free", "exit", "gone"}
  /\ configurator = "kShutdown" => state_ = "kShutdown" /\ mpc = "idle"

(* Which phase has been entered last.                                      *)
PhaseInv ==
  /\ cpc \in {"begin", "publish", "configure"} => phase = "kPreInit"
  /\ cpc \in {"initialize", "initializing"} => phase = "kPreInitExecutor"
  /\ cpc \in {"start", "starting"} => phase = "kPreStartExecutor"
  /\ cpc \in {"wait", "shutdown"} => phase = "kPostStart"
  /\ cpc \in {"shutting", "unwinding"} => phase = "kPreShutdownExecutor"
  /\ cpc \in {"request", "unpublish", "free", "exit", "gone"} =>
       phase = "kPostShutdown"
  /\ cpc = "destroy" =>
       IF shutdown_impl_flag_ THEN phase = "kPostShutdown"
       ELSE phase \in {"kPreInitConfigurator", "kPreInitExecutor"}

(* When there is a core and a pointer to it.                               *)
CoreInv ==
  /\ core = "none" <=> cpc = "begin"
  /\ core = "destroyed" <=> cpc \in {"exit", "gone"}
  /\ cpc \in {"begin", "publish"} => ~global_core_ptr
  /\ cpc \in {"destroy", "free", "exit", "gone"} =>
       (global_core_ptr => failed)

Asked(i) == handlers[i].place \in {"exchange", "promise"}

(* A handler runs on a thread that is there, found the pointer set, and is *)
(* the only one that will set the promise.                                 *)
HandlersInv ==
  /\ \A i \in DOMAIN handlers :
       /\ handlers[i].thread # Main =>
            /\ handlers[i].thread \in DOMAIN executor_map_
            /\ executor_map_[handlers[i].thread].thread \in Alive
       /\ Asked(i) => global_core_ptr
       /\ handlers[i].place = "promise" => ~shutdown_promise_
  /\ \A i, j \in DOMAIN handlers :
       handlers[i].place = "promise" /\ handlers[j].place = "promise" => i = j
  /\ ~shutdown_flag_ => 
       /\ ~shutdown_promise_
       /\ \A i \in DOMAIN handlers : handlers[i].place # "promise"

IInv == TypeOK /\ ManagerInv /\ PlaceInv /\ PhaseInv /\ CoreInv /\ HandlersInv

-----------------------------------------------------------------------------
LEMMA PhaseType ==
  ASSUME NEW state \in {"kPreInit", "kPreInitConfigurator",
                        "kPreInitExecutor", "kPreStartExecutor", "kPostStart",
                        "kPreShutdownExecutor", "kPostShutdown"}
  PROVE  \E i \in DOMAIN Phases : state = Phases[i]
<1>1. DOMAIN Phases = 1 .. 18
  BY DEF Phases
<1>2. /\ Phases[1] = "kPreInit" /\ Phases[2] = "kPreInitConfigurator"
      /\ Phases[4] = "kPreInitExecutor" /\ Phases[10] = "kPreStartExecutor"
      /\ Phases[12] = "kPostStart" /\ Phases[14] = "kPreShutdownExecutor"
      /\ Phases[18] = "kPostShutdown"
  BY DEF Phases
<1> QED
  BY <1>1, <1>2

(* The part of TypeOK that is about AdosCore.                              *)
CoreTypeOK ==
  /\ cpc \in {"begin", "publish", "configure", "initialize", "initializing",
              "start", "starting", "wait", "shutdown", "shutting", "request",
              "unpublish", "destroy", "unwinding", "free", "exit", "gone"}
  /\ core \in {"none", "live", "destroyed"}
  /\ {global_core_ptr, shutdown_flag_, shutdown_promise_, shutdown_impl_flag_,
      failed} \subseteq BOOLEAN
  /\ configurator \in State
  /\ handlers \in Seq([sig : Signals, thread : Names \cup {Main},
                       place : {"check", "exchange", "promise", "raise"}])
  /\ signals \in 0 .. MaxSignals

(* PhaseInv says more about phase than TypeOK.                             *)
LEMMA TypeNext ==
  ASSUME ManagerInv', CoreTypeOK', PhaseInv'
  PROVE  TypeOK'
<1>1. phase' \in {"kPreInit", "kPreInitConfigurator", "kPreInitExecutor",
                  "kPreStartExecutor", "kPostStart", "kPreShutdownExecutor",
                  "kPostShutdown"}
  BY DEF CoreTypeOK, PhaseInv
<1>2. \E i \in DOMAIN Phases : phase' = Phases[i]
  BY <1>1, PhaseType
<1> QED
  BY <1>2 DEF TypeOK, CoreTypeOK, ManagerInv

LEMMA InitInv == Init => IInv
<1> SUFFICES ASSUME Init PROVE IInv
  OBVIOUS
<1>1. ManagerInv
  BY ManagerInitInv DEF Init
<1>2. CoreTypeOK
  <2>1. <<>> \in Seq([sig : Signals, thread : Names \cup {Main},
                      place : {"check", "exchange", "promise", "raise"}])
    BY EmptySeq
  <2>2. 0 \in 0 .. MaxSignals
    BY CoreAssumption
  <2> QED
    BY <2>1, <2>2 DEF Init, CoreTypeOK, State
<1>3. \E i \in DOMAIN Phases : "kPreInit" = Phases[i]
  BY PhaseType
<1>5. TypeOK
  BY <1>1, <1>2, <1>3 DEF Init, ManagerInv, TypeOK, CoreTypeOK
<1>4. HandlersInv
  BY DEF Init, HandlersInv
<1> QED
  BY <1>1, <1>5, <1>4
  DEF Init, ManagerInit, IInv, PlaceInv, PhaseInv, CoreInv

(* Handlers that stay where they are, on threads that stay.                *)
LEMMA HandlersStay ==
  ASSUME HandlersInv,
         UNCHANGED <<handlers, shutdown_flag_, shutdown_promise_>>,
         global_core_ptr => global_core_ptr',
         \A n \in DOMAIN executor_map_ :
           executor_map_[n].thread \in Alive /\ On(n) # {} =>
             n \in DOMAIN executor_map_' /\ executor_map_'[n].thread \in Alive
  PROVE  HandlersInv'
<1>1. ASSUME NEW i \in DOMAIN handlers, handlers[i].thread # Main
      PROVE  /\ handlers[i].thread \in DOMAIN executor_map_'
             /\ executor_map_'[handlers[i].thread].thread \in Alive
  BY <1>1 DEF HandlersInv, On
<1> QED
  BY <1>1 DEF HandlersInv, Asked

(* Steps of main() that are not calls of the manager.                      *)
LEMMA MainAloneInv ==
  ASSUME IInv, UNCHANGED managerVars,
         \/ Construct \/ Publish \/ ConfiguratorInitialize
         \/ ConfiguratorStart \/ Started \/ WaitReturns
         \/ ShutdownImplAgain \/ ConfiguratorShutdown \/ Exit
  PROVE  IInv'
<1> USE DEF IInv
<1>1. ManagerInv'
  BY DiesInv DEF managerVars, ManagerInv, ManagerTypeOK
<1>2. HandlersInv'
  BY HandlersStay
  DEF managerVars, flagVars, Construct, Publish, ConfiguratorInitialize, ConfiguratorStart,
      Started, WaitReturns, ShutdownImplAgain, ConfiguratorShutdown, Exit
<1>3. CoreTypeOK'
  BY DEF TypeOK, CoreTypeOK, flagVars, Construct, Publish, ConfiguratorInitialize,
      ConfiguratorStart, Started, WaitReturns, ShutdownImplAgain,
      ConfiguratorShutdown, Exit, Fails, State
<1>4. PlaceInv' /\ PhaseInv' /\ CoreInv'
  <2> USE DEF PlaceInv, PhaseInv, CoreInv, managerVars, flagVars, EnterState,
              MainAt, ManagerReturned, Fails
  <2>1. CASE Construct
    BY <2>1 DEF Construct
  <2>2. CASE Publish
    BY <2>2 DEF Publish
  <2>3. CASE ConfiguratorInitialize
    BY <2>3 DEF ConfiguratorInitialize
  <2>4. CASE ConfiguratorStart
    BY <2>4 DEF ConfiguratorStart
  <2>5. CASE Started
    BY <2>5 DEF Started, ManagerInv, CallInv, Starting
  <2>6. CASE WaitReturns
    BY <2>6 DEF WaitReturns
  <2>7. CASE ShutdownImplAgain
    BY <2>7 DEF ShutdownImplAgain
  <2>8. CASE ConfiguratorShutdown
    BY <2>8 DEF ConfiguratorShutdown
  <2>9. CASE Exit
    BY <2>9 DEF Exit
  <2> QED
    BY <2>1, <2>2, <2>3, <2>4, <2>5, <2>6, <2>7, <2>8, <2>9
<1>5. TypeOK'
  BY <1>1, <1>3, <1>4, TypeNext
<1> QED
  BY <1>1, <1>2, <1>4, <1>5

(* The calls of the manager begin.                                         *)
LEMMA MainCallsInv ==
  ASSUME IInv, ExecutorsInitialize \/ ExecutorsStart \/ ShutdownImpl
  PROVE  IInv'
<1> USE DEF IInv
<1>1. /\ ManagerInv' /\ PlaceInv' /\ PhaseInv' /\ CoreInv'
  <2> USE DEF PlaceInv, PhaseInv, CoreInv, managerVars, flagVars, EnterState,
              MainAt
  <2>1. CASE ExecutorsInitialize
    <3>1. ManagerInv'
      BY <2>1, InitializeBeginsInv, InitializeThrowsInv DEF ExecutorsInitialize
    <3> QED
      BY <2>1, <3>1 DEF ExecutorsInitialize, InitializeBegins, InitializeThrows
  <2>2. CASE ExecutorsStart
    <3>1. ManagerInv'
      BY <2>2, StartBeginsInv DEF ExecutorsStart
    <3> QED
      BY <2>2, <3>1 DEF ExecutorsStart, StartBegins
  <2>3. CASE ShutdownImpl
    <3>1. ManagerInv'
      BY <2>3, ShutdownBeginsInv DEF ShutdownImpl
    <3> QED
      BY <2>3, <3>1 DEF ShutdownImpl, ShutdownBegins
  <2> QED
    BY <2>1, <2>2, <2>3
<1>2. CoreTypeOK'
  BY DEF TypeOK, CoreTypeOK, flagVars, ExecutorsInitialize, ExecutorsStart,
         ShutdownImpl
<1>3. HandlersInv'
  <2>1. UNCHANGED <<handlers, shutdown_flag_, shutdown_promise_,
                    global_core_ptr, executor_map_>>
    BY DEF flagVars, ExecutorsInitialize, ExecutorsStart, ShutdownImpl,
           InitializeBegins, InitializeThrows, StartBegins, ShutdownBegins
  <2> QED
    BY <2>1, HandlersStay
<1> QED
  BY <1>1, <1>2, <1>3, TypeNext

(* main() after Start has returned.                                        *)
LEMMA MainEndsInv ==
  ASSUME IInv, MainShutdown \/ Unpublish \/ Free
  PROVE  IInv'
<1> USE DEF IInv
<1>1. ManagerInv'
  <2>1. CASE MainShutdown \/ Unpublish
    BY <2>1, DiesInv
    DEF MainShutdown, Unpublish, managerVars, ManagerInv, ManagerTypeOK
  <2>2. CASE Free
    BY <2>2, DiesInv DEF Free, Destroyed, MainAt
  <2> QED
    BY <2>1, <2>2
<1>2. PlaceInv' /\ PhaseInv' /\ CoreInv'
  <2> USE DEF PlaceInv, PhaseInv, CoreInv, managerVars, flagVars, MainAt
  <2>1. CASE MainShutdown
    BY <2>1 DEF MainShutdown
  <2>2. CASE Unpublish
    BY <2>2 DEF Unpublish, Unpublished
  <2>3. CASE Free
    BY <2>3 DEF Free, Destroyed
  <2> QED
    BY <2>1, <2>2, <2>3
<1>3. CoreTypeOK'
  BY DEF TypeOK, CoreTypeOK, flagVars, MainShutdown, Unpublish, Unpublished,
         Free
<1>4. HandlersInv'
  <2>1. CASE MainShutdown
    BY <2>1 DEF MainShutdown, HandlersInv, Asked, managerVars
  <2>2. CASE Unpublish
    <3>1. state_ = "kShutdown" /\ mpc = "idle" /\ On(Main) = {}
      BY <2>2 DEF Unpublish, MainAt, PlaceInv
    <3>2. \A n \in DOMAIN executor_map_ : executor_map_[n].thread \notin Alive
      BY <3>1, AllGone DEF Gone, Alive
    <3>3. DOMAIN handlers = {}
      BY <3>1, <3>2 DEF HandlersInv, On
    <3> QED
      BY <2>2, <3>3 DEF Unpublish, HandlersInv, flagVars
  <2>3. CASE Free
    BY <2>3, HandlersStay DEF Free, Destroyed, flagVars
  <2> QED
    BY <2>1, <2>2, <2>3
<1> QED
  BY <1>1, <1>2, <1>3, <1>4, TypeNext

(* A call of the manager goes on.                                          *)
LEMMA ManagerContinuesInv == ASSUME IInv, ManagerContinues PROVE IInv'
<1> USE DEF IInv
<1>1. ManagerInv'
  BY ManagerStepInv DEF ManagerContinues
<1>2. /\ mpc # "idle" /\ UNCHANGED <<state_, executors_options>>
      /\ \A n \in DOMAIN executor_map_ :
           /\ n \in DOMAIN executor_map_'
           /\ executor_map_[n].thread \in Alive =>
                executor_map_'[n].thread \in Alive
  BY ManagerStepKeeps DEF ManagerContinues
<1>3. PlaceInv' /\ PhaseInv' /\ CoreInv'
  BY <1>2 DEF ManagerContinues, flagVars, PlaceInv, PhaseInv, CoreInv
<1>4. CoreTypeOK'
  BY DEF TypeOK, CoreTypeOK, flagVars, ManagerContinues
<1>5. HandlersInv'
  BY <1>2, HandlersStay DEF ManagerContinues, flagVars
<1> QED
  BY <1>1, <1>3, <1>4, <1>5, TypeNext

LEMMA ExecutorThreadInv ==
  ASSUME IInv, NEW name \in Names, ExecutorThread(name)
  PROVE  IInv'
<1> USE DEF IInv
<1>1. ManagerInv'
  BY ThreadSetsUpInv, ThreadExitsInv DEF ExecutorThread
<1>2. PlaceInv' /\ PhaseInv' /\ CoreInv' /\ CoreTypeOK'
  BY DEF ExecutorThread, ThreadSetsUp, ThreadExits, flagVars, PlaceInv,
         PhaseInv, CoreInv, TypeOK, CoreTypeOK
<1>3. \A n \in DOMAIN executor_map_ :
        executor_map_[n].thread \in Alive /\ On(n) # {} =>
          n \in DOMAIN executor_map_' /\ executor_map_'[n].thread \in Alive
  <2>1. On(name) = {}
    BY DEF ExecutorThread
  <2>2. \A n \in DOMAIN executor_map_ \ {name} :
          n \in DOMAIN executor_map_' /\ executor_map_'[n] = executor_map_[n]
    BY DEF ExecutorThread, ThreadSetsUp, ThreadExits
  <2> QED
    BY <2>1, <2>2
<1>4. HandlersInv'
  BY <1>3, HandlersStay DEF ExecutorThread, flagVars
<1> QED
  BY <1>1, <1>2, <1>4, TypeNext

-----------------------------------------------------------------------------
(* What is left of a sequence without its i-th element.                    *)
LEMMA RemoveAtProperties ==
  ASSUME NEW S, NEW s \in Seq(S), NEW i \in DOMAIN s
  PROVE  /\ RemoveAt(s, i) \in Seq(S)
         /\ DOMAIN RemoveAt(s, i) = 1 .. Len(s) - 1
         /\ \A k \in 1 .. Len(s) - 1 :
              RemoveAt(s, i)[k] = IF k < i THEN s[k] ELSE s[k + 1]
<1> DEFINE before == SubSeq(s, 1, i - 1)
           after  == SubSeq(s, i + 1, Len(s))
<1>1. Len(s) \in Nat /\ i \in 1 .. Len(s)
  BY LenProperties
<1>2. /\ before \in Seq(S) /\ Len(before) = i - 1
      /\ \A k \in 1 .. i - 1 : before[k] = s[k]
  <2>1. \A k \in 1 .. i - 1 : s[k] \in S
    BY <1>1, ElementOfSeq
  <2>2. /\ before \in Seq(S)
        /\ Len(before) = IF 1 <= i - 1 THEN i - 1 - 1 + 1 ELSE 0
        /\ \A k \in 1 .. i - 1 - 1 + 1 : before[k] = s[1 + k - 1]
    BY <1>1, <2>1, SubSeqProperties
  <2> QED
    BY <1>1, <2>2
<1>3. /\ after \in Seq(S) /\ Len(after) = Len(s) - i
      /\ \A k \in 1 .. Len(s) - i : after[k] = s[i + k]
  <2>1. \A k \in i + 1 .. Len(s) : s[k] \in S
    BY <1>1, ElementOfSeq
  <2>2. /\ after \in Seq(S)
        /\ Len(after) = IF i + 1 <= Len(s) THEN Len(s) - (i + 1) + 1 ELSE 0
        /\ \A k \in 1 .. Len(s) - (i + 1) + 1 : after[k] = s[i + 1 + k - 1]
    BY <1>1, <2>1, SubSeqProperties
  <2> QED
    BY <1>1, <2>2
<1>6. RemoveAt(s, i) = before \o after
  BY DEF RemoveAt
<1> HIDE DEF before, after
<1>4. /\ before \o after \in Seq(S)
      /\ Len(before \o after) = Len(s) - 1
      /\ \A k \in 1 .. Len(s) - 1 :
           (before \o after)[k] =
             IF k <= i - 1 THEN before[k] ELSE after[k - (i - 1)]
  <2>1. Len(before) + Len(after) = Len(s) - 1
    BY <1>1, <1>2, <1>3
  <2>2. /\ before \o after \in Seq(S)
        /\ Len(before \o after) = Len(before) + Len(after)
        /\ \A k \in 1 .. Len(before) + Len(after) :
             (before \o after)[k] =
               IF k <= Len(before) THEN before[k] ELSE after[k - Len(before)]
    BY <1>2, <1>3, ConcatProperties
  <2> QED
    BY <1>2, <2>1, <2>2
<1>5. ASSUME NEW k \in 1 .. Len(s) - 1
      PROVE  (before \o after)[k] = IF k < i THEN s[k] ELSE s[k + 1]
  <2>1. CASE k < i
    BY <1>1, <1>2, <1>4, <2>1
  <2>2. CASE ~(k < i)
    <3>1. k - (i - 1) \in 1 .. Len(s) - i /\ i + (k - (i - 1)) = k + 1
      BY <1>1, <2>2
    <3>2. after[k - (i - 1)] = s[i + (k - (i - 1))]
      BY <1>3, <3>1
    <3> QED
      BY <1>1, <1>4, <2>2, <3>1, <3>2
  <2> QED
    BY <2>1, <2>2
<1> QED
  BY <1>4, <1>5, <1>6, LenProperties

(* The handlers that are left when one has returned are as they were.      *)
LEMMA OneReturns ==
  ASSUME IInv, NEW i \in DOMAIN handlers, Done(i)
  PROVE  /\ handlers' \in
              Seq([sig : Signals, thread : Names \cup {Main},
                   place : {"check", "exchange", "promise", "raise"}])
         /\ \E from \in [DOMAIN handlers' -> DOMAIN handlers \ {i}] :
              /\ \A k \in DOMAIN handlers' : handlers'[k] = handlers[from[k]]
              /\ \A k, l \in DOMAIN handlers' : from[k] = from[l] => k = l
<1> DEFINE H    == [sig : Signals, thread : Names \cup {Main},
                    place : {"check", "exchange", "promise", "raise"}]
           from == [k \in 1 .. Len(handlers) - 1 |->
                      IF k < i THEN k ELSE k + 1]
<1>1. handlers \in Seq(H) /\ Len(handlers) \in Nat /\ i \in 1 .. Len(handlers)
      /\ DOMAIN handlers = 1 .. Len(handlers)
  BY LenProperties DEF IInv, TypeOK
<1>2. /\ handlers' \in Seq(H)
      /\ DOMAIN handlers' = 1 .. Len(handlers) - 1
      /\ \A k \in 1 .. Len(handlers) - 1 :
           handlers'[k] = IF k < i THEN handlers[k] ELSE handlers[k + 1]
  BY <1>1, RemoveAtProperties DEF Done
<1>3. from \in [DOMAIN handlers' -> DOMAIN handlers \ {i}]
  BY <1>1, <1>2
<1>4. \A k \in DOMAIN handlers' : handlers'[k] = handlers[from[k]]
  BY <1>2
<1>5. \A k, l \in DOMAIN handlers' : from[k] = from[l] => k = l
  BY <1>1, <1>2
<1> QED
  BY <1>2, <1>3, <1>4, <1>5

(* The handlers that stay, without one that has returned or that went on.  *)
LEMMA OthersStay ==
  ASSUME IInv, NEW i \in DOMAIN handlers, Done(i),
         UNCHANGED <<executor_map_, global_core_ptr>>,
         shutdown_flag_ => shutdown_flag_',
         \/ UNCHANGED shutdown_promise_
         \/ handlers[i].place = "promise" /\ shutdown_flag_
  PROVE  HandlersInv'
<1> USE DEF IInv
<1>1. PICK from \in [DOMAIN handlers' -> DOMAIN handlers \ {i}] :
        /\ \A k \in DOMAIN handlers' : handlers'[k] = handlers[from[k]]
        /\ \A k, l \in DOMAIN handlers' : from[k] = from[l] => k = l
  BY OneReturns
<1>2. ASSUME NEW k \in DOMAIN handlers'
      PROVE  /\ from[k] \in DOMAIN handlers /\ from[k] # i
             /\ handlers'[k] = handlers[from[k]]
  BY <1>1
<1>3. ASSUME NEW k \in DOMAIN handlers'
      PROVE  /\ handlers'[k].thread # Main =>
                  /\ handlers'[k].thread \in DOMAIN executor_map_'
                  /\ executor_map_'[handlers'[k].thread].thread \in Alive
             /\ handlers'[k].place \in {"exchange", "promise"} =>
                  global_core_ptr'
             /\ handlers'[k].place = "promise" => ~shutdown_promise_'
  BY <1>2 DEF HandlersInv, Asked
<1>4. ASSUME NEW k \in DOMAIN handlers', NEW l \in DOMAIN handlers',
             handlers'[k].place = "promise", handlers'[l].place = "promise"
      PROVE  k = l
  BY <1>1, <1>2, <1>4 DEF HandlersInv
<1>5. ~shutdown_flag_' =>
        /\ ~shutdown_promise_'
        /\ \A k \in DOMAIN handlers' : handlers'[k].place # "promise"
  BY <1>2 DEF HandlersInv, IInv, TypeOK
<1> QED
  BY <1>3, <1>4, <1>5 DEF HandlersInv, Asked

(* Steps of handlers leave main() where it is.                             *)
LEMMA MainStaysInv ==
  ASSUME IInv,
         UNCHANGED <<executors_options, state_, used_executor_names_,
                     executor_map_, mpc, todo, thrown, cpc, core, phase,
                     global_core_ptr, shutdown_impl_flag_, configurator,
                     failed>>,
         alive' \in BOOLEAN, alive' => alive
  PROVE  ManagerInv' /\ PlaceInv' /\ PhaseInv' /\ CoreInv'
BY DiesInv DEF IInv, PlaceInv, PhaseInv, CoreInv

LEMMA DeliverInv ==
  ASSUME IInv, NEW sig \in Signals, NEW thread \in RunningThreads,
         Deliver(sig, thread)
  PROVE  IInv'
<1> DEFINE h == [sig |-> sig, thread |-> thread, place |-> "check"]
           H == [sig : Signals, thread : Names \cup {Main},
                 place : {"check", "exchange", "promise", "raise"}]
<1> USE DEF IInv
<1>1. ManagerInv' /\ PlaceInv' /\ PhaseInv' /\ CoreInv'
  BY MainStaysInv DEF Deliver, managerVars, flagVars, TypeOK, ManagerTypeOK
<1>2. /\ thread # Main => /\ thread \in DOMAIN executor_map_
                          /\ executor_map_[thread].thread \in Alive
      /\ thread \in Names \cup {Main}
  BY DEF RunningThreads, TypeOK, ManagerTypeOK
<1>3. h \in H /\ handlers \in Seq(H)
  BY <1>2 DEF TypeOK
<1>4. /\ handlers' = Append(handlers, h)
      /\ handlers' \in Seq(H)
      /\ DOMAIN handlers = 1 .. Len(handlers) /\ Len(handlers) \in Nat
      /\ DOMAIN handlers' = 1 .. Len(handlers) + 1
      /\ \A i \in 1 .. Len(handlers) : handlers'[i] = handlers[i]
      /\ handlers'[Len(handlers) + 1] = h
  BY <1>3, AppendProperties, LenProperties DEF Deliver
<1>5. CoreTypeOK'
  <2>1. signals' \in 0 .. MaxSignals
    BY CoreAssumption DEF Deliver, TypeOK
  <2> QED
    BY <1>4, <2>1 DEF Deliver, flagVars, CoreTypeOK, TypeOK
<1>6. HandlersInv'
  <2>1. ASSUME NEW i \in DOMAIN handlers'
        PROVE  \/ i \in DOMAIN handlers /\ handlers'[i] = handlers[i]
               \/ handlers'[i] = h
    BY <1>4
  <2>2. UNCHANGED <<executor_map_, global_core_ptr, shutdown_flag_,
                    shutdown_promise_>>
    BY DEF Deliver, managerVars, flagVars
  <2>3. ASSUME NEW i \in DOMAIN handlers'
        PROVE  /\ handlers'[i].thread # Main =>
                    /\ handlers'[i].thread \in DOMAIN executor_map_'
                    /\ executor_map_'[handlers'[i].thread].thread \in Alive
               /\ handlers'[i].place \in {"exchange", "promise"} =>
                    global_core_ptr'
               /\ handlers'[i].place = "promise" => 
                    i \in DOMAIN handlers /\ handlers[i].place = "promise"
    BY <1>2, <2>1, <2>2 DEF HandlersInv, Asked
  <2> QED
    BY <2>2, <2>3 DEF HandlersInv, Asked
<1> QED
  BY <1>1, <1>5, <1>6, TypeNext

(* A handler that goes on in its code.                                     *)
LEMMA OneGoesOn ==
  ASSUME IInv, NEW i \in DOMAIN handlers,
         NEW place \in {"exchange", "promise", "raise"}, GoesOn(i, place)
  PROVE  /\ handlers' \in
              Seq([sig : Signals, thread : Names \cup {Main},
                   place : {"check", "exchange", "promise", "raise"}])
         /\ DOMAIN handlers' = DOMAIN handlers
         /\ \A k \in DOMAIN handlers :
              /\ handlers'[k].thread = handlers[k].thread
              /\ handlers'[k].place =
                   IF k = i THEN place ELSE handlers[k].place
<1> DEFINE H == [sig : Signals, thread : Names \cup {Main},
                 place : {"check", "exchange", "promise", "raise"}]
           h == [handlers[i] EXCEPT !.place = place]
<1>1. handlers \in Seq(H) /\ DOMAIN handlers = 1 .. Len(handlers)
  BY LenProperties DEF IInv, TypeOK
<1>2. \A k \in DOMAIN handlers : handlers[k] \in H
  BY <1>1, ElementOfSeq
<1>3. h \in H /\ h.thread = handlers[i].thread /\ h.place = place
  BY <1>2
<1>4. handlers' = [handlers EXCEPT ![i] = h]
  BY DEF GoesOn
<1> HIDE DEF h, H
<1>5. /\ handlers' \in Seq(H)
      /\ DOMAIN handlers' = DOMAIN handlers
      /\ \A k \in DOMAIN handlers :
           handlers'[k] = IF k = i THEN h ELSE handlers[k]
  BY <1>1, <1>3, <1>4, ExceptSeq, LenProperties
<1> QED
  BY <1>3, <1>5 DEF H

LEMMA HandlerChecksInv ==
  ASSUME IInv, NEW i \in DOMAIN handlers, HandlerChecks(i)
  PROVE  IInv'
<1> USE DEF IInv
<1>1. ManagerInv' /\ PlaceInv' /\ PhaseInv' /\ CoreInv'
  BY MainStaysInv DEF HandlerChecks, managerVars, flagVars, TypeOK,
                      ManagerTypeOK
<1> DEFINE place == IF global_core_ptr THEN "exchange" ELSE "raise"
<1>2. GoesOn(i, place) /\ place \in {"exchange", "promise", "raise"}
  BY DEF HandlerChecks
<1>3. /\ handlers' \in
           Seq([sig : Signals, thread : Names \cup {Main},
                place : {"check", "exchange", "promise", "raise"}])
      /\ DOMAIN handlers' = DOMAIN handlers
      /\ \A k \in DOMAIN handlers :
           /\ handlers'[k].thread = handlers[k].thread
           /\ handlers'[k].place = IF k = i THEN place ELSE handlers[k].place
  BY <1>2, OneGoesOn
<1>4. CoreTypeOK'
  BY <1>3 DEF HandlerChecks, flagVars, CoreTypeOK, TypeOK
<1>5. HandlersInv'
  BY <1>3 DEF HandlerChecks, managerVars, flagVars, HandlersInv, Asked
<1> QED
  BY <1>1, <1>4, <1>5, TypeNext

(* The flag lets one handler through, or main() itself.                    *)
LEMMA HandlerExchangesInv ==
  ASSUME IInv, NEW i \in DOMAIN handlers, HandlerExchanges(i)
  PROVE  IInv'
<1> USE DEF IInv
<1>1. ManagerInv' /\ PlaceInv' /\ PhaseInv' /\ CoreInv'
  BY MainStaysInv DEF HandlerExchanges, managerVars, flagVars, TypeOK,
                      ManagerTypeOK
<1>2. CASE shutdown_flag_
  <2>1. Done(i)
    BY <1>2 DEF HandlerExchanges
  <2>2. CoreTypeOK'
    BY <1>2, <2>1, OneReturns
    DEF HandlerExchanges, FlagExchanged, CoreTypeOK, TypeOK
  <2>3. HandlersInv'
    BY <1>2, <2>1, OthersStay
    DEF HandlerExchanges, FlagExchanged, managerVars
  <2> QED
    BY <1>1, <2>2, <2>3, TypeNext
<1>3. CASE ~shutdown_flag_
  <2>1. GoesOn(i, "promise")
    BY <1>3 DEF HandlerExchanges
  <2>2. /\ handlers' \in
             Seq([sig : Signals, thread : Names \cup {Main},
                  place : {"check", "exchange", "promise", "raise"}])
        /\ DOMAIN handlers' = DOMAIN handlers
        /\ \A k \in DOMAIN handlers :
             /\ handlers'[k].thread = handlers[k].thread
             /\ handlers'[k].place =
                  IF k = i THEN "promise" ELSE handlers[k].place
    BY <2>1, OneGoesOn
  <2>3. CoreTypeOK'
    BY <2>2 DEF HandlerExchanges, FlagExchanged, CoreTypeOK, TypeOK
  <2>4. /\ handlers[i].place = "exchange" /\ shutdown_flag_'
        /\ ~shutdown_promise_
        /\ \A k \in DOMAIN handlers : handlers[k].place # "promise"
        /\ UNCHANGED <<executor_map_, global_core_ptr, shutdown_promise_>>
    BY <1>3 DEF HandlerExchanges, FlagExchanged, HandlerAt, HandlersInv,
                managerVars
  <2>5. HandlersInv'
    BY <2>2, <2>4 DEF HandlersInv, Asked
  <2> QED
    BY <1>1, <2>3, <2>5, TypeNext
<1> QED
  BY <1>2, <1>3

LEMMA HandlerSetsPromiseInv ==
  ASSUME IInv, NEW i \in DOMAIN handlers, HandlerSetsPromise(i)
  PROVE  IInv'
<1> USE DEF IInv
<1>1. handlers[i].place = "promise" /\ shutdown_flag_ /\ alive
      /\ ~shutdown_promise_ /\ Done(i)
  BY DEF HandlerSetsPromise, HandlerAt, HandlersInv, TypeOK
<1>2. ManagerInv' /\ PlaceInv' /\ PhaseInv' /\ CoreInv'
  BY <1>1, MainStaysInv DEF HandlerSetsPromise
<1>3. CoreTypeOK'
  BY <1>1, OneReturns
  DEF HandlerSetsPromise, PromiseSet, CoreTypeOK, TypeOK
<1>4. HandlersInv'
  BY <1>1, OthersStay DEF HandlerSetsPromise
<1> QED
  BY <1>2, <1>3, <1>4, TypeNext

LEMMA HandlerStraysInv ==
  ASSUME IInv, NEW i \in DOMAIN handlers, HandlerStrays(i)
  PROVE  IInv'
<1> USE DEF IInv
<1>1. ManagerInv' /\ PlaceInv' /\ PhaseInv' /\ CoreInv'
  <2>1. CASE alive' = FALSE
    BY <2>1, MainStaysInv DEF HandlerStrays, flagVars
  <2>2. CASE alive' = alive
    BY <2>2, MainStaysInv DEF HandlerStrays, flagVars, TypeOK, ManagerTypeOK
  <2> QED
    BY <2>1, <2>2 DEF HandlerStrays
<1>2. CASE UNCHANGED handlers
  <2>1. CoreTypeOK'
    BY <1>2 DEF HandlerStrays, flagVars, CoreTypeOK, TypeOK
  <2>2. HandlersInv'
    BY <1>2, HandlersStay DEF HandlerStrays, flagVars
  <2> QED
    BY <1>1, <2>1, <2>2, TypeNext
<1>3. CASE Done(i)
  <2>1. CoreTypeOK'
    BY <1>3, OneReturns DEF HandlerStrays, flagVars, CoreTypeOK, TypeOK
  <2>2. HandlersInv'
    BY <1>3, OthersStay DEF HandlerStrays, flagVars
  <2> QED
    BY <1>1, <2>1, <2>2, TypeNext
<1> QED
  BY <1>2, <1>3 DEF HandlerStrays

LEMMA StepInv == IInv /\ [Next]_vars => IInv'
<1> SUFFICES ASSUME IInv, [Next]_vars PROVE IInv'
  OBVIOUS
<1>1. CASE MainStep
  BY <1>1, MainAloneInv, MainCallsInv, MainEndsInv, ManagerContinuesInv
  DEF MainStep, Construct, Publish, ConfiguratorInitialize, ConfiguratorStart,
      Started, WaitReturns, ShutdownImplAgain, ConfiguratorShutdown, Exit
<1>2. CASE \E sig \in Signals, thread \in RunningThreads : Deliver(sig, thread)
  BY <1>2, DeliverInv
<1>3. CASE HandlerStep
  BY <1>3, HandlerChecksInv, HandlerExchangesInv, HandlerSetsPromiseInv,
     HandlerStraysInv
  DEF HandlerStep
<1>4. CASE \E name \in Names : ExecutorThread(name)
  BY <1>4, ExecutorThreadInv
<1>5. CASE UNCHANGED vars
  <2>1. ManagerInv' /\ PlaceInv' /\ PhaseInv' /\ CoreInv'
    BY <1>5, MainStaysInv DEF vars, managerVars, flagVars, IInv, TypeOK,
                              ManagerTypeOK
  <2>2. HandlersInv'
    BY <1>5, HandlersStay DEF vars, managerVars, flagVars, IInv
  <2>3. CoreTypeOK'
    BY <1>5 DEF vars, flagVars, IInv, TypeOK, CoreTypeOK
  <2> QED
    BY <2>1, <2>2, <2>3, TypeNext DEF IInv
<1> QED
  BY <1>1, <1>2, <1>3, <1>4, <1>5 DEF Next

LEMMA InvariantHolds == Spec => []IInv
BY InitInv, StepInv, PTL DEF Spec

-----------------------------------------------------------------------------
(* The variables have their types: AdosCore and ExecutorManager, whatever  *)
(* fails and whenever signals arrive.                                      *)
THEOREM TypeCorrect == Spec => []TypeOK
<1>1. IInv => TypeOK
  BY DEF IInv
<1> QED
  BY <1>1, InvariantHolds, PTL

(* Executors are shut down and their threads joined in the opposite order  *)
(* of their making, also those of a start that failed halfway, and the     *)
(* configurator after them (executor_manager.cc:147; ados_core.cc:83-89).  *)
THEOREM ShutsDownInReverse == Spec => []ShutdownInReverse
<1>1. IInv => ShutdownInReverse
  <2> SUFFICES ASSUME IInv PROVE ShutdownInReverse
    OBVIOUS
  <2>1. /\ Count \in Nat /\ DOMAIN used_executor_names_ = 1 .. Count
        /\ \A i \in 1 .. Count : Made(i) \in ExecutorType
    BY MadeType DEF IInv
  <2>2. state_ \in State /\ CallInv
    BY DEF IInv, ManagerInv, ManagerTypeOK
  <2>3. ASSUME NEW i \in 1 .. Count, Made(i).state = "kShutdown"
        PROVE  state_ = "kShutdown"
    <3>1. state_ = "kPreInit" => Count = 0
      BY <2>2, EmptySeq DEF CallInv, Count
    <3>2. state_ = "kInit" => Made(i).state = "kInit"
      BY <2>2 DEF CallInv, Initializing
    <3>3. state_ = "kStart" => Made(i).state \in {"kInit", "kStart"}
      BY <2>2 DEF CallInv, Starting
    <3> QED
      BY <2>1, <2>2, <2>3, <3>1, <3>2, <3>3 DEF State
  <2>4. ASSUME state_ = "kShutdown", NEW i \in 1 .. Count, NEW j \in 1 .. Count,
               i < j, Made(i).state = "kShutdown"
        PROVE  Gone(Made(j))
    <3>1. CASE mpc = "idle"
      BY <2>2, <2>4, <3>1 DEF CallInv, ShuttingDown
    <3>2. CASE mpc # "idle"
      <4>1. ShuttingDown /\ todo \in Seq(Names)
        BY <2>2, <2>4, <3>2, CallState
        DEF CallInv, ShuttingDown, IInv, ManagerInv, ManagerTypeOK
      <4>2. Len(todo) \in Nat
        BY <4>1, LenProperties
      <4>3. ~(i < Len(todo))
        BY <2>4, <3>2, <4>1 DEF ShuttingDown
      <4> QED
        BY <2>1, <2>4, <3>2, <4>1, <4>2, <4>3 DEF ShuttingDown
    <3> QED
      BY <3>1, <3>2
  <2>5. ASSUME configurator = "kShutdown", NEW i \in 1 .. Count
        PROVE  Gone(Made(i))
    BY <2>2, <2>5 DEF IInv, PlaceInv, CallInv, ShuttingDown
  <2> QED
    BY <2>1, <2>3, <2>4, <2>5 DEF ShutdownInReverse, Made, Gone
<1> QED
  BY <1>1, InvariantHolds, PTL

(* No handler uses core after it was destroyed, unless an exception took   *)
(* main() past the line that clears the pointer: at that line there is no  *)
(* thread left on which a handler may run (main.cc:17-23, 58-66).          *)
THEOREM HandlersFindCore == Spec => []HandlersFindTheCore
<1>1. IInv => HandlersFindTheCore
  BY DEF IInv, HandlersFindTheCore, UsesDestroyedCore, CoreInv, HandlersInv,
         Asked
<1> QED
  BY <1>1, InvariantHolds, PTL

(* The threads set themselves up with what their own executor asks for and *)
(* what the main thread has (main_thread_executor.cc:48-54;                *)
(* guard_thread_executor.cc:57-64; time_wheel_executor.cc:161-167).        *)
THEOREM AttributesApart == Spec => []AttributesStayApart
<1>1. IInv => AttributesStayApart
  <2> SUFFICES ASSUME IInv, NEW name \in Names, IsSetUp(name)
               PROVE  LET x       == executor_map_[name]
                          creator == IF x.type = "main_thread"
                                     THEN ProcessAttributes ELSE MainAttributes
                      IN  /\ \/ x.attributes.cpus = creator.cpus
                             \/ x.attributes.cpus \subseteq x.options.cpus
                          /\ x.attributes.sched \in
                               {creator.sched, x.options.sched, TimeSharing}
    BY DEF AttributesStayApart
  <2> DEFINE x       == executor_map_[name]
             creator == IF x.type = "main_thread" THEN ProcessAttributes
                        ELSE MainAttributes
  <2>1. /\ name \in DOMAIN executor_map_
        /\ \/ x.type = "main_thread"
           \/ x.thread \in {"running", "exited", "joined"}
    BY DEF IsSetUp
  <2>2. x.options \in ThreadOptions
    BY <2>1 DEF IInv, ManagerInv, ManagerTypeOK
  <2>3. creator \in Attributes
    BY ProcessType, MainAttributesType DEF IInv
  <2>4. x.attributes = SetUp(creator, name, x.options)
    BY <2>1 DEF IInv, ManagerInv, AttributesInv
  <2> HIDE DEF creator
  <2>5. /\ \/ x.attributes.cpus = creator.cpus
           \/ x.attributes.cpus \subseteq x.options.cpus
        /\ x.attributes.sched \in
             {creator.sched, x.options.sched, TimeSharing}
    BY <2>2, <2>3, <2>4, SetUpType
  <2> QED
    BY <2>5 DEF creator
<1> QED
  BY <1>1, InvariantHolds, PTL

(* A sequence put together of two others: its length, and its second part. *)
LEMMA TwoPieces ==
  ASSUME NEW S, NEW s \in Seq(S), NEW t \in Seq(S), Len(s) # 0, Len(t) # 0
  PROVE  /\ s \o t \in Seq(S)
         /\ Len(s \o t) = Len(s) + Len(t)
         /\ SubSeq(s \o t, Len(s) + 1, Len(s) + Len(t)) = t
<1>1. s \o t \in Seq(S) /\ Len(s \o t) = Len(s) + Len(t)
  BY ConcatProperties, Zenon
<1>2. Len(s) \in Nat /\ Len(t) \in Nat
  BY LenProperties
<1>3. SubSeq(s \o t, Len(s) + 1, Len(s) + Len(t)) = t
  <2>1. /\ Len(s) + 1 \in Len(s) + 1 .. Len(s) + Len(t)
        /\ Len(s) + Len(t) \in Len(s) + 1 .. Len(s) + Len(t)
        /\ (Len(s) + 1) - Len(s) = 1 /\ (Len(s) + Len(t)) - Len(s) = Len(t)
    BY <1>2, SMT
  <2>2. ASSUME NEW x \in Len(s) + 1 .. Len(s) + Len(t),
               NEW y \in Len(s) + 1 .. Len(s) + Len(t)
        PROVE  SubSeq(s \o t, x, y) = SubSeq(t, x - Len(s), y - Len(s))
    BY SubSeqOfConcat2, Zenon
  <2>3. SubSeq(t, 1, Len(t)) = t
    BY SubSeqFull, Zenon
  <2> QED
    BY <2>1, <2>2, <2>3, Zenon
<1> QED
  BY <1>1, <1>3, Zenon

(* What it begins with is what its first part begins with.                 *)
LEMMA Beginning ==
  ASSUME NEW S, NEW s \in Seq(S), NEW t \in Seq(S), Len(s) # 0, Len(t) # 0,
         NEW i \in 1 .. Len(s)
  PROVE  SubSeq(s \o t, 1, i) = SubSeq(s, 1, i)
<1>1. Len(s) \in Nat
  BY LenProperties
<1>2. 1 \in 1 .. Len(s)
  BY <1>1, SMT
<1> QED
  BY <1>2, SubSeqOfConcat1, Zenon

(* The two joints of a shortened name: 10 characters before 5, and in the   *)
(* 10, 8 before 2.                                                         *)
LEMMA TenAndFive ==
  ASSUME NEW S, NEW pd \in Seq(S), NEW q \in Seq(S), Len(pd) = 10, Len(q) = 5
  PROVE  /\ Len(pd \o q) = 15
         /\ SubSeq(pd \o q, 1, 8) = SubSeq(pd, 1, 8)
         /\ SubSeq(pd \o q, 11, 15) = q
<1>1. Len(pd) # 0
  OBVIOUS
<1>2. Len(q) # 0
  OBVIOUS
<1>3. Len(pd \o q) = Len(pd) + Len(q)
  BY <1>1, <1>2, TwoPieces, Zenon
<1>4. SubSeq(pd \o q, Len(pd) + 1, Len(pd) + Len(q)) = q
  BY <1>1, <1>2, TwoPieces, Zenon
<1>5. SubSeq(pd \o q, 1, 8) = SubSeq(pd, 1, 8)
  <2>1. 8 \in 1 .. Len(pd)
    BY SMT
  <2> QED
    BY <1>1, <1>2, <2>1, Beginning, Zenon
<1>6. 10 + 5 = 15 /\ 10 + 1 = 11
  BY SMT
<1> QED
  BY <1>3, <1>4, <1>5, <1>6, Zenon

LEMMA EightAndTwo ==
  ASSUME NEW S, NEW p \in Seq(S), NEW dots \in Seq(S),
         Len(p) = 8, Len(dots) = 2
  PROVE  /\ p \o dots \in Seq(S)
         /\ Len(p \o dots) = 10
         /\ SubSeq(p \o dots, 1, 8) = p
<1>1. Len(p) # 0
  OBVIOUS
<1>2. Len(dots) # 0
  OBVIOUS
<1>3. p \o dots \in Seq(S)
  BY <1>1, <1>2, TwoPieces, Zenon
<1>4. Len(p \o dots) = Len(p) + Len(dots)
  BY <1>1, <1>2, TwoPieces, Zenon
<1>5. SubSeq(p \o dots, 1, 8) = p
  <2>1. 8 \in 1 .. Len(p)
    BY SMT
  <2>2. SubSeq(p \o dots, 1, 8) = SubSeq(p, 1, 8)
    BY <1>1, <1>2, <2>1, Beginning, Zenon
  <2>3. SubSeq(p, 1, Len(p)) = p
    BY SubSeqFull, Zenon
  <2> QED
    BY <2>2, <2>3, Zenon
<1>6. 8 + 2 = 10
  BY SMT
<1> QED
  BY <1>3, <1>4, <1>5, <1>6, Zenon

(* What a long name becomes, with any two characters in the middle.        *)
LEMMA JoinedEnds ==
  ASSUME NEW Chars, NEW name \in Seq(Chars), Len(name) >= 15,
         NEW dots \in Seq(Chars), Len(dots) = 2,
         NEW short,
         short = SubSeq(name, 1, 8) \o dots
                   \o SubSeq(name, Len(name) - 4, Len(name))
  PROVE  /\ Len(short) = 15
         /\ SubSeq(short, 1, 8) = SubSeq(name, 1, 8)
         /\ SubSeq(short, 11, 15) = SubSeq(name, Len(name) - 4, Len(name))
<1> DEFINE p == SubSeq(name, 1, 8)
           q == SubSeq(name, Len(name) - 4, Len(name))
<1>1. Len(name) \in Nat /\ \A i \in 1 .. Len(name) : name[i] \in Chars
  BY LenProperties
<1>2. p \in Seq(Chars) /\ Len(p) = 8
  <2>1. \A i \in 1 .. 8 : name[i] \in Chars
    BY <1>1
  <2> QED
    BY <2>1, SubSeqProperties
<1>3. q \in Seq(Chars) /\ Len(q) = 5
  <2> DEFINE m == Len(name) - 4
             n == Len(name)
  <2>1. m \in Int /\ n \in Int /\ m <= n /\ n - m + 1 = 5
        /\ \A i \in m .. n : name[i] \in Chars
    BY <1>1
  <2> HIDE DEF m, n
  <2>2. SubSeq(name, m, n) \in Seq(Chars) /\ Len(SubSeq(name, m, n)) = 5
    BY <2>1, SubSeqProperties
  <2> QED
    BY <2>2 DEF m, n
<1>4. short = (p \o dots) \o q
  OBVIOUS
<1> HIDE DEF p, q
<1>5. p \in Seq(Chars)
  BY <1>2
<1>6. Len(p) = 8
  BY <1>2
<1>7. q \in Seq(Chars)
  BY <1>3
<1>8. Len(q) = 5
  BY <1>3
<1> DEFINE pd == p \o dots
<1>9. pd \in Seq(Chars)
  BY <1>5, <1>6, EightAndTwo, SMT
<1>10. Len(pd) = 10
  BY <1>5, <1>6, EightAndTwo, SMT
<1>11. SubSeq(pd, 1, 8) = p
  BY <1>5, <1>6, EightAndTwo, SMTT(30)
<1>12. short = pd \o q
  BY <1>4
<1> HIDE DEF pd
<1>13. Len(pd \o q) = 15
  BY <1>7, <1>8, <1>9, <1>10, TenAndFive, Zenon
<1>14. SubSeq(pd \o q, 1, 8) = SubSeq(pd, 1, 8)
  BY <1>7, <1>8, <1>9, <1>10, TenAndFive, Zenon
<1>15. SubSeq(pd \o q, 11, 15) = q
  BY <1>7, <1>8, <1>9, <1>10, TenAndFive, Zenon
<1> QED
  BY <1>11, <1>12, <1>13, <1>14, <1>15, Zenon DEF p, q

(* The short form of a long name has 15 characters, the first 8 and the    *)
(* last 5 of the name (thread_tool.h:16-21).                               *)
LEMMA ShortenedEnds ==
  ASSUME NEW Chars, NEW name \in Seq(Chars), Len(name) >= 15,
         ".." \in Seq(Chars), Len("..") = 2
  PROVE  /\ Len(Shortened(name)) = 15
         /\ SubSeq(Shortened(name), 1, 8) = SubSeq(name, 1, 8)
         /\ SubSeq(Shortened(name), 11, 15)
              = SubSeq(name, Len(name) - 4, Len(name))
<1>1. Shortened(name) = SubSeq(name, 1, 8) \o ".."
                          \o SubSeq(name, Len(name) - 4, Len(name))
  <2>1. Len(name) \in Nat
    BY LenProperties
  <2>2. ~ (Len(name) < 15)
    BY <2>1
  <2> QED
    BY <2>2, Zenon DEF Shortened
<1> DEFINE short == Shortened(name)
           dots  == ".."
<1>2. dots \in Seq(Chars)
  OBVIOUS
<1>3. Len(dots) = 2
  OBVIOUS
<1>4. short = SubSeq(name, 1, 8) \o dots
                \o SubSeq(name, Len(name) - 4, Len(name))
  BY <1>1
<1> HIDE DEF short, dots
<1>5. Len(short) = 15
  BY <1>2, <1>3, <1>4, JoinedEnds, Zenon
<1>6. SubSeq(short, 1, 8) = SubSeq(name, 1, 8)
  BY <1>2, <1>3, <1>4, JoinedEnds, Zenon
<1>7. SubSeq(short, 11, 15) = SubSeq(name, Len(name) - 4, Len(name))
  BY <1>2, <1>3, <1>4, JoinedEnds, Zenon
<1> QED
  BY <1>5, <1>6, <1>7 DEF short

(* Whatever fails in the try block of a thread, its name is set: that is   *)
(* the first call, and it refuses no name that was shortened.              *)
LEMMA SetUpNames ==
  ASSUME NEW attrs \in Attributes, NEW name \in Names,
         NEW options \in ThreadOptions, Len(Shortened(name)) <= 15
  PROVE  SetUp(attrs, name, options).name = Shortened(name)
<1> DEFINE named == SetName(attrs, name)
           bound == BindCpu(named, options.cpus)
<1>1. ~ (Len(Shortened(name)) > 15)
  OBVIOUS
<1>2. named \in Attributes /\ named.name = Shortened(name)
  BY <1>1, NamesAssumption DEF SetName, Attributes
<1>3. bound \in Attributes /\ bound.name = Shortened(name)
  BY <1>2 DEF BindCpu, Attributes
<1> HIDE DEF named, bound
<1>4. ASSUME NEW sched
      PROVE  [bound EXCEPT !.sched = sched].name = Shortened(name)
  BY <1>3 DEF Attributes
<1>5. SetSched(bound, options.sched)
        \in {bound, [bound EXCEPT !.sched = TimeSharing],
             [bound EXCEPT !.sched = options.sched]}
  BY DEF SetSched
<1>6. SetUp(attrs, name, options)
        \in {named, bound, SetSched(bound, options.sched)}
  BY DEF SetUp, named, bound
<1> QED
  BY <1>2, <1>3, <1>4, <1>5, <1>6

(* The threads show names that begin and end as those of their executors   *)
(* (thread_tool.h:16-21).  Chars are the characters: in TLA+ a string is a *)
(* sequence of them, which the provers do not know.                        *)
THEOREM ThreadsShowTheirNames ==
  ASSUME NEW Chars, Names \subseteq Seq(Chars),
         ".." \in Seq(Chars), Len("..") = 2
  PROVE  Spec => []ThreadsAreRecognizable
<1>1. ASSUME IInv PROVE ThreadsAreRecognizable
  <2> SUFFICES ASSUME NEW name \in Names, IsSetUp(name)
               PROVE  LET shown == executor_map_[name].attributes.name
                      IN  IF Len(name) < 15 THEN shown = name
                          ELSE /\ SubSeq(shown, 1, 8) = SubSeq(name, 1, 8)
                               /\ SubSeq(shown, Len(shown) - 4, Len(shown))
                                    = SubSeq(name, Len(name) - 4, Len(name))
    BY DEF ThreadsAreRecognizable
  <2> DEFINE x       == executor_map_[name]
             creator == IF x.type = "main_thread" THEN ProcessAttributes
                        ELSE MainAttributes
             shown   == x.attributes.name
  <2>1. /\ name \in DOMAIN executor_map_
        /\ \/ x.type = "main_thread"
           \/ x.thread \in {"running", "exited", "joined"}
    BY DEF IsSetUp
  <2>2. x.options \in ThreadOptions
    BY <1>1, <2>1 DEF IInv, ManagerInv, ManagerTypeOK
  <2>3. creator \in Attributes
    BY <1>1, ProcessType, MainAttributesType DEF IInv
  <2>4. x.attributes = SetUp(creator, name, x.options)
    BY <1>1, <2>1 DEF IInv, ManagerInv, AttributesInv
  <2>5. name \in Seq(Chars) /\ Len(name) \in Nat
    BY LenProperties
  <2> HIDE DEF creator
  <2>6. CASE Len(name) < 15
    <3>1. Shortened(name) = name
      BY <2>6 DEF Shortened
    <3>2. Len(Shortened(name)) <= 15
      BY <2>5, <2>6, <3>1
    <3> QED
      BY <2>2, <2>3, <2>4, <2>6, <3>1, <3>2, SetUpNames
  <2>7. CASE ~ (Len(name) < 15)
    <3>1. Len(name) >= 15
      BY <2>5, <2>7
    <3>2. /\ Len(Shortened(name)) = 15
          /\ SubSeq(Shortened(name), 1, 8) = SubSeq(name, 1, 8)
          /\ SubSeq(Shortened(name), 11, 15)
               = SubSeq(name, Len(name) - 4, Len(name))
      BY <2>5, <3>1, ShortenedEnds
    <3> DEFINE short == Shortened(name)
    <3>3. Len(short) <= 15
      BY <3>2, SMT
    <3>4. shown = short
      BY <2>2, <2>3, <2>4, <3>3, SetUpNames
    <3>5. Len(short) - 4 = 11 /\ Len(short) = 15
      BY <3>2, SMT
    <3>6. /\ SubSeq(short, 1, 8) = SubSeq(name, 1, 8)
          /\ SubSeq(short, Len(short) - 4, Len(short))
               = SubSeq(name, Len(name) - 4, Len(name))
      BY <3>2, <3>5, Zenon
    <3> HIDE DEF short, shown
    <3>7. /\ SubSeq(shown, 1, 8) = SubSeq(name, 1, 8)
          /\ SubSeq(shown, Len(shown) - 4, Len(shown))
               = SubSeq(name, Len(name) - 4, Len(name))
      BY <3>4, <3>6, Zenon
    <3> QED
      BY <2>7, <3>7, Zenon DEF shown
  <2> QED
    BY <2>6, <2>7
<1> QED
  BY <1>1, InvariantHolds, PTL

(* Where in its order a phase that is ever left in state_ stands.          *)
LEMMA PhasesReached ==
  ASSUME phase \in {"kPreInit", "kPreInitConfigurator", "kPreInitExecutor",
                    "kPreStartExecutor", "kPostStart", "kPreShutdownExecutor",
                    "kPostShutdown"}
  PROVE  /\ PhaseReached("kPostInitExecutor") /\ ~PhaseReached("kPreShutdown")
              => phase \in {"kPreStartExecutor", "kPostStart"}
         /\ PhaseReached("kPostShutdownExecutor") => phase = "kPostShutdown"
<1>1. /\ DOMAIN Phases = 1 .. 18
      /\ \A i \in 1 .. 18 : Phases[i] = "kPostInitExecutor" => i = 5
      /\ \A i \in 1 .. 18 : Phases[i] = "kPostShutdownExecutor" => i = 15
      /\ Phases[13] = "kPreShutdown"
      /\ \A j \in 1 .. 18 : Phases[j] = "kPreInit" => j = 1
      /\ \A j \in 1 .. 18 : Phases[j] = "kPreInitConfigurator" => j = 2
      /\ \A j \in 1 .. 18 : Phases[j] = "kPreInitExecutor" => j = 4
      /\ \A j \in 1 .. 18 : Phases[j] = "kPreStartExecutor" => j = 10
      /\ \A j \in 1 .. 18 : Phases[j] = "kPostStart" => j = 12
      /\ \A j \in 1 .. 18 : Phases[j] = "kPreShutdownExecutor" => j = 14
      /\ Phases[14] = "kPreShutdownExecutor"
      /\ Phases[18] = "kPostShutdown"
  BY DEF Phases
<1>2. PhaseReached("kPostInitExecutor") =>
        phase \notin {"kPreInit", "kPreInitConfigurator", "kPreInitExecutor"}
  BY <1>1 DEF PhaseReached
<1>3. phase \in {"kPreShutdownExecutor", "kPostShutdown"} =>
        PhaseReached("kPreShutdown")
  BY <1>1 DEF PhaseReached
<1>4. PhaseReached("kPostShutdownExecutor") => phase = "kPostShutdown"
  BY <1>1 DEF PhaseReached
<1> QED
  BY <1>2, <1>3, <1>4

(* GetState tells the truth about the executors: what it says was made,    *)
(* started or shut down, was (ados_core.cc:33-38, 71-75, 81-91).           *)
THEOREM PhaseTellsTheTruth == Spec => []PhaseIsTrue
<1>1. IInv => PhaseIsTrue
  <2> SUFFICES ASSUME IInv PROVE PhaseIsTrue
    OBVIOUS
  <2>1. phase \in {"kPreInit", "kPreInitConfigurator", "kPreInitExecutor",
                   "kPreStartExecutor", "kPostStart", "kPreShutdownExecutor",
                   "kPostShutdown"}
    BY DEF IInv, TypeOK, PhaseInv
  <2>2. ASSUME phase \in {"kPreStartExecutor", "kPostStart"}
        PROVE  AllMade
    <3>1. cpc \in {"start", "starting", "wait", "shutdown"}
      BY <2>2 DEF IInv, TypeOK, PhaseInv
    <3>2. CASE cpc = "start"
      BY <3>2 DEF IInv, ManagerInv, CallInv, Initializing, PlaceInv
    <3>3. CASE cpc \in {"starting", "wait", "shutdown"}
      BY <3>3 DEF IInv, ManagerInv, CallInv, Starting, PlaceInv
    <3> QED
      BY <3>1, <3>2, <3>3
  <2>3. ASSUME AllMade, NEW i \in DOMAIN ToInitialize
        PROVE  ToInitialize[i].name \in DOMAIN executor_map_
    <3>1. DOMAIN ToInitialize = 1 .. Count
      BY <2>3, ToInitializeShape, LenProperties
      DEF AllMade, IInv, ManagerInv, ManagerTypeOK
    <3> QED
      BY <2>3, <3>1, MadeType DEF IInv, ManagerInv, NamesInv
  <2>4. ASSUME phase = "kPostStart", NEW name \in DOMAIN executor_map_
        PROVE  /\ executor_map_[name].state = "kStart"
               /\ executor_map_[name].thread \in Alive
                    <=> executor_map_[name].type # "main_thread"
    <3>1. cpc \in {"wait", "shutdown"}
      BY <2>4 DEF IInv, TypeOK, PhaseInv
    <3>2. state_ = "kStart" /\ mpc = "idle"
      BY <3>1 DEF IInv, PlaceInv
    <3>3. PICK i \in 1 .. Count : name = used_executor_names_[i]
      BY MadeType DEF IInv
    <3>4. Made(i).state = "kStart"
      BY <3>2 DEF IInv, ManagerInv, CallInv, Starting
    <3>5. Made(i) \in ExecutorType /\ KeepsThread(Made(i))
      BY MadeType DEF IInv
    <3>6. Made(i).thread \in Alive <=> Made(i).type # "main_thread"
      BY <3>4, <3>5 DEF ExecutorType, KeepsThread, Alive, Threads, Types
    <3> QED
      BY <3>3, <3>4, <3>6 DEF Made
  <2>5. ASSUME phase = "kPostShutdown", NEW name \in DOMAIN executor_map_
        PROVE  Gone(executor_map_[name])
    <3>1. state_ = "kShutdown" /\ mpc = "idle"
      BY <2>5 DEF IInv, TypeOK, PhaseInv, PlaceInv
    <3> QED
      BY <3>1, AllGone DEF IInv
  <2> QED
    BY <2>1, <2>2, <2>3, <2>4, <2>5, PhasesReached DEF PhaseIsTrue, Gone
<1> QED
  BY <1>1, InvariantHolds, PTL

-----------------------------------------------------------------------------
(* The executors for main and guard have names of their own.  RuntimeClash *)
(* shows a configuration that does not, which the code accepts.            *)
NamesApart == WellPlaced => ToInitialize[1].name # ToInitialize[2].name

LEMMA NamesStayApart ==
  ASSUME IInv, NamesApart, InitializeNext
  PROVE  alive /\ alive'
<1>1. ~Rejected(Head(todo)) /\ Head(todo).decodes
        => Head(todo).name \notin DOMAIN executor_map_
  BY InitializeClashes DEF NamesApart, IInv
<1> QED
  BY <1>1 DEF InitializeNext, ManagerAt

LEMMA NoStepTerminates ==
  ASSUME IInv, NamesApart, NeverTerminates, [Next]_vars
  PROVE  NamesApart' /\ NeverTerminates'
<1> USE DEF IInv
<1>1. UNCHANGED executors_options
  BY ManagerStepKeeps
  DEF Next, vars, MainStep, Construct, Publish, ConfiguratorInitialize,
      ExecutorsInitialize, ConfiguratorStart, ExecutorsStart, Started,
      WaitReturns, ShutdownImpl, ShutdownImplAgain, ConfiguratorShutdown,
      MainShutdown, Unpublish, Free, Exit, ManagerContinues, Deliver,
      HandlerStep, HandlerChecks, HandlerExchanges, HandlerSetsPromise,
      HandlerStrays, ExecutorThread, ThreadSetsUp, ThreadExits, managerVars,
      InitializeBegins, InitializeThrows, StartBegins, ShutdownBegins,
      Destroyed
<1>2. NamesApart'
  BY <1>1, ToInitializeStays DEF NamesApart
<1>3. CASE UNCHANGED vars
  BY <1>2, <1>3 DEF vars, managerVars, NeverTerminates, UsesDestroyedCore
<1>4. Next => alive
  BY DEF Next, MainStep, Construct, Publish, ConfiguratorInitialize,
      ExecutorsInitialize, ConfiguratorStart, ExecutorsStart, Started,
      WaitReturns, ShutdownImpl, ShutdownImplAgain, ConfiguratorShutdown,
      MainShutdown, Unpublish, Free, Exit, ManagerContinues, Deliver,
      HandlerStep, HandlerChecks, HandlerExchanges, HandlerSetsPromise,
      HandlerStrays, ExecutorThread, ThreadSetsUp, ThreadExits,
      MainAt, ManagerReturned, HandlerAt, ManagerStep, ManagerAt,
      InitializeNext, InitializeReturns, StartNext, StartedNext, StartReturns,
      ShutdownNext, ShutdownJoin, ShutdownReturns
<1>5. CASE Free
  <2>1. state_ = "kShutdown" /\ mpc = "idle"
    BY <1>5 DEF Free, MainAt, PlaceInv
  <2>2. \A name \in DOMAIN executor_map_ :
          executor_map_[name].thread \in {"none", "joined"}
    BY <2>1, AllGone DEF Gone
  <2>3. alive'
    BY <1>5, <2>2 DEF Free, Destroyed
  <2> QED
    BY <1>2, <2>3 DEF NeverTerminates
<1>6. CASE InitializeNext
  BY <1>2, <1>6, NamesStayApart DEF NeverTerminates
<1>7. ASSUME NEW i \in DOMAIN handlers, HandlerSetsPromise(i)
      PROVE  NamesApart' /\ NeverTerminates'
  <2>1. ~shutdown_promise_
    BY <1>7 DEF HandlerSetsPromise, HandlerAt, HandlersInv
  <2> QED
    BY <1>2, <1>7, <2>1 DEF HandlerSetsPromise, NeverTerminates
<1>8. ASSUME NEW i \in DOMAIN handlers, HandlerStrays(i)
      PROVE  NamesApart' /\ NeverTerminates'
  <2>1. CASE UNCHANGED alive
    BY <1>2, <1>8, <2>1 DEF HandlerStrays, HandlerAt, NeverTerminates
  <2>2. CASE UNCHANGED handlers
    BY <1>2, <1>8, <2>2 DEF HandlerStrays, HandlerAt, NeverTerminates,
                            UsesDestroyedCore
  <2> QED
    BY <1>8, <2>1, <2>2 DEF HandlerStrays
<1>9. ASSUME Next,
             ~Free, ~InitializeNext,
             ~ \E i \in DOMAIN handlers :
                 HandlerSetsPromise(i) \/ HandlerStrays(i)
      PROVE  UNCHANGED alive
  <2>1. ManagerStep => UNCHANGED alive
    BY <1>9 DEF ManagerStep, InitializeReturns, StartNext, StartedNext,
                StartReturns, ShutdownNext, ShutdownJoin, ShutdownReturns
  <2>2. MainStep => UNCHANGED alive
    BY <1>9, <2>1
    DEF MainStep, Construct, Publish, ConfiguratorInitialize,
        ExecutorsInitialize, ConfiguratorStart, ExecutorsStart, Started,
        WaitReturns, ShutdownImpl, ShutdownImplAgain, ConfiguratorShutdown,
        MainShutdown, Unpublish, Exit, ManagerContinues, managerVars,
        InitializeBegins, InitializeThrows, StartBegins, ShutdownBegins
  <2>3. HandlerStep => UNCHANGED alive
    BY <1>9 DEF HandlerStep, HandlerChecks, HandlerExchanges, managerVars
  <2> QED
    BY <1>9, <2>2, <2>3 DEF Next, Deliver, ExecutorThread, ThreadSetsUp,
                            ThreadExits, managerVars
<1> QED
  BY <1>2, <1>3, <1>4, <1>5, <1>6, <1>7, <1>8, <1>9 DEF NeverTerminates

(* Whatever fails while the runtime comes up and whenever signals arrive,  *)
(* every thread is joined before its executor is destroyed and the promise *)
(* is set once (ados_core.cc:11-19, 49-54, 78-92;                          *)
(* executor_manager.cc:142-155).                                           *)
THEOREM NothingTerminates == Spec /\ NamesApart => []NeverTerminates
<1>1. Init => NeverTerminates
  BY DEF Init, ManagerInit, NeverTerminates
<1>2. IInv /\ (NamesApart /\ NeverTerminates) /\ [Next]_vars
        => (NamesApart /\ NeverTerminates)'
  BY NoStepTerminates
<1> QED
  BY <1>1, <1>2, InvariantHolds, PTL DEF Spec

LEMMA NoNameTwice ==
  ASSUME IInv, NamesApart, NamesAreUnique, [Next]_vars, ManagerInv'
  PROVE  NamesAreUnique'
<1>1. CASE UNCHANGED used_executor_names_
  BY <1>1 DEF NamesAreUnique
<1>2. CASE InitializeNext
  BY <1>2, NamesStayApart DEF ManagerInv, NamesInv, NamesAreUnique
<1>3. ManagerStep => InitializeNext \/ UNCHANGED used_executor_names_
  BY DEF ManagerStep, InitializeReturns, StartNext, StartedNext, StartReturns,
         ShutdownNext, ShutdownJoin, ShutdownReturns
<1>4. MainStep => ManagerStep \/ UNCHANGED used_executor_names_
  BY DEF MainStep, Construct, Publish, ConfiguratorInitialize,
         ExecutorsInitialize, ConfiguratorStart, ExecutorsStart, Started,
         WaitReturns, ShutdownImpl, ShutdownImplAgain, ConfiguratorShutdown,
         MainShutdown, Unpublish, Free, Destroyed, Exit, ManagerContinues,
         managerVars, InitializeBegins, InitializeThrows, StartBegins,
         ShutdownBegins
<1>5. Next \/ UNCHANGED vars => MainStep \/ UNCHANGED used_executor_names_
  BY DEF Next, HandlerStep, HandlerChecks, HandlerExchanges,
         HandlerSetsPromise, HandlerStrays, Deliver, ExecutorThread,
         ThreadSetsUp, ThreadExits, vars, managerVars
<1> QED
  BY <1>1, <1>2, <1>3, <1>4, <1>5

(* With names apart for main and guard, "Duplicate executor name"          *)
(* (executor_manager.cc:114-115) is what happens to every other duplicate: *)
(* RuntimeClash shows the one that the check comes too late for.           *)
THEOREM DuplicatesAreRejected == Spec /\ NamesApart => []NamesAreUnique
<1>1. Init => NamesAreUnique
  BY DEF Init, ManagerInit, NamesAreUnique
<1>2. IInv /\ IInv' /\ (NamesApart /\ NeverTerminates) /\ NamesAreUnique
      /\ [Next]_vars => NamesAreUnique'
  <2>1. IInv' => ManagerInv'
    BY DEF IInv
  <2> QED
    BY <2>1, NoNameTwice
<1>3. Init => NeverTerminates
  BY DEF Init, ManagerInit, NeverTerminates
<1>4. IInv /\ (NamesApart /\ NeverTerminates) /\ [Next]_vars
        => (NamesApart /\ NeverTerminates)'
  BY NoStepTerminates
<1> QED
  BY <1>1, <1>2, <1>3, <1>4, InvariantHolds, PTL DEF Spec

-----------------------------------------------------------------------------
(* What ExecutorLifecycle sees of an executor.                             *)
StateOf(name) ==
  IF name \in DOMAIN executor_map_ THEN executor_map_[name].state
  ELSE "kPreInit"

ThreadOf(name) ==
  IF name \notin DOMAIN executor_map_ THEN "none"
  ELSE IF executor_map_[name].thread = "launched" THEN "running"
  ELSE executor_map_[name].thread

LEMMA LifecycleSees ==
  ASSUME NEW name \in Names
  PROVE  L(name)!vars = <<StateOf(name), ThreadOf(name)>>
BY DEF L!vars, StateOf, ThreadOf

(* Making, starting, telling to stop, returning and joining are steps of   *)
(* the life cycle; all else leaves an executor as it is.                   *)
LEMMA StepKeepsLifecycle ==
  ASSUME IInv, [Next]_vars, NEW name \in Names
  PROVE  [L(name)!Next]_(L(name)!vars)
<1> USE DEF IInv
<1> DEFINE Stutters == /\ StateOf(name)' = StateOf(name)
                       /\ ThreadOf(name)' = ThreadOf(name)
<1>1. ASSUME Stutters PROVE [L(name)!Next]_(L(name)!vars)
  BY <1>1 DEF L!vars, StateOf, ThreadOf
<1>2. ASSUME UNCHANGED executor_map_ PROVE [L(name)!Next]_(L(name)!vars)
  BY <1>2, <1>1 DEF StateOf, ThreadOf
<1>3. \A n \in DOMAIN executor_map_ :
        executor_map_[n] \in ExecutorType /\ KeepsThread(executor_map_[n])
  BY DEF ManagerInv, ManagerTypeOK, ThreadsInv, ExecutorType
<1>4. CASE InitializeNext
  <2>1. CASE Head(todo).name # name \/ UNCHANGED executor_map_
    <3>1. CASE UNCHANGED executor_map_
      BY <1>2, <3>1
    <3>2. CASE /\ executor_map_' =
                    WithExecutor(Head(todo).name, Fresh(Head(todo)))
               /\ Head(todo).name # name
      BY <1>1, <3>2 DEF WithExecutor, StateOf, ThreadOf
    <3> QED
      BY <1>4, <2>1, <3>1, <3>2 DEF InitializeNext
  <2>2. CASE /\ name \notin DOMAIN executor_map_
             /\ executor_map_' = WithExecutor(name, Fresh(Head(todo)))
    <3>1. /\ name \in DOMAIN executor_map_'
          /\ executor_map_'[name].state = "kInit"
          /\ executor_map_'[name].thread \in {"none", "launched"}
      BY <2>2 DEF WithExecutor, Fresh
    <3>2. L(name)!Initialize
      BY <2>2, <3>1 DEF L!Initialize, L!MayLaunch
    <3> QED
      BY <3>2 DEF L!Next
  <2> QED
    BY <1>4, <2>1, <2>2 DEF InitializeNext
<1>5. CASE StartNext
  <2>1. /\ state_ = "kStart" /\ Starting /\ mpc = "start"
        /\ todo \in Seq(Names) /\ todo # <<>>
        /\ Len(todo) \in Nat \ {0} /\ Len(todo) <= Count /\ Count \in Nat
    BY <1>5, CallState, MadeType, LenProperties, EmptySeq
    DEF ManagerInv, ManagerTypeOK, CallInv, StartNext, ManagerAt, Starting
  <2>2. PICK k \in 1 .. Count : k = Count - Len(todo) + 1
    <3>1. Count - Len(todo) + 1 \in 1 .. Count
      BY <2>1
    <3> QED
      BY <3>1
  <2>3. Head(todo) = used_executor_names_[k] /\ Made(k).state = "kInit"
    <3>1. todo[1] = used_executor_names_[Count - Len(todo) + 1]
      BY <2>1 DEF Starting
    <3>2. ToStart = Count - Len(todo)
      BY <2>1 DEF ToStart
    <3>3. ~(k <= ToStart)
      BY <2>1, <2>2, <3>2
    <3> QED
      BY <2>1, <2>2, <3>1, <3>3 DEF Starting
  <2>4. /\ Head(todo) \in DOMAIN executor_map_
        /\ executor_map_[Head(todo)].state = "kInit"
    BY <2>3, MadeType DEF Made
  <2>5. CASE name # Head(todo)
    BY <1>1, <1>5, <2>5 DEF StartNext, StateOf, ThreadOf
  <2>6. CASE name = Head(todo)
    <3>1. /\ name \in DOMAIN executor_map_'
          /\ executor_map_'[name].state = "kStart"
          /\ executor_map_'[name].thread =
               IF executor_map_[name].type = "time_wheel" THEN "launched"
               ELSE executor_map_[name].thread
      BY <1>3, <1>5, <2>4, <2>6 DEF StartNext, ExecutorType
    <3>2. executor_map_[name].type = "time_wheel"
            => executor_map_[name].thread = "none"
      BY <1>3, <2>4, <2>6 DEF KeepsThread
    <3>3. L(name)!Start
      BY <2>4, <2>6, <3>1, <3>2 DEF L!Start, L!MayLaunch
    <3> QED
      BY <3>3 DEF L!Next
  <2> QED
    BY <2>5, <2>6
<1>6. CASE ShutdownNext
  <2>1. /\ state_ = "kShutdown" /\ ShuttingDown /\ mpc = "shutdown"
        /\ todo # <<>>
    BY <1>6, ToShutDownNext DEF ShutdownNext, ManagerAt
  <2>2. PICK k \in 1 .. Count :
          k = Len(todo) /\ Head(todo) = used_executor_names_[k]
    BY <2>1, ToShutDownNext
  <2>3. /\ Head(todo) \in DOMAIN executor_map_
        /\ executor_map_[Head(todo)].state \in {"kInit", "kStart"}
    <3>1. Made(k).state # "kShutdown"
      BY <2>1, <2>2 DEF ShuttingDown
    <3>2. Made(k) \in ExecutorType /\ KeepsThread(Made(k))
      BY MadeType
    <3> QED
      BY <2>2, <3>1, <3>2, MadeType DEF Made, ExecutorType, KeepsThread, State
  <2>5. CASE name # Head(todo)
    BY <1>1, <1>6, <2>5 DEF ShutdownNext, StateOf, ThreadOf
  <2>6. CASE name = Head(todo)
    <3>1. /\ name \in DOMAIN executor_map_'
          /\ executor_map_'[name].state = "kShutdown"
          /\ executor_map_'[name].thread = executor_map_[name].thread
      BY <1>3, <1>6, <2>3, <2>6 DEF ShutdownNext, ExecutorType
    <3>2. L(name)!Shutdown
      BY <2>3, <2>6, <3>1 DEF L!Shutdown
    <3> QED
      BY <3>2 DEF L!Next
  <2> QED
    BY <2>5, <2>6
<1>7. CASE ShutdownJoin
  <2>1. CASE name # Head(todo) \/ name \notin DOMAIN executor_map_
    <3>1. /\ name \in DOMAIN executor_map_' <=> name \in DOMAIN executor_map_
          /\ name \in DOMAIN executor_map_ =>
               executor_map_'[name] = executor_map_[name]
      BY <1>7, <2>1 DEF ShutdownJoin
    <3> QED
      BY <1>1, <3>1 DEF StateOf, ThreadOf
  <2>2. CASE name = Head(todo) /\ name \in DOMAIN executor_map_
    <3>1. /\ name \in DOMAIN executor_map_'
          /\ executor_map_'[name].state = executor_map_[name].state
          /\ executor_map_'[name].thread =
               IF executor_map_[name].thread = "none" THEN "none" ELSE "joined"
          /\ executor_map_[name].thread \in {"none", "exited", "joined"}
      BY <1>3, <1>7, <2>2 DEF ShutdownJoin, Joins, ExecutorType, Threads, Alive
    <3>2. CASE executor_map_[name].thread = "exited"
      <4>1. L(name)!Join
        BY <2>2, <3>1, <3>2 DEF L!Join
      <4> QED
        BY <4>1 DEF L!Next
    <3>3. CASE executor_map_[name].thread # "exited"
      BY <1>1, <2>2, <3>1, <3>3 DEF StateOf, ThreadOf
    <3> QED
      BY <3>2, <3>3
  <2> QED
    BY <2>1, <2>2
<1>8. ASSUME NEW n \in Names, ExecutorThread(n)
      PROVE  [L(name)!Next]_(L(name)!vars)
  <2>1. CASE n # name
    BY <1>1, <1>8, <2>1 DEF ExecutorThread, ThreadSetsUp, ThreadExits,
                            StateOf, ThreadOf
  <2>2. CASE n = name /\ ThreadSetsUp(name)
    <3>1. /\ name \in DOMAIN executor_map_ /\ name \in DOMAIN executor_map_'
          /\ executor_map_'[name].state = executor_map_[name].state
          /\ executor_map_[name].thread = "launched"
          /\ executor_map_'[name].thread = "running"
      BY <1>3, <2>2 DEF ThreadSetsUp, ExecutorType
    <3> QED
      BY <1>1, <3>1 DEF StateOf, ThreadOf
  <2>3. CASE n = name /\ ThreadExits(name)
    <3>1. /\ name \in DOMAIN executor_map_ /\ name \in DOMAIN executor_map_'
          /\ executor_map_'[name].state = executor_map_[name].state
          /\ executor_map_[name].state = "kShutdown"
          /\ executor_map_[name].thread = "running"
          /\ executor_map_'[name].thread = "exited"
      BY <1>3, <2>3 DEF ThreadExits, ExecutorType
    <3>2. L(name)!Exit
      BY <3>1 DEF L!Exit
    <3> QED
      BY <3>2 DEF L!Next
  <2> QED
    BY <1>8, <2>1, <2>2, <2>3 DEF ExecutorThread
<1>9. ASSUME ManagerStep PROVE [L(name)!Next]_(L(name)!vars)
  <2>1. InitializeReturns \/ StartedNext \/ StartReturns \/ ShutdownReturns
          => UNCHANGED executor_map_
    BY DEF InitializeReturns, StartedNext, StartReturns, ShutdownReturns
  <2> QED
    BY <1>2, <1>4, <1>5, <1>6, <1>7, <1>9, <2>1 DEF ManagerStep
<1>10. CASE MainStep
  <2>1. MainStep /\ ~ManagerStep => UNCHANGED executor_map_
    BY DEF MainStep, Construct, Publish, ConfiguratorInitialize,
        ExecutorsInitialize, ConfiguratorStart, ExecutorsStart, Started,
        WaitReturns, ShutdownImpl, ShutdownImplAgain, ConfiguratorShutdown,
        MainShutdown, Unpublish, Free, Destroyed, Exit, ManagerContinues,
        managerVars, InitializeBegins, InitializeThrows, StartBegins,
        ShutdownBegins
  <2> QED
    BY <1>2, <1>9, <1>10, <2>1
<1>11. HandlerStep \/ (\E sig \in Signals, thread \in RunningThreads :
                         Deliver(sig, thread)) \/ UNCHANGED vars
         => UNCHANGED executor_map_
  BY DEF HandlerStep, HandlerChecks, HandlerExchanges, HandlerSetsPromise,
         HandlerStrays, Deliver, vars, managerVars
<1> QED
  BY <1>2, <1>8, <1>10, <1>11 DEF Next

(* Every executor is led through the life cycle that GuardThreadExecutor   *)
(* and TimeWheelExecutor are modelled with on their own                    *)
(* (executor_manager.cc:131-155).                                          *)
THEOREM LifecycleIsKept == Spec => ExecutorsKeepLifecycle
<1>1. Init => \A name \in Names : L(name)!Init
  BY DEF Init, ManagerInit, L!Init
<1>2. IInv /\ [Next]_vars
        => [\A name \in Names : [L(name)!Next]_(L(name)!vars)]_vars
  BY StepKeepsLifecycle
<1> QED
  BY <1>1, <1>2, InvariantHolds, PTL DEF Spec, ExecutorsKeepLifecycle
=============================================================================
