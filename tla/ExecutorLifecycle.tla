-------------------------- MODULE ExecutorLifecycle --------------------------
(***************************************************************************)
(* What ExecutorManager and an executor expect of each other: the life     *)
(* cycle of src/runtime/core/executor/executor_base.h together with the    *)
(* executor's thread.  GuardThreadExecutor and TimeWheelExecutor implement *)
(* it with its fairness: a thread that is told to stop returns.            *)
(* ExecutorManager keeps every executor to it and relies on that fairness. *)
(***************************************************************************)
VARIABLES state,  \* what was last called
          thread  \* "none", "running", "exited", "joined"

vars == <<state, thread>>

Init == state = "kPreInit" /\ thread = "none"

(* An executor launches its thread when it is initialized, when it is      *)
(* started, or never.                                                      *)
MayLaunch == thread' = thread \/ (thread = "none" /\ thread' = "running")

Initialize ==
  /\ state = "kPreInit"
  /\ state' = "kInit"
  /\ MayLaunch

Start ==
  /\ state = "kInit"
  /\ state' = "kStart"
  /\ MayLaunch

Shutdown ==
  /\ state \in {"kInit", "kStart"}
  /\ state' = "kShutdown"
  /\ UNCHANGED thread

(* The thread returns only when it was told to.                            *)
Exit ==
  /\ state = "kShutdown" /\ thread = "running"
  /\ thread' = "exited"
  /\ UNCHANGED state

Join ==
  /\ thread = "exited"
  /\ thread' = "joined"
  /\ UNCHANGED state

Next == Initialize \/ Start \/ Shutdown \/ Exit \/ Join

SafeSpec == Init /\ [][Next]_vars

Spec == SafeSpec /\ WF_vars(Exit)
=============================================================================
