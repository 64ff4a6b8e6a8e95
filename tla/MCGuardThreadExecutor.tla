----------------------- MODULE MCGuardThreadExecutor -----------------------
(* Instances of GuardThreadExecutor for TLC.                               *)
EXTENDS GuardThreadExecutor, TLC

CONSTANTS c1, c2, t1, t2, t3

CallerSymmetry == Permutations(Callers)

(* What ExecutorManager does with an executor: all of it, or no Start      *)
(* because a later executor failed to initialize; then ~ExecutorManager.   *)
ManagerScripts ==
  { <<"Initialize", "Start", "Shutdown", "Destroy">>,
    <<"Initialize", "Shutdown", "Destroy">> }

(* The public methods in other orders too: calls repeated or out of place. *)
LooseScripts ==
  { <<"Initialize", "Start", "Shutdown">>,
    <<"Initialize", "Initialize", "Shutdown">>,
    <<"Start", "Initialize", "Shutdown">>,
    <<"Initialize", "Shutdown", "Start", "Shutdown">> }

=============================================================================
