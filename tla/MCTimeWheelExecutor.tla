------------------------ MODULE MCTimeWheelExecutor ------------------------
(***************************************************************************)
(* Small instances of TimeWheelExecutor for TLC.                           *)
(***************************************************************************)
EXTENDS TimeWheelExecutor

OneLevelOfTwo   == <<2>>
OneLevelOfThree == <<3>>
TwoLevels       == <<2, 2>>

(* As ExecutorManager drives it.                                           *)
ManagerScripts ==
  { <<"Initialize", "Start", "Shutdown", "Destroy">>,
    <<"Initialize", "Shutdown", "Destroy">> }

(* Calls out of order: Initialize and Start once more, before and after    *)
(* Shutdown.                                                               *)
RepeatedScripts ==
  { <<"Initialize", "Start", "Shutdown", "Initialize", "Start">>,
    <<"Initialize", "Start", "Initialize", "Start">>,
    <<"Initialize", "Start", "Shutdown", "Start", "Shutdown">> }
=============================================================================
