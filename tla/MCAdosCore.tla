----------------------------- MODULE MCAdosCore -----------------------------
(***************************************************************************)
(* Small instances of AdosCore, with its ExecutorManager, for TLC.         *)
(***************************************************************************)
EXTENDS AdosCore

Entry(name, type, decodes, cpus, policy, priority) ==
  [name |-> name, type |-> type, decodes |-> decodes,
   options |-> [cpus  |-> cpus,
                sched |-> [policy |-> policy, priority |-> priority]]]

Plain(name, type) == Entry(name, type, TRUE, {}, "", 0)

Broken(name, type) == Entry(name, type, FALSE, {}, "", 0)

MainEntry  == Entry("main", "main_thread", TRUE, {0, 1}, "", 0)
GuardEntry == Entry("guard", "guard_thread", TRUE, {1, 2}, "SCHED_FIFO", 10)
WheelEntry == Entry("trajectory_tick", "time_wheel", TRUE, {}, "SCHED_RR", 100)
Wheel2     == "perception_wheel"

(* Everything that may go right or wrong, names of main and guard apart.   *)
(* The names of the wheels have 15 and 16 characters.  CPUs and policies:  *)
(* none, valid, out of range, not usable, no such policy.                  *)
DistinctConfigs ==
  { <<>>,
    <<MainEntry, GuardEntry, WheelEntry>>,
    <<GuardEntry, WheelEntry,
      Entry(Wheel2, "time_wheel", TRUE, {3}, "SCHED_RR", 1)>>,
    <<MainEntry, Broken("guard", "guard_thread"), WheelEntry>>,
    <<GuardEntry, WheelEntry, Broken(Wheel2, "time_wheel")>>,
    <<Entry(Wheel2, "time_wheel", TRUE, {2}, "SCHED_OTHER", 0),
      Plain("guard", "time_wheel"), WheelEntry, WheelEntry>>,
    <<Entry("main", "main_thread", TRUE, {4}, "SCHED_FIFO", 1),
      Entry(Wheel2, "time_wheel", TRUE, {}, "other", 0),
      Plain("wheel", "unknown")>>,
    <<WheelEntry, GuardEntry>> }

(* Main and guard under one name, given or by default.                     *)
ClashingConfigs ==
  { <<Plain("guard", "main_thread"), GuardEntry>>,
    <<Plain("nxpilot_main", "guard_thread")>> }
=============================================================================
