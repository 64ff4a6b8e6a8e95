SPECIFICATION Spec
CONSTANTS
  Names = {"main", "guard", "wheel", "trajectory_tick", "perception_wheel", "nxpilot_main", "nxpilot_guard"}
  MaxCpuIdx = 4
  UsableCpus = {0, 1, 2}
  Priorities = {1, 10, 99}
  MayUseRealTime = TRUE
  ProcessName = "ados_main"
  DefaultMain = "nxpilot_main"
  DefaultGuard = "nxpilot_guard"
  Configs <- ClashingConfigs
  Signals = {SIGINT, SIGTERM}
  Main = main_thread
  MaxSignals = 0
INVARIANT
  NamesAreUnique
CHECK_DEADLOCK FALSE
