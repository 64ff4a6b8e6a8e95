SPECIFICATION FairSpec
CONSTANTS
  Names = {"main", "guard", "wheel", "trajectory_tick", "perception_wheel", "nxpilot_main", "nxpilot_guard"}
  MaxCpuIdx = 4
  UsableCpus = {0, 1, 2}
  Priorities = {1, 10, 99}
  MayUseRealTime = TRUE
  ProcessName = "ados_main"
  DefaultMain = "nxpilot_main"
  DefaultGuard = "nxpilot_guard"
  Configs <- DistinctConfigs
  Signals = {SIGINT, SIGTERM}
  Main = main_thread
  MaxSignals = 3
INVARIANTS
  TypeOK
  NeverTerminates
  ShutdownInReverse
  HandlersFindTheCore
  PhaseIsTrue
  ThreadsAreRecognizable
  AttributesStayApart
PROPERTIES
  ExecutorsKeepLifecycle
  EndsWhenAsked
CHECK_DEADLOCK FALSE
