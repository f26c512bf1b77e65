SPECIFICATION FairSpec
CONSTANTS
  Order <- ThreeServices
  Faults = {"start_error", "task_error", "early_stop"}
INVARIANTS
  OneGeneration
  ShutdownLeavesOnlyLost
PROPERTIES
  ShutdownTerminates
CHECK_DEADLOCK FALSE
