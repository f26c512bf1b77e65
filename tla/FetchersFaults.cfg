SPECIFICATION FairSpec
CONSTANTS
  Users = {1}
  QueryLimit = 2
  OtherTasks = {0, 1, 2}
  LockExpiry = 3
  LockTimeout = 3
  MaxHeap = 2
  MaxFaults = 3
  Faults = {"rollback", "publish_error", "restart", "http", "read_timeout", "connect_timeout", "archiver", "resolve_error"}
  None = None
INVARIANTS
  EnabledIsServed
PROPERTIES
  ProfileAppears
  OwnKeyOutlived
CHECK_DEADLOCK FALSE
