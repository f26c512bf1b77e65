SPECIFICATION FairSpec
CONSTANTS
  Jobs = {j1, j2}
  Slots = {s1, s2}
  Concurrency = 1
  Interval = 1
  ShouldReschedule = TRUE
  HookAwaits = TRUE
  Instructions <- EveryInstruction
  Published = {j1}
  MaxOutstanding = 2
  NoJob = NoJob
INVARIANTS
  NoOverlap
  ActiveExact
  NoLostWakeup
PROPERTIES
  RecurringNeverLost
  JobsRun
  StopTerminates
