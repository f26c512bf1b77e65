SPECIFICATION Spec
CONSTANTS
  Posts = {p1, p2, p3}
  Rules <- LimitFirst
  MaxRequests = 2
  PeriodLength = 3
  Duration = 3
  Cooldown = 2
  MaxTime = 5
  Prompt = TRUE
  Faults = {"enqueue", "rollback", "crash"}
  None = None
SYMMETRY Symmetry
INVARIANTS
  RateLimitHeld
  StateIsOwned
  CooldownHeld
CHECK_DEADLOCK FALSE
