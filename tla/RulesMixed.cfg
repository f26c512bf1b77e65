SPECIFICATION Spec
CONSTANTS
  Rules <- Mixed
  Tier <- Tiers
  MaxAttempts = 1
  Faults = {}
INVARIANT
  DoneMeansHolds
CHECK_DEADLOCK FALSE
