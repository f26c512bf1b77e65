SPECIFICATION FairSpec
CONSTANTS
  Rules <- AllRules
  Tier <- Tiers
  MaxAttempts = 3
  Faults = {"error", "timeout"}
INVARIANTS
  DoneMeansHolds
  VerdictMeansBroken
PROPERTIES
  VerdictReached
CHECK_DEADLOCK FALSE
