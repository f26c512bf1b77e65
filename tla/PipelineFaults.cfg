SPECIFICATION Spec
CONSTANTS
  Posters = {p1, p2}
  MaxRequests = 1
  MaxMessages = 1
  MaxAttempts = 2
  Events = {"timeout", "refusal", "crash", "publish_error", "fetch_error"}
  None = None
SYMMETRY Symmetry
INVARIANTS
  OpenIsServed
  UndecidedIsServed
CHECK_DEADLOCK FALSE
