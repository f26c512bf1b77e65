SPECIFICATION FairSpec
CONSTANTS
  Posters = {p1}
  MaxRequests = 2
  MaxMessages = 1
  MaxAttempts = 1
  Events = {"timeout", "job_error", "refusal", "delete", "patch", "crash"}
  None = None
PROPERTIES
  AcceptedIsProcessed
  RowIsDecided
  ImplementsPromise
CHECK_DEADLOCK FALSE
