SPECIFICATION FairSpec
CONSTANTS
  Jobs = {j1}
  Workers = {w1, w2}
  Sockets = {w1}
  MAX_ATTEMPTS = 3
  QUEUE_ATTEMPTS = 3
  MAX_STALLED = 1
  FaultKinds = {"reject", "reply", "crash", "stall"}
  Endpoints = {"cancel", "complete"}
  MaxFaults = 3
CHECK_DEADLOCK FALSE
INVARIANTS TypeOK RefundedAtMostOnce NoFreeResult AttemptsBounded AnnouncedCompletionHolds
PROPERTIES FinalIsFinal QueuedJobsEnd ChargeIsSettled
