SPECIFICATION Spec
CONSTANTS
  Jobs = {j1}
  Workers = {w1}
  Sockets = {w1}
  MAX_ATTEMPTS = 3
  QUEUE_ATTEMPTS = 3
  MAX_STALLED = 1
  FaultKinds = {}
  Endpoints = {"cancel"}
  MaxFaults = 0
CHECK_DEADLOCK FALSE
INVARIANT CancelledJobsAreFinal
