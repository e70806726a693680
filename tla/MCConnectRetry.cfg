\* The documented dApp retries after a timeout.
SPECIFICATION Spec
CONSTANTS
  MaxLog = 5
  MaxAccept = 2
  MaxClock = 1
  PayloadTtl = 2
  SessionTtl = 9
  PageLimit = 6
  Policy <- DocumentedCallers
  Faults <- Timeouts
INVARIANT RetryStaysInSync
\* the log is bounded, so the protocol stops when it is full
CHECK_DEADLOCK FALSE
