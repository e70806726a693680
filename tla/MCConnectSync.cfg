\* The documented dApp, with timeouts.
SPECIFICATION FairSpec
CONSTANTS
  MaxLog = 6
  MaxAccept = 3
  MaxClock = 2
  PayloadTtl = 2
  SessionTtl = 3
  PageLimit = 6
  Policy <- PollingWallet
  Faults <- Timeouts
INVARIANT InSyncUnlessGivenUp
PROPERTIES
  DesyncIsReal
  ChallengeAnswered
\* the log is bounded, so the protocol stops when it is full
CHECK_DEADLOCK FALSE
