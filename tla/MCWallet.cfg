SPECIFICATION FairSpec
CONSTANTS
  d1 = d1
  d2 = d2
  Devices = {d1, d2}
  Jobs <- Scenarios
  InitFactors <- Factors
  InitWhitelist <- Whitelists
  MaxFactors = 3
  WhitelistMax = 1
  Life = 2
  MaxTries = 4
  MaxShared <- Shared
  MaxFaults = 1
INVARIANTS OkMeansDone GivesUpOnlyIfLate RefusedOnlyIfRaced ProgressEndsOnce
PROPERTY AloneCompletes
CHECK_DEADLOCK FALSE
