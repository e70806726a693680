\* The example application without failures, under fairness.
SPECIFICATION FairSpec
CONSTANTS
  MaxWorkers = 2
  MaxMiners = 1
  MaxSeed = 4
  MaxClock = 5
  MaxComplexity = 2
  EventLimit = 100
  Env <- Calm
INVARIANT NoSessionRejected
PROPERTY SubmissionEnds
\* the seeds of the model run out
CHECK_DEADLOCK FALSE
