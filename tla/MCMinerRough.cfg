\* Every failure, restarts and calls in one turn, at constant complexity.
SPECIFICATION Spec
CONSTANTS
  MaxWorkers = 2
  MaxMiners = 2
  MaxSeed = 3
  MaxClock = 2
  MaxComplexity = 1
  EventLimit = 4
  Env <- Rough
INVARIANTS
  OneSubmission
  SeedsHeldOnce
  MissedEventsShareASecond
\* the seeds of the model run out
CHECK_DEADLOCK FALSE
