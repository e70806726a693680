\* Punctual timers; max_rps does not divide a second.
SPECIFICATION Spec
SYMMETRY Symmetry
CONSTANTS
  a = a
  b = b
  c = c
  Callers <- ThreeCallers
  Second = 5
  MaxRps = 2
  MaxAttempts = 3
  Capped = TRUE
  MaxTotal = 3
  BaseDelay = 2
  MaxDelay = 3
  Jitter = TRUE
  Late = FALSE
  MaxClock = 11
  MaxSlots = 5
INVARIANTS
  CallsSpaced
  WaitBounded
  RetriesInBudget
\* the slots of the model run out
CHECK_DEADLOCK FALSE
