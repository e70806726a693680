\* Two senders and a queue of one place, which may stay full.
SPECIFICATION FairSpec
CONSTANTS
  m1 = m1
  m2 = m2
  Msgs <- TwoMsgs
  Second = 2
  Lifetime = 6
  Interval = 2
  MaxRetries = 3
  QueueSize = 1
  Late = FALSE
  MaxStart = 3
  MaxClock = 10
INVARIANTS
  QueuedAtMostOnce
  OverflowIsFinal
  ResentInTime
PROPERTIES
  SendEnds
\* every message is sent and done in the end
CHECK_DEADLOCK FALSE
