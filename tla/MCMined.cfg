SPECIFICATION Spec
CONSTANTS
  Duration = 2
  BlockMs = 1
  HashBits = 3
  TimeBits = 5
  HashNum <- SmallHash
  Seeds = {1, 2}
  Complexities <- Pairs
  MaxClock = 3
  MaxBacks = 1
  MaxLeaves <- SmallTrees
INVARIANTS HonestSessionVerifies BlocksWithinDuration
CHECK_DEADLOCK FALSE
