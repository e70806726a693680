\* Every caller discipline and every fault.
SPECIFICATION Spec
CONSTANTS
  MaxLog = 4
  MaxAccept = 3
  MaxClock = 3
  PayloadTtl = 2
  SessionTtl = 2
  PageLimit = 3
  Policy <- CarelessCallers
  Faults <- AllFaults
INVARIANTS
  TypeOK
  RootsNeverReused
  EqualRootsInterlock
  AcceptedInOrder
  AcceptedWithoutGaps
  ResponseAnswersChallenge
PROPERTIES
  ImplementsSessionTree
\* the log is bounded, so the protocol stops when it is full
CHECK_DEADLOCK FALSE
