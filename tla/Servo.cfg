SPECIFICATION FairSpec
CONSTANTS
  Requests <- Asking
  Late = FALSE
  Overlap = FALSE
  MaxFaults = 1
  MaxStray = 8
  Mixed = FALSE
  MaxPending = 1
  Slots = 5
  MaxSem = 1
  WaitMax = 2
INVARIANTS
  TypeOK
  Matched
  ContentFits
  NoLostWakeup
  OneReader
  MutexGivenBack
PROPERTY CallsReturn
CHECK_DEADLOCK FALSE
