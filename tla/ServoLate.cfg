SPECIFICATION Spec
CONSTANTS
  Requests <- Asking
  Late = TRUE
  Overlap = FALSE
  MaxFaults = 0
  MaxStray = 0
  Mixed = FALSE
  MaxPending = 7
  Slots = 5
  MaxSem = 2
  WaitMax = 2
INVARIANT Matched
