\* A line that makes up or loses at most one byte, after which the two threads may
\* stop for good.
SPECIFICATION FairSpec
CONSTANTS
  MaxFaults = 1
  MaxPending = 1
INVARIANTS TypeOK StateFixed GivesBackOnCleanLine WholeAnswer CleanBetween
PROPERTIES AnswersAll HomingEnds
CHECK_DEADLOCK FALSE
