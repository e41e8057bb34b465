\* Publications do not overlap.
SPECIFICATION FairSpec
CONSTANTS
  Messages = {speed, goto1, goto2}
  None = None
  Cap = 2
  Word = 4
  Preempts = FALSE
INVARIANTS TypeOK Drained
PROPERTIES PublishEnds ImplementsAtomic
