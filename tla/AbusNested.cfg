\* rbmg_handle publishes while follow_line does.
SPECIFICATION Spec
CONSTANTS
  Messages = {speed, goto1}
  None = None
  Cap = 2
  Word = 4
  Preempts = TRUE
INVARIANTS Drained
