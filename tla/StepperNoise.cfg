\* One byte the motors did not send.
SPECIFICATION Spec
CONSTANTS
  MaxFaults = 1
  MaxPending = 4
INVARIANTS GivesBack
