SPECIFICATION Spec
CONSTANTS
  Size = 10
  MaxFaults = 2
  Enough = 3
INVARIANTS
  InStep
  Genuine
