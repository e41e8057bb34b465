SPECIFICATION LibrarySpec
CONSTANTS
  MinLen = 2
  Junk = junk
  s1 = s1
  s2 = s2
  User <- TwoStates
  Finish = finish
  None = none
  MaxStates = 3
  MaxAdds = 3
  MaxRestarts = 1
  Elements = {1, 2}
  MaxLen = 6
SYMMETRY Swap
INVARIANTS
  EntryExit
  ListMatches
PROPERTY StaysInside
CHECK_DEADLOCK FALSE
