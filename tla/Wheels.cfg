SPECIFICATION FairSpec
CONSTANTS
  N = 2
  Turn = 4
  MaxMove = 1
  CalFrames = 1
  Cap = 2
  Travel <- OneTurns
  Commands <- SpeedAndPos
  MaxCommands = 1
  MaxFaults = 1
INVARIANTS
  TypeOK
  RoundsExact
  KeepsCommand
PROPERTIES
  ZeroKept
  LastCommandWins
