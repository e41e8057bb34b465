\* Nine rounds; the arm is homed before or between actions, movements may stall.
SPECIFICATION FairSpec
CONSTANTS
  Letters = {"r", "y", "b"}
  MaxPolls = 1
  HomesDuring = {"CAB", "LINE"}
INVARIANTS
  TypeOK PathInBounds CargoHeld LoadedMeansPut HomeAfterNine BinHasReport
  BackOnLine ActionOwnsChassis OnePublisher StandsAtEnd
PROPERTIES ColourLatchedOnce MissionEnds
