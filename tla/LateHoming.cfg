\* The arm may reach its home position while an action drives the chassis.
SPECIFICATION Spec
CONSTANTS
  Letters = {"r"}
  MaxPolls = 1
  HomesDuring = {"CAB", "LINE", "ACTION"}
INVARIANTS ActionOwnsChassis
