SPECIFICATION Spec
CONSTANTS
  ConnLimit = 2
  Keep = 5
  Limit = 2
  Seconds = 2
  MaxClock = 8
INVARIANTS
  CountersHold
PROPERTIES
  ExactSpec
