SPECIFICATION Spec
CONSTANTS
  Events = {e1}
  NoEvent = NoEvent
  Procs = {api1, api2}
  Home <- MCHome
  Ticks = {1}
  SplitTx = {}
  Undecodable = {}
  BatchSize = 1
  MaxRetry = 10
  BusMayFail = FALSE
  DbErrors = FALSE
  MaxCrashes = 0
INVARIANTS
  NoDuplicatePublish
