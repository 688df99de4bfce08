SPECIFICATION FairSpec
CONSTANTS
  Events = {e1}
  NoEvent = NoEvent
  Procs = {api}
  Home <- MCHome
  Ticks = {1}
  SplitTx = {}
  Undecodable = {}
  BatchSize = 1
  MaxRetry = 10
  BusMayFail = FALSE
  DbErrors = FALSE
  MaxCrashes = 1
PROPERTIES
  EventuallySettled
