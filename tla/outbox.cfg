SPECIFICATION FairSpec
CONSTANTS
  Events = {e1, e2, e3}
  NoEvent = NoEvent
  Procs = {api}
  Api = api
  Home <- AllAtApi
  Ticks = {1}
  SplitTx = {e3}
  Undecodable = {e2}
  BatchSize = 2
  MaxRetry = 2
  BusMayFail = TRUE
  DbErrors = TRUE
  MaxCrashes = 1
INVARIANTS
  TypeOK
  AtMostOncePerProcess
  PublishedOnlyCommitted
  CompletedWasPublished
  BusOutlivesWorker
  CausalOrder
  OrphanHasCause
PROPERTIES
  SettledIsFinal
  LedgerSpec
  NoEventStarves
