SPECIFICATION FairSpec
CONSTANTS
  s1 = s1
  s2 = s2
  s3 = s3
  p1 = p1
  p2 = p2
  m1 = m1
  m2 = m2
  Requests = {s1, s2, s3}
  Procs = {p1, p2}
  At <- MCAt
  ClientMsg <- MCClientMsg
  Pool = Pool
  NoTx = NoTx
  NoDevice = {s3}
  BadDevice = {s3}
  EmptyJson = TRUE
  Failures = TRUE
  MaxCrashes = 1
INVARIANTS
  AloneIsWhole
  StoredAsAnswered
  HolderRuns
PROPERTIES
  EverySendAnswered
CHECK_DEADLOCK FALSE
