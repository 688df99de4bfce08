SPECIFICATION Spec
CONSTANTS
  s1 = s1
  s2 = s2
  s3 = s3
  p1 = p1
  p2 = p2
  m1 = m1
  m2 = m2
  Requests = {s1, s3}
  Procs = {p1, p2}
  At <- MCAt
  ClientMsg <- MCClientMsg
  Pool = Pool
  NoTx = NoTx
  NoDevice = {}
  BadDevice = {}
  EmptyJson = TRUE
  Failures = FALSE
  MaxCrashes = 0
INVARIANTS
  SentAtomically
CHECK_DEADLOCK FALSE
