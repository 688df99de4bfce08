SPECIFICATION Spec
CONSTANTS
  Requests = {r1, r2, r3}
  Nobody = Nobody
  MaxCreations = 2
  SeededCount = 3
  MessageCount = 5
  PageSize = 2
  UsedServices = {"accounts", "profiles", "calls", "metrics", "receipts", "creation", "conversations",
                  "messages", "hanging", "keys", "uploads", "broadcasts", "setup"}
INVARIANTS
  TypeOK
  RevivedOnlyByOverlap
  MismatchMeansReuse
  ResetClosesSessions
  ProfilesHold
  DurationMatchesTimes
  EndAnnounced
  StateEndsWithCall
  MarksHold
  CreatedAsOne
  ChangeLostOnlyToCreation
  ConversationsHold
  MessagesHold
  KeysHold
  CompletionIsKept
  BulkAddsAsOne
  SchemaComplete
  SeedWhole
SYMMETRY Symmetry
CHECK_DEADLOCK FALSE
