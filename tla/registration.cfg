SPECIFICATION Spec
CONSTANTS
  Requests = {r1}
  Nobody = Nobody
  MaxCreations = 2
  SeededCount = 3
  MessageCount = 5
  PageSize = 2
  UsedServices = {"accounts"}
INVARIANT RegistrationSucceeds
CHECK_DEADLOCK FALSE
