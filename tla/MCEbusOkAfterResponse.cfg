SPECIFICATION Spec
CONSTANTS
  c1 = c1
  c2 = c2
  c3 = c3
  Calls <- OneCall
  TypeOf <- OneType
  NoMessage = NoMessage
  LockCounterMax = 1
  UserOps = {}
  Traffic = {"byte", "addressed"}
  OpenResults = {TRUE}
  SpuriousWakeups = FALSE
INVARIANTS
  OkMeansDelivered
CHECK_DEADLOCK FALSE
