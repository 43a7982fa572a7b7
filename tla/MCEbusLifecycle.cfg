SPECIFICATION FairSpec
CONSTANTS
  c1 = c1
  c2 = c2
  c3 = c3
  Calls <- OneCall
  TypeOf <- OneType
  NoMessage = NoMessage
  LockCounterMax = 1
  UserOps = {"open", "close", "destroy"}
  Traffic = {"byte", "addressed", "rival"}
  OpenResults = {TRUE, FALSE}
  SpuriousWakeups = FALSE
PROPERTIES
  CloseTakesEffect
  DestructorReturns
  StaysClosed
CHECK_DEADLOCK FALSE
