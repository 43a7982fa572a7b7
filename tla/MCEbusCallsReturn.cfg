SPECIFICATION FairSpec
CONSTANTS
  c1 = c1
  c2 = c2
  c3 = c3
  Calls <- TwoCalls
  TypeOf <- TwoTypes
  NoMessage = NoMessage
  LockCounterMax = 1
  UserOps = {"open"}
  Traffic = {"byte", "addressed", "rival"}
  OpenResults = {TRUE, FALSE}
  SpuriousWakeups = FALSE
PROPERTIES
  CallsReturn
CHECK_DEADLOCK FALSE
