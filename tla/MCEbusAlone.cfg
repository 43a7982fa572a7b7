SPECIFICATION Spec
CONSTANTS
  c1 = c1
  c2 = c2
  c3 = c3
  Calls <- ThreeCalls
  TypeOf <- ThreeTypes
  NoMessage = NoMessage
  LockCounterMax = 2
  UserOps = {"open"}
  Traffic = {"byte", "rival"}
  OpenResults = {TRUE, FALSE}
  SpuriousWakeups = FALSE
INVARIANTS
  OkMeansDelivered
PROPERTIES
  KeepsPromise
