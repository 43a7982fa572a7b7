SPECIFICATION Spec
CONSTANTS
  c1 = c1
  c2 = c2
  c3 = c3
  Calls <- TwoCalls
  TypeOf <- TwoTypes
  NoMessage = NoMessage
  LockCounterMax = 3
  UserOps = {"open", "close", "destroy"}
  Traffic = {"byte", "addressed", "rival"}
  OpenResults = {TRUE, FALSE}
  SpuriousWakeups = FALSE
INVARIANTS
  TypeOK
  IInv
  NoNullDereference
  CallAccounting
  NoResend
  LockDiscipline
  IOOnOpenDevice
  DeliveryReported
PROPERTIES
  AbandonedOnlyBy
  OfflineOnlyByFlush
  ServesInOrder
CHECK_DEADLOCK FALSE
