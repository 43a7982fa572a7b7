SPECIFICATION FairSpec
CONSTANTS
  c1 = c1
  c2 = c2
  o1 = o1
  Calls <- TwoCalls
  Openers <- OneOpener
  Service = Service
  Owner = Owner
  Ebus = Ebus
  NoMessage = NoMessage
  Nobody = Nobody
  SpuriousWakeups = FALSE
INVARIANTS
  HandoffTypeOK
  NeverStarves
  MessageAlive
  TelegramAlive
PROPERTIES
  NotifiedReturns
  NotifyIsFlag
  HandoffServesInOrder
CHECK_DEADLOCK FALSE
