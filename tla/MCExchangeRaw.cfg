SPECIFICATION Spec
CONSTANTS
  Address = 16
  Addressed = 3
  Messages <- RawMessages
  Responses <- GoodResponses
  NoiseBytes <- NoiseOn
  MaxNoise = 0
INVARIANTS
  AcceptedIsSent
