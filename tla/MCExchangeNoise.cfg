SPECIFICATION Spec
CONSTANTS
  Address = 16
  Addressed = 3
  Messages <- GoodMessages
  Responses <- GoodResponses
  NoiseBytes <- NoiseOn
  MaxNoise = 3
INVARIANTS
  ExchangeTypeOK
  PublishedIsTrue
  DeliveredIsPublished
  FailsOnlyByNoise
PROPERTIES
  DeliversOnce
