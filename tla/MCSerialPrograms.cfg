\* One program in each behaviour; the first nine constants are for the replay server.
CONSTANTS
  Crc <- MCCrc
  Requests <- Orderly
  Frames = 2
  Loop = TRUE
  Noise = {}
  MaxAttempts = 2
  LineSize = 9
  MaxServed = 5
  MaxFaults = 0
  EcuOthers <- EcuAsked
  LongLine = 20
  ExampleRequests <- ExampleAsked
  MaxReplies = 3
SPECIFICATION AnySpec
INVARIANTS
  TypesOK
  AllAnsweredInOrder
  LossIsBounded
  OnlyOutpcIsKept
PROPERTIES
  AnswersAgain
  StaleByFaults
CHECK_DEADLOCK FALSE
