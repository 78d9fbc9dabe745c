SPECIFICATION MCSpec
CONSTANTS
  Foci = {"lakehouse"}
  MaxGiven = 4
  QueueMax = 3
  Records <- TwoSymbols
  Poison = Poison
  NoNumber = NoNumber
  EpochFloor = 2
  OneDay = 3
  MaxTopic = 2
  MaxNow = 2
  MaxWipes = 1
  Minute = 2
  Streams <- MCStreams
  Home <- MCHome
  Deals <- MCDeals
  TailOptions <- MCTailOptions
  MinMessages = 2
  SmokeSeconds = 3
  Window = 2
  Junk = Junk
  MaxLog = 3
  MaxExpired = 1
  MaxRestarts = 2
  SmallCapture = 2
  ShortCapture = 1
  LargeCapture = 3
  LongCapture = 2
  ReturnsNeeded = 1
  RowsPerInstrument = 2
  Universes <- MCUniverses
  VenueLists <- MCVenueLists
  Batch = 2
  MaxAttempts = 2
  MaxReceived = 2
  QueueSize = 2
INVARIANT NoTradeOverwritten
CHECK_DEADLOCK FALSE
