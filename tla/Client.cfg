SPECIFICATION FairSpec
CONSTANTS
  c1 = c1
  k1 = k1
  k2 = k2
  Free = Free
  Callers <- OneCaller
  Closers <- TwoClosers
  Procs <- OneAndTwo
  Operations <- MixedOperations
  RawQueries <- RawQueryOfThree
  Batches <- SmallBatches
  Answer <- AnswerTo
  BatchSize = 2
  DefaultRawBatchSize = 2
  MaxLost = 1
INVARIANTS
  TypeOK
  ConnectionClosedOnce
  DeliveryIsPrefix
  ListsArriveWhole
  MutationAnswerIsWhole
  ErrorNamesResumePoint
  CloseCutsOff
  CancelStopsBatch
PROPERTIES
  CallsReturn
