SPECIFICATION Spec
CONSTANTS
  c1 = c1
  k1 = k1
  k2 = k2
  Free = Free
  Callers <- OneCaller
  Closers <- OneCloser
  Procs <- OneAndOne
  Operations <- Queries
  RawQueries <- None
  Batches <- None
  Answer <- AnswerTo
  BatchSize = 2
  DefaultRawBatchSize = 2
  MaxLost = 0
INVARIANT
  QueryAnswerIsWhole
