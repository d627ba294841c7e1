SPECIFICATION BothSpec
CONSTANTS
  k = k
  l = l
  m = m
  Requests <- FiveWrites
  ChunkSize = 2
  MaxRetries = 1
  Asked <- Concurrencies
  NoWrite = NoWrite
  Wanted <- ThreeKeys
  GetSize = 2
INVARIANTS
  TypeOK
  NilMeansWritten
  LastWriteStays
  ProgressIsTrue
  GetIsTrue
PROPERTIES
  QuietAfterReturn
  CallReturns
  GetReturns
CHECK_DEADLOCK FALSE
