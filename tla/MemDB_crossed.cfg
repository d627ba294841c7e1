SPECIFICATION Spec
CONSTANTS
  t1 = t1
  t2 = t2
  c1 = c1
  c2 = c2
  c3 = c3
  c4 = c4
  Tables = {t1, t2}
  Clients = {c1, c2, c3, c4}
  NoClient = NoClient
  NoReq = NoReq
  NoRange = NoRange
  NoCond = NoCond
  Err = Err
  Attr <- MCAttr
  Value <- MCValue
  KeyValue <- MCKeyValue
  Index <- NoGSI
  SchemaOf <- MCSchema
  Op <- MCOp
  Request <- CrossedReads
  MaxTx = 3
  MaxBatchWrite = 3
  MaxBatchGet = 3
  EvalCondition <- MCEvalCondition
  EvalUpdate <- MCEvalUpdate
INVARIANTS
  DeadlocksAreCrossed
SYMMETRY AnyClient
CHECK_DEADLOCK FALSE
