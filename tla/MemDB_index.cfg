SPECIFICATION Spec
CONSTANTS
  t1 = t1
  c1 = c1
  c2 = c2
  Tables = {t1}
  Clients = {c1}
  NoClient = NoClient
  NoReq = NoReq
  NoRange = NoRange
  NoCond = NoCond
  Err = Err
  Attr <- MCAttr
  Value <- MCValue
  KeyValue <- MCKeyValue
  Index <- Covering
  SchemaOf <- MCSchema
  Op <- MCOp
  Request <- IndexRequests
  MaxTx = 2
  MaxBatchWrite = 2
  MaxBatchGet = 2
  EvalCondition <- MCEvalCondition
  EvalUpdate <- MCEvalUpdate
INVARIANTS
  GSIAgrees
