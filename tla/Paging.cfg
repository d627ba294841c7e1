SPECIFICATION Spec
CONSTANTS
  Attr <- MCAttr
  Value <- MCKeyValue
  KeyValue <- MCKeyValue
  Index <- MCIndex
  NoRange = NoRange
  NoCond = NoCond
  Err = Err
  NoIndex = NoIndex
  EvalCondition <- MCEvalCondition
  EvalUpdate <- MCEvalUpdate
  TableSchema <- MCSchema
  KeyType <- MCKeyType
  Tables <- MCTables
  Calls <- MCCalls
  Puts <- MCPuts
  Decodes <- MCDecodes
  MaxChanges = 2
  MaxTaken = 4
INVARIANTS
  TypeOK
  InOrder
  NothingSkipped
  LimitKept
PROPERTY
  CallReturns
CHECK_DEADLOCK FALSE
