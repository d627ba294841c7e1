SPECIFICATION Spec
CONSTANTS
  Attr <- MCAttr
  Value <- MCKeyValue
  KeyValue <- MCKeyValue
  Index <- MCIndex
  NoRange = NoRange
  NoCond = NoCond
  Err = Err
  NoIndex = NoIndex
  EvalCondition <- MCEvalCondition
  EvalUpdate <- MCEvalUpdate
  TableSchema <- MCSchema
  KeyType <- MCKeyType
  Tables <- MCTables
  Calls <- MCCalls
  Puts <- MCPuts
  Decodes <- MCDecodes
  MaxChanges = 0
  MaxTaken = 4
INVARIANT
  IterLimitKept
CHECK_DEADLOCK FALSE
