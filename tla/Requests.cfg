SPECIFICATION Spec
CONSTANTS
  t1 = t1
  Tables = {t1}
  NoRange = NoRange
  NoCond = NoCond
  Err = Error
  Error = Error
  NoValue = NoValue
  NoParse = NoParse
  BadText = BadText
  Attr <- MCAttr
  Value <- MCKeyValue
  KeyValue <- MCKeyValue
  Index <- MCIndex
  SchemaOf <- MCSchema
  Op = {}
  Request = {}
  MaxTx = 2
  MaxBatchWrite = 2
  MaxBatchGet = 2
  MantissaBits = 2
  EvalCondition <- MemEvalCondition
  EvalUpdate <- MemEvalUpdate
  Starts <- MCStarts
  Items <- MCItems
  Keys <- MCKeys
  Condition <- MCCondition
  ClauseSet <- MCClauses
  Text <- ConditionText
  Values <- ConditionValues
  RawCondition <- Aliased
  RawUpdate <- UpdateText
  RawUpdates <- MCRawUpdates
  MaxCalls = 2
  MaxOptions = 2
INVARIANTS
  TypeOK
  ItemsAreSound
  ConditionsDecide
  ChangesAreMeant
  RefusedChangesNothing
  PackagesAgree
  PlaceholdersResolve
CHECK_DEADLOCK FALSE
