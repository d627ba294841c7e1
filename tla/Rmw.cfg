SPECIFICATION Spec
CONSTANTS
  a = a
  b = b
  u = u
  n = n
  Callers = {a, b, u, n}
  Locked = {a, b, n}
  MaxRetries <- MCMaxRetries
  MinVersion <- Lowest
  MaxVersion = 1
  FnVersion <- Untouched
  Stale = TRUE
  Absent = Absent
  NoVersion = NoVersion
  Initial <- AnyState
INVARIANTS
  TypeOK
  NoLostUpdate
PROPERTIES
  WritesOnTop
  EveryCallReturns
CHECK_DEADLOCK FALSE
