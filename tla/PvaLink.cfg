SPECIFICATION Spec
CONSTANTS
  Text <- MCText
  Type <- MCType
  LinkOrder <- MCOrder
  WriteSeq <- MCWriteSeq
  AtStart <- MCAtStart
  Passive <- MCPassive
  Async <- MCAsync
  Severity <- MCSeverity
  Budgets <- MCBudgets
INVARIANTS
  AtomicTogether
  DeferredTogether
PROPERTIES
  Settled
CHECK_DEADLOCK FALSE
