SPECIFICATION Spec
CONSTANTS
  MaxDepth = 4
  MaxCount = 3
  N = 2
  MaxPrior = 2
INVARIANTS StackMirrorsText ElementIsolated VectorExact ArrayExact TraceContinues ErrorNamesElement
CHECK_DEADLOCK FALSE
