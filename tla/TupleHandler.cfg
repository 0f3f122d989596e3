SPECIFICATION Spec
CONSTANTS
  MaxDepth = 4
  MaxCount = 3
  TupleSize = 2
INVARIANTS PrefixMatched ElementIsolated RejectionIsReported
PROPERTY KeepsErrorProtocol
CHECK_DEADLOCK FALSE
