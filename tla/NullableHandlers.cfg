SPECIFICATION TypesSpec
CONSTANTS
  MaxDepth = 5
  MaxCount = 3
INVARIANTS HandlerExists NullIsNull
PROPERTIES OptionalIsNullable KeepsErrorProtocol
CHECK_DEADLOCK FALSE
