SPECIFICATION Spec
CONSTANTS
  MaxDepth = 3
  MaxCount = 3
  MaxText = 7
  MaxHeld = 3
INVARIANTS DocumentIsText NeverCorrupted EmptyBetweenValues
CHECK_DEADLOCK FALSE
