SPECIFICATION Spec
CONSTANTS
  MaxDepth = 4
  MaxCount = 3
  Keys = {k1, k2}
  NoKey = NoKey
SYMMETRY Symmetry
INVARIANTS StackMirrorsText ElementIsolated MapExact TraceContinues DuplicateIsReal
CHECK_DEADLOCK FALSE
