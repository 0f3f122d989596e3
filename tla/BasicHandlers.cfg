SPECIFICATION ScalarSpec
CONSTANTS
  HalfInt = 4
  HalfInt64 = 16
  Threshold = 8
INVARIANTS Exact RangeErrorIsReal
CHECK_DEADLOCK FALSE
