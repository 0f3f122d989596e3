SPECIFICATION Spec
CONSTANTS
  MaxDepth = 3
  MaxCount = 3
  Members = {x, y, z}
  Required = {x, y}
  Unknown = Unknown
SYMMETRY Symmetry
INVARIANT MalformedHasNoMappingError
CHECK_DEADLOCK FALSE
