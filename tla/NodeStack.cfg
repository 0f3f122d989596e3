SPECIFICATION UsedSpec
CONSTANTS
  Values = {a, b}
  Raw = Raw
  NumElementsPerNode = 2
  MaxSize = 7
INVARIANTS LifetimesPaired AssertProtects TopIsLast
PROPERTY ImplementsLifo
