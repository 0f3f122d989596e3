SPECIFICATION StackSpec
CONSTANTS
  Values = {a, b}
  Raw = Raw
  NumElementsPerNode = 2
  MaxSize = 7
INVARIANT AssertProtects
