SPECIFICATION Spec
CONSTANTS
  Register = {r1, r2}
  Value = {a, b}
  IndexSpace = 8
  MaxNodes = 3
  NoTree = NoTree
INVARIANTS
  EmptyMeansNoNodes
