SPECIFICATION Spec
CONSTANTS
  Register = {r1, r2}
  Value = {a, b}
  Fits <- SmallTree
  MaxLength = 3
  MaxNodes = 5
INVARIANT
  Represents
PROPERTIES
  ImplementsDeque
  ViewReturns
  StaysCompact
