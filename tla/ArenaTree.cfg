SPECIFICATION Spec
CONSTANTS
  Register = {r1, r2}
  Value = {a, b}
  IndexSpace = 5
  MaxNodes = 4
  NoTree = NoTree
INVARIANTS
  TypeOK
  WellFormed
  Represents
