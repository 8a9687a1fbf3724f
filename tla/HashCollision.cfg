SPECIFICATION Spec
CONSTANTS
  Absent = Absent
  NoTree = NoTree
  Nullopt = Nullopt
  IndexSpace = 8
  Element = {1}
  Literal = {1}
  Hashed = {1, 68}
  MaxNodes = 1
  MaxHeight = 3
  MaxNat = 1
  MaxLength = 1
  MinSize = 3
  Take <- TakeFrom
  Make <- MakeOf
  NextCalls <- ScriptedCalls
INVARIANT
  TagsSeparate
CHECK_DEADLOCK FALSE
