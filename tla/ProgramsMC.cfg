SPECIFICATION Spec
CONSTANTS
  Absent = Absent
  NoTree = NoTree
  Nullopt = Nullopt
  IndexSpace = 8
  Element = {1, 2}
  Literal = {1, 2, 3}
  Hashed = {1, 2}
  MaxNodes = 4
  MaxHeight = 3
  MaxNat = 4
  MaxLength = 5
  MinSize = 3
  Take <- TakeFrom
  Make <- MakeOf
  NextCalls <- ScriptedCalls
INVARIANTS
  ReadingOrder
  RoundTrip
  EmbeddedMeasures
  Annotated
  BalancedBuild
  AllOrNothing
  Evaluation
  ShapeAndDepth
  LeftFolds
  CommonSubexpressions
CHECK_DEADLOCK FALSE
