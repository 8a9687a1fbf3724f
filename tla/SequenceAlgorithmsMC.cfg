SPECIFICATION Spec
CONSTANTS
  Value = {a, b}
  MaxNodes = 5
  MaxWalkNodes = 7
  MaxLength = 4
  Inputs <- SmallInputs
  WalkInputs <- SmallWalkInputs
INVARIANTS
  Quotient
  InStep
  WalkReads
PROPERTY
  Returns
CHECK_DEADLOCK FALSE
