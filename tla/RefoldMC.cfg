SPECIFICATION Spec
CONSTANTS
  MaxHeight = 3
  MaxSlots = 2
  Absent = Absent
  Seed <- Trees
  Value <- Values
  Result <- Results
  Coalgebra <- Unwrap
  Algebra <- Hash
  Meaning <- HashMeaning
  Agenda <- CallsLeft
INVARIANTS
  TypeOK
  StackConsistent
  EvaluationOrder
PROPERTIES
  ImplementsVerb
  Termination
CHECK_DEADLOCK FALSE
