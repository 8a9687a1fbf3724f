SPECIFICATION Spec
CONSTANT
  Key = {1, 2, 3, 4, 5}
INVARIANT
  Ordered
PROPERTIES
  ImplementsKeySet
  SameSetSameTree
  HeightsAreLocal
  Terminates
