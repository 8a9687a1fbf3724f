SPECIFICATION MCSpec
CONSTANTS
  Classes = {"Box"}
  Register = {r1, r2}
  Value = {a, b}
  Addr = {m1, m2, m3, m4}
  Block = {n1, n2, n3, n4, n5, n6}
  BinaryBlock = {n1, n2, n3}
  Null = Null
  AliasedAssign = FALSE
  SelfMove = FALSE
  ThrowingAssign = TRUE
SYMMETRY Interchangeable
INVARIANT
  Owned
