SPECIFICATION Spec
CONSTANTS
  Keys = {k1}
  Values = {a, b}
  Requests = {q1, q2, q3}
  Null = Null
  MaxHistory = 3
SYMMETRY RequestSymmetry
INVARIANTS
  IInv
  SecretsAreSealed
  HistoryIsGenuine
  SerialHistory
PROPERTIES
  RollbackRestores
