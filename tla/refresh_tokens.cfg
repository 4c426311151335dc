SPECIFICATION Spec
CONSTANTS
  Users = {u1, u2}
  MaxTokens = 3
  Requests = {q1, q2}
SYMMETRY SessionSymmetry
INVARIANTS
  IInv
PROPERTIES
  SpentIsFinal
  DeactivatedGetsNoSession
