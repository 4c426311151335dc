SPECIFICATION Spec
CONSTANTS
  Calls = {c1, c2}
  Stations = {cp1}
  Secrets = {s1, s2}
  Unset = Unset
  MaxChanges = 1
INVARIANTS
  IInv
  EnsuredIsHeard
  RepeatedEnsureAddsNone
PROPERTIES
  ImplementsDelivery
  CallsEnd
