SPECIFICATION Spec
CONSTANTS
  Calls = {c1}
  Stations = {cp1}
  Secrets = {s1}
  Unset = Unset
  MaxChanges = 0
PROPERTY RetriedOnlyBeforeResponse
