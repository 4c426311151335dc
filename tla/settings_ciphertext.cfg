SPECIFICATION Spec
CONSTANTS
  Keys = {k1}
  Values = {a, b}
  Requests = {q1}
  Null = Null
  MaxHistory = 3
INVARIANT CiphertextOnlyOfSecrets
