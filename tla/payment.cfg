SPECIFICATION Spec
CONSTANTS
  Requests = {q1, q2}
  Urls = {u1, u2}
  Prefixes = {p1}
  Tables = {"locations"}
  Watched = {"location_id", "address"}
  Ids = {1}
  Values = {a}
  Null = Null
  Unset = Unset
  Empty = Empty
  PoolSize = 1
  MaxChanges = 2
INVARIANTS
  IInv
  OpenPoolIsCached
PROPERTIES
  ImplementsTables
  OmittedColumnsStay
  RequestsEnd
CHECK_DEADLOCK FALSE
