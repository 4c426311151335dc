SPECIFICATION Spec
CONSTANTS
  Ids = {1}
  None = None
  MaxCalls = 2
  MaxTyped = 1
CHECK_DEADLOCK FALSE
INVARIANTS
  IInv
  ListsShowConfirmedChanges
  DraftConfirmedOnce
PROPERTY
  RunDetailSettles
