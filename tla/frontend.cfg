SPECIFICATION Spec
CONSTANTS
  Tabs = {t1}
  Slots = {k1, k2}
  MaxTokens = 3
  MaxReloads = 2
INVARIANTS
  IInv
  OneRefreshPerPage
  NoReplay
  StoredIsUsable
PROPERTIES
  CallsReturn
  LoadingEnds
