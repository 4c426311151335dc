SPECIFICATION Spec
CONSTANTS
  Tabs = {t1, t2}
  Slots = {k1}
  MaxTokens = 2
  MaxReloads = 0
INVARIANT AwaitsInFlight
