SPECIFICATION FairSpec
CONSTANTS
  Boxes = {b1, b2}
  Stations = {s1, s2}
  Locations = {l1}
  Connectors <- OneConnector
  Requests = {q1, q2}
  MaxRows = 2
  MayFail = TRUE
INVARIANTS
  IInv
  OnlyLiveChargers
  StationHasLocation
  OneStationPerBox
PROPERTIES
  BootLinksStation
