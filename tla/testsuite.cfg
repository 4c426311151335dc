SPECIFICATION FairSpec
CONSTANTS
  cp1 = cp1
  Runs = {r1}
  NumSteps = 4
  Kind <- MCKind
  Action <- MCAction
  Station <- MCStation
  Legacy = {}
  Provided <- MCProvided
  Handlers = {h1, h2}
  Secrets = {s1}
  NoSecret = NoSecret
  MaxMessages = 1
INVARIANTS
  IInv
  PassHasEvidence
  StepsInOrder
  CommandsInOrder
PROPERTIES
  SettledIsFinal
  ImplementsPipeline
  RunEnds
