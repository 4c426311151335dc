SPECIFICATION Spec
CONSTANTS
  cp1 = cp1
  Runs = {r1}
  NumSteps = 2
  Kind <- CommandsKind
  Action <- CommandsAction
  Station <- MCStation
  Legacy = {}
  Provided <- CommandsProvided
  Handlers = {h1}
  Secrets = {s1}
  NoSecret = NoSecret
  MaxMessages = 1
PROPERTY LateCallbackIgnored
