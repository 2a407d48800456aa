CONSTANTS
  None = None
  Photos = {p1}
  Uploads = {x1, x2}
  NumParts = 2
  Cycles = {k1, k2}
  Handlers = {h1, h2}
  FaultyKinds = {}
  MaxFaults = 0
SPECIFICATION Spec
PROPERTIES CompletedForGood
CHECK_DEADLOCK FALSE
