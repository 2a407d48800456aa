CONSTANTS
  None = None
  Photos = {p1}
  Uploads = {x1, x2}
  NumParts = 2
  Cycles = {k1}
  Handlers = {h1, h2}
  FaultyKinds = {"create", "status", "part", "complete"}
  MaxFaults = 1
SPECIFICATION FairSpec
PROPERTIES EveryPhotoUploaded
CHECK_DEADLOCK FALSE
