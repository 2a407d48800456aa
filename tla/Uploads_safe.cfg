CONSTANTS
  None = None
  Photos = {p1}
  Uploads = {x1, x2}
  NumParts = 2
  Cycles = {k1, k2}
  Handlers = {h1, h2}
  FaultyKinds = {"create", "status", "part", "complete"}
  MaxFaults = 2
SPECIFICATION Spec
SYMMETRY Symmetry
INVARIANTS TypeOK CompletedIsWhole LedgerIsStored ClientTruth

CHECK_DEADLOCK FALSE
