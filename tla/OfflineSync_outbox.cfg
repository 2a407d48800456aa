CONSTANTS
  i1 = i1
  i2 = i2
  u1 = u1
  u2 = u2
  d1 = d1
  d2 = d2
  k1 = k1
  k2 = k2
  title = title
  status = status
  blank = blank
  newTitle = newTitle
  otherTitle = otherTitle
  draft = draft
  submitted = submitted
  approved = approved
  rejected = rejected
  null = null
  None = None
  Null = null
  SeedOp = SeedOp
  Title = title
  Status = status
  Submitted = submitted
  Blank = blank
  NewTitle = newTitle
  Names <- MCEditable
  Editable <- MCEditable
  Values <- MCValues
  ValidStatus = {draft, submitted, approved, rejected}
  Initial <- MCInitial
  Users = {u1, u2}
  Inspections = {i2}
  OpIds = {1, 2, 4, 5}
  OpOf <- CardOps
  Home <- CardHome
  Assigned <- OnlyI2
  Devices = {d1}
  Cycles = {k1, k2}
  Handlers = {1, 2}
  On <- BothOnD1
  LoggedIn <- Everyone
  Incidents = {"network", "reload", "error", "discard", "logout", "backdate"}
  Limit <- TwoOps

SPECIFICATION Spec

INVARIANTS
  TypeOK
  SavedIsLedgered
  AppliedIsShown

PROPERTIES
  KeptUntilDecided
