CONSTANTS
  i1 = i1
  i2 = i2
  u1 = u1
  u2 = u2
  o1 = o1
  o2 = o2
  o3 = o3
  o4 = o4
  title = title
  status = status
  ownerId = ownerId
  blank = blank
  newTitle = newTitle
  draft = draft
  submitted = submitted
  approved = approved
  a = a
  b = b
  None = None
  SeedOp = SeedOp
  Title = title
  Status = status
  Submitted = submitted
  Blank = blank
  NewTitle = newTitle
  Names <- MCNames
  Editable <- MCEditable
  Values <- MCValues
  ValidStatus = {draft, submitted, approved}
  Initial <- MCInitial
  Users = {u1}
  Inspections = {i1}
  OpIds = {o1, o2, o3, o4}
  OpOf <- ResolveOps
  Assigned <- OnlyI1
  Conns = {c1, c2}
  Batches <- ResolveBatches
  Keys = {o1, o2, o3, o4}
  Hash <- OneKeyEach
SPECIFICATION Spec
PROPERTIES NoLateSubmit
