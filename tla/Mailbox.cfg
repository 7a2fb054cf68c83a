SPECIFICATION MailSpec
CONSTANTS
  m1 = m1
  m2 = m2
  m3 = m3
  l1 = l1
  l2 = l2
  r1 = r1
  r2 = r2
  u1 = u1
  u2 = u2
  Msgs = {m1, m2, m3}
  Syncs = {r1, r2}
  NoToken = NoToken
  PageSize = 1
  MaxPages = 2
  MaxChanges = 3
  MaxMishaps = 1
  Letters = {m1, m2}
  Leads = {l1, l2}
  Runs = {r1, r2}
  None = None
  Shapes <- MCShapes
  BatchSize = 2
  MaxUpsets = 2
  Boxes = {m1, m2}
  Users = {u1, u2}
  Owner <- MCOwner
  NoBox = NoBox
  Calls = {r1, r2}
  MaxFailures = 1
  MaxCalls = 2
  MaxBreaks = 1
SYMMETRY Symmetric
INVARIANTS MailTypes FolderSound ReplyReaches CountSound LinkedTogether SenderKept CredentialsEnd
CHECK_DEADLOCK FALSE
