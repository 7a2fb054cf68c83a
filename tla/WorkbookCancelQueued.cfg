SPECIFICATION Spec
CONSTANTS
  j1 = j1
  j2 = j2
  r1 = r1
  r2 = r2
  city = city
  pax = pax
  notes = notes
  a = a
  b = b
  None = None
  NoRef = NoRef
  Jobs = {j1}
  Procs = {p1}
  Refs = {r1, r2}
  Vals = {a, b}
  Blank = Blank
  Fields = {city}
  Editable = {}
  Sheet <- OneDay
  MailOn = {j1}
  Unmailable = {}
  MayOptOut = {}
  ChunkSize = 1
  ProgressEvery = 1
  MailCap = 2
  Rolling = FALSE
  BlindBoots = FALSE
  SlowRuns = FALSE
  MaxDeaths = 1
  MaxCancels = 1
  MaxResends = 0
  MaxEdits = 0
  MaxFaults = 0
INVARIANT NothingImported
CHECK_DEADLOCK FALSE
