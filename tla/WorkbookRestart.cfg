SPECIFICATION Spec
CONSTANTS
  j1 = j1
  j2 = j2
  r1 = r1
  r2 = r2
  city = city
  pax = pax
  notes = notes
  a = a
  b = b
  None = None
  NoRef = NoRef
  Jobs = {j1, j2}
  Procs = {p1}
  Refs = {r1, r2}
  Vals = {a, b}
  Blank = Blank
  Fields = {city}
  Editable = {}
  Sheet <- TwoDays
  MailOn = {j1, j2}
  Unmailable = {}
  MayOptOut = {r2}
  ChunkSize = 2
  ProgressEvery = 2
  MailCap = 1
  Rolling = FALSE
  BlindBoots = FALSE
  SlowRuns = FALSE
  MaxDeaths = 1
  MaxCancels = 1
  MaxResends = 0
  MaxEdits = 0
  MaxFaults = 0
INVARIANTS TypeOK CursorSound IntroducedOnce NothingOwed CancelStops FileKept
PROPERTIES ContractSpec
CHECK_DEADLOCK FALSE
