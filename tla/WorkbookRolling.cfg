SPECIFICATION Spec
CONSTANTS
  j1 = j1
  j2 = j2
  r1 = r1
  r2 = r2
  city = city
  pax = pax
  notes = notes
  a = a
  b = b
  None = None
  NoRef = NoRef
  Jobs = {j1}
  Procs = {p1, p2}
  Refs = {r1, r2}
  Vals = {a, b}
  Blank = Blank
  Fields = {city}
  Editable = {}
  Sheet <- OneDay
  MailOn = {j1}
  Unmailable = {}
  MayOptOut = {}
  ChunkSize = 1
  ProgressEvery = 2
  MailCap = 2
  Rolling = TRUE
  BlindBoots = FALSE
  SlowRuns = TRUE
  MaxDeaths = 1
  MaxCancels = 0
  MaxResends = 0
  MaxEdits = 0
  MaxFaults = 0
INVARIANTS OneRunner CursorSound
PROPERTIES TerminalIsFinal
SYMMETRY Symmetry
CHECK_DEADLOCK FALSE
