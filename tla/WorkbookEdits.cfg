SPECIFICATION Spec
CONSTANTS
  j1 = j1
  j2 = j2
  r1 = r1
  r2 = r2
  city = city
  pax = pax
  notes = notes
  a = a
  b = b
  None = None
  NoRef = NoRef
  Jobs = {j1, j2}
  Procs = {p1}
  Refs = {r1, r2}
  Vals = {a, b}
  Blank = Blank
  Fields = {city, pax, notes}
  Editable = {city, pax, notes}
  Sheet <- TwoDays
  MailOn = {}
  Unmailable = {}
  MayOptOut = {}
  ChunkSize = 2
  ProgressEvery = 2
  MailCap = 1
  Rolling = FALSE
  BlindBoots = FALSE
  SlowRuns = FALSE
  MaxDeaths = 1
  MaxCancels = 0
  MaxResends = 0
  MaxEdits = 2
  MaxFaults = 0
PROPERTIES FinishReflectsSheet
CHECK_DEADLOCK FALSE
