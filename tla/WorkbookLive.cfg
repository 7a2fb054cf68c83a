SPECIFICATION LiveSpec
CONSTANTS
  j1 = j1
  j2 = j2
  r1 = r1
  r2 = r2
  city = city
  pax = pax
  notes = notes
  a = a
  b = b
  None = None
  NoRef = NoRef
  Jobs = {j1}
  Procs = {p1}
  Refs = {r1, r2}
  Vals = {a, b}
  Blank = Blank
  Fields = {city}
  Editable = {}
  Sheet <- OneDay
  MailOn = {j1}
  Unmailable = {r2}
  MayOptOut = {}
  ChunkSize = 1
  ProgressEvery = 1
  MailCap = 2
  Rolling = FALSE
  BlindBoots = TRUE
  SlowRuns = FALSE
  MaxDeaths = 2
  MaxCancels = 1
  MaxResends = 1
  MaxEdits = 0
  MaxFaults = 1
PROPERTIES EveryRunEnds
CHECK_DEADLOCK FALSE
