SPECIFICATION LiveSpec
CONSTANTS
  Procs = {p1}
  b1 = b1
  b2 = b2
  Books = {b1, b2}
  LeadBooks = {b1}
  None = None
  MaxRetries = 1
  SlowRuns = FALSE
  MaxDay = 2
  MaxDeaths = 0
  MaxThrows = 0
  MaxLost = 0
  MaxPresses = 0
  MaxChanges = 0
PROPERTY PickedUpOnceCopied
CHECK_DEADLOCK FALSE
