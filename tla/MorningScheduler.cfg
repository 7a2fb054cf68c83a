SPECIFICATION LiveSpec
CONSTRAINT UntilStolen
CONSTANTS
  Procs = {p1}
  b1 = b1
  b2 = b2
  Books = {b1, b2}
  LeadBooks = {b1}
  None = None
  MaxRetries = 1
  SlowRuns = TRUE
  MaxDay = 2
  MaxDeaths = 1
  MaxThrows = 1
  MaxLost = 1
  MaxPresses = 1
  MaxChanges = 1
PROPERTIES DueDayIsSettled
INVARIANTS TypeOK OneRunAtATime QueuedOnce RetryIsReal DecidedOnce
CHECK_DEADLOCK FALSE
