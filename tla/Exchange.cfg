SPECIFICATION ExchangeSpec
CONSTANTS
  m1 = m1
  x1 = x1
  x2 = x2
  x3 = x3
  e1 = e1
  e2 = e2
  Ids = {1, 2}
  Born = {2}
  Mutations = {m1}
  Requests = {x1, x2}
  None = None
  Limit = 1
  MaxNow = 3
  MaxUpsets = 2
  Emails = {e1, e2}
  NoEmail = NoEmail
  Files <- MCFiles
  ChunkRows = 2
  Calls = {x1, x2, x3}
  MaxBreaks = 1
SYMMETRY Symmetric
INVARIANTS ExchangeTypes FeedComplete MutationsSound RollbackExact ImportSound
PROPERTIES BaseKept
CHECK_DEADLOCK FALSE
