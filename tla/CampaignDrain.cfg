SPECIFICATION PeopleSpec
CONSTANTS
  c1 = c1
  c2 = c2
  k1 = k1
  k2 = k2
  a1 = a1
  a2 = a2
  p1 = p1
  e1 = e1
  Campaigns = {c1, c2}
  First = c1
  Contacts = {k1, k2}
  Requests = {a1, a2}
  None = None
  BatchSize = 2
  Limit = 2
  MaxAttempts = 2
  LastStep = 1
  SlowBatches = FALSE
  MaxUpsets = 2
  People = {p1}
  Walks = {a1, a2}
  Edits = {e1}
  NoBookmark = NoBookmark
  MaxSaid = 4
  MaxJolts = 1
SYMMETRY Symmetric
PROPERTIES SettledStays EditSeen
INVARIANTS PeopleTypes MailedOnce StopsWithinBatch AllowanceKept CompletedIsSettled ChasedWereWrittenTo ContactSound
CHECK_DEADLOCK FALSE
