\* One list of two pages in every order, while an entry appears or disappears.
SPECIFICATION FairSpec
CONSTANTS
  Entries = {recent, edge, undated, old, fresh}
  DateOf <- Dates
  Lists <- Orders
  Fresh = {fresh}
  Cutoff = 2
  PageSize = 2
  RETRY_TIMES = 1
  NoValue = NoValue
  recent = recent
  edge = edge
  undated = undated
  old = old
  fresh = fresh
CHECK_DEADLOCK FALSE
INVARIANTS
  TypeOK
  WindowCovered
PROPERTIES
  CrawlEnds
