\* The request log: three records, pages of one, a cache of two pages.
SPECIFICATION Spec
CONSTANTS
  Feeds = {"request"}
  MaxRecords = 3
  MaxRunning = 1
  MaxRows = 3
  MaxRejected = 1
  Limit = 1
  MaxPages = 2
  MaxFailures = 1
  MaxTurns = 3
  Nil = Nil
PROPERTY NextPageOnlyAdds
CHECK_DEADLOCK FALSE
