SPECIFICATION FairSpec
CONSTANTS
  Files = {film, song}
  Accounts = {home, work}
  MaxDownloads = 2
  MaxChanges = 1
INVARIANTS TypeOK OneRowEach RunningIsBacked
PROPERTIES DeletedStaysDeleted RowsSettle
CHECK_DEADLOCK FALSE
