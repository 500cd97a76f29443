SPECIFICATION FairSpec
CONSTANTS
  Uploads = {1, 2}
  Files = {"photo", "note"}
  ChatFiles = {"photo"}
  FileOf <- TwoFiles
  Segs <- TwoSegments
  BodyCodes = {0, 5}
  BareCodes = {1}
  MaxInFlight = 2
INVARIANTS TypeOK ReportTruthful OutcomeOnce StopAndWait IInv NeverHangs
PROPERTIES ClearSparesLive ImplementsTransfer EventuallyEnds
CHECK_DEADLOCK FALSE
