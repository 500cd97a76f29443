SPECIFICATION FairSpec
CONSTANTS
  Msgs = {"list", "text", "log", "notice"}
  Ids = {1, 2}
  Id <- SharedId
  Parts <- PartCount
  MaxLosses = 4
INVARIANTS TypeOK KeptIsPrefix
PROPERTIES ImplementsInbox EveryMessageArrives
CHECK_DEADLOCK FALSE
