SPECIFICATION FairSpec
CONSTANTS
  Msgs = {"text", "file"}
  Kind <- KindOf
  Peer <- PeerOf
  SizedMedia = {}
  MaxUploads = 2
  MaxFaults = 2
PROPERTIES FailedIsRetried TextSettles
CHECK_DEADLOCK FALSE
