SPECIFICATION Spec
CONSTANTS
  Msgs = {"text", "photo"}
  Kind <- KindOf
  Peer <- PeerOf
  SizedMedia = {"photo"}
  MaxUploads = 1
  MaxFaults = 2
PROPERTIES CleansMissingFiles
CHECK_DEADLOCK FALSE
