SPECIFICATION Spec
CONSTANTS
  Msgs = {"text", "file", "groupFile"}
  Kind <- KindOf
  Peer <- PeerOf
  SizedMedia = {}
  MaxUploads = 2
  MaxFaults = 2
INVARIANTS TypeOK NeverLost
PROPERTIES OnlyCrashStrands
CHECK_DEADLOCK FALSE
