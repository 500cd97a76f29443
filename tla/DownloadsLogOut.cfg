SPECIFICATION Spec
CONSTANTS
  Files = {film, song}
  Accounts = {home, work}
  MaxDownloads = 2
  MaxChanges = 2
INVARIANTS LogOutStopsDownloads
CHECK_DEADLOCK FALSE
