SPECIFICATION FairSpec
CONSTANTS
  Users = {ann, bob}
  MaxChoices = 4
  MaxLosses = 1
INVARIANTS TypeOK ListCatchesUp
PROPERTIES RequestsArrive
CHECK_DEADLOCK FALSE
