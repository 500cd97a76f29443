SPECIFICATION Spec
CONSTANTS
  Users = {ann, bob}
  MaxChoices = 4
  MaxLosses = 1
PROPERTIES ConsentIsTheUsers
CHECK_DEADLOCK FALSE
