SPECIFICATION Spec
CONSTANTS
  Routers = {"home", "work"}
  First = "home"
  MaxChoices = 2
  MaxFaults = 2
  MaxPending = 2
  PushInSwitch = FALSE
PROPERTIES TimersEndSwitchesOnly
CHECK_DEADLOCK FALSE
