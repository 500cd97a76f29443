SPECIFICATION FairSpec
CONSTANTS
  Routers = {"home", "work"}
  First = "home"
  MaxChoices = 2
  MaxFaults = 2
  MaxPending = 2
  PushInSwitch = FALSE
INVARIANTS TypeOK NeverStranded SessionOnItsRouter SwitchUnderWay
PROPERTIES Reconnects SwitchEnds
CHECK_DEADLOCK FALSE
