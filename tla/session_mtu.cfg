SPECIFICATION FairSpec
CONSTANTS
  Masters = {TRUE, FALSE}
  Aborts = FALSE
  MaxEvents = 2
  Uses <- DeviceUses
  MaxSent = 4
PROPERTIES EveryCallReturns
CHECK_DEADLOCK FALSE
