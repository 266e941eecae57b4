CONSTANTS
  Clients = {scan, epg, teletext}
  FilterCount = 1
  None = None
  DriverFaults = TRUE
  OrderlyClose = TRUE
  HandlerSetsSource = FALSE
SPECIFICATION FairSpec
INVARIANTS
  TypeOK
  HandlesExclusive
  ClosedDeviceIsIdle
PROPERTIES
  CallsReturn
