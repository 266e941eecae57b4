CONSTANTS
  Clients = {scan, epg}
  FilterCount = 2
  None = None
  DriverFaults = TRUE
  OrderlyClose = FALSE
  HandlerSetsSource = TRUE
SYMMETRY MCSymmetry
SPECIFICATION Spec
INVARIANTS
  Quiescence
PROPERTY ImplementsContract
CHECK_DEADLOCK FALSE
