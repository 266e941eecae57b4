CONSTANTS
  Callers = {ui, web}
  Modes = {"video", "audio", "jpeg", "ts", "file"}
  Bufs = {"b1"}
  MaxLeft = 1
  User = "user"
  Faults = {"open", "start", "thread", "reopen"}
  Mon = mon
  Vout = vout
  None = None
SPECIFICATION FairSpec
INVARIANTS
  MappingsSafe
  ResourcesMatchMode
PROPERTIES
  CallsReturn
CHECK_DEADLOCK FALSE
