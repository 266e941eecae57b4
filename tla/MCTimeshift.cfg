CONSTANTS
  FirstSize = 4
  RingSize = 3
  Chunk = 2
  BufSize = 2
  MaxFills = 3
  MaxCmds = 2
  Loops = {TRUE, FALSE}
  Faults = {"start", "disk"}
  None = None
SPECIFICATION FairSpec
INVARIANTS
  TypeOK
  RingConsistent
  InStep
PROPERTIES
  PauseTaken
  StopReturns
CHECK_DEADLOCK FALSE
