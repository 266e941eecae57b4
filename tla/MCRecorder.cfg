CONSTANTS
  Callers = {ui}
  Recs = {r1, r2}
  None = None
  ClockActs = TRUE
  CallbackPosts = TRUE
  RecordEndCalls = TRUE
SYMMETRY MCSymmetry
SPECIFICATION Spec
INVARIANTS
  GoneIsIdle
PROPERTIES
  RecordThreadsJoined
  CompletesOwnRow
CHECK_DEADLOCK FALSE
