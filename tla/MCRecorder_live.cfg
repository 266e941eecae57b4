CONSTANTS
  Callers = {ui, web}
  Recs = {r1}
  None = None
  ClockActs = FALSE
  CallbackPosts = TRUE
  RecordEndCalls = FALSE
SPECIFICATION FairSpec
INVARIANTS
  SignalReachesManager
PROPERTIES
  HandledOnceWoken
