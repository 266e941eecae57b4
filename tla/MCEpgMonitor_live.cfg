CONSTANTS
  Tables = {"stt", "eit50"}
  FilterIds = {0, 1}
  MaxTunes = 2
  MaxCalls = 1
  Calls = {"mode", "sche", "destroy"}
  Faults = {"decode"}
  None = None
SPECIFICATION FairSpec
INVARIANTS
  FiltersAccounted
PROPERTIES
  QuitServed
  TuneFollowed
CHECK_DEADLOCK FALSE
