CONSTANTS
  Tables = {"pat", "eit4e"}
  FilterIds = {0, 1}
  MaxTunes = 1
  MaxCalls = 2
  Calls = {"mode", "service", "pf"}
  Faults = {"filters"}
  None = None
SPECIFICATION Spec
INVARIANTS
  TablesWatched
PROPERTIES
  NoStaleSections
