CONSTANTS
  Freqs = {"f1", "f2"}
  FreqLists <- MCLists
  Modes <- MCModes
  Programs = 2
  FilterIds = {0, 1, 2}
  Long = {"pat"}
  None = None
SPECIFICATION Spec
INVARIANTS
  FiltersAccounted
  WholeTables
  EndsOnce
PROPERTIES
  
  SectionsOfOwnTs
  TuneAwaited
  FirstSectionAsked
CHECK_DEADLOCK FALSE
