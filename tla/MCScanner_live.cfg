CONSTANTS
  Freqs = {"f1", "f2"}
  FreqLists <- MCLists
  Modes <- MCLiveModes
  Programs = 1
  FilterIds = {0, 1, 2}
  Long = {}
  None = None
SPECIFICATION FairSpec
PROPERTIES
  ScanEnds
  QuitServed
CHECK_DEADLOCK FALSE
