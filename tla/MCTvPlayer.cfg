CONSTANTS
  Services = {"film", "news", "jazz"}
  ChanNum <- MCChanNum
  Kind <- MCKind
  Freq <- MCFreq
  Freqs = {"f1", "f2"}
  Faults = {"db", "av", "tune", "others"}
  None = None
SPECIFICATION FairSpec
INVARIANTS
  PlaysWhatIsChosen
PROPERTIES
  StartsOnOwnReport
  ChosenPlays
CHECK_DEADLOCK FALSE
