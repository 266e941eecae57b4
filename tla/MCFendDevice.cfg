CONSTANTS
  Lockers = {l1}
  Setters = {s1}
  Handlers = {scanCb}
  Data = {d1}
  Paras = {p1, p2}
  LockFn = LockFn
  None = None
SPECIFICATION FairSpec
INVARIANTS
  LockReturnsStatus
  NoDanglingLock
PROPERTIES
  CallbackNotSwapped
  CallsReturn
