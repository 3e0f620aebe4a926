SPECIFICATION Spec
CONSTANTS
  a = a  b = b  p1 = p1  p2 = p2  p3 = p3  old = old  new = new
  None = None  Broken = Broken
  Manifest <- ThreePages
  Models <- TwoModels
  Selections <- BothOrB
  Settings <- OneSetting
  Concurrency = 2
  MaxErrors = 1
  MaxStops = 2
  MaxTears = 1
INVARIANTS RunIsOnRecord
PROPERTIES KeepsPromise AllPagesAnswered
