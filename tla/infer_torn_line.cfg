SPECIFICATION Spec
CONSTANTS
  a = a  b = b  p1 = p1  p2 = p2  p3 = p3  old = old  new = new
  None = None  Broken = Broken
  Manifest <- TwoPages
  Models <- OneModel
  Selections <- JustA
  Settings <- OneSetting
  Concurrency = 1
  MaxErrors = 0
  MaxStops = 2
  MaxTears = 1
PROPERTIES LosesOnlyPagesInFlight
