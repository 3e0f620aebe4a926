SPECIFICATION Spec
CONSTANTS
  None = None
  Moves <- MCMoves
  MaxRows = 3
  PageRows = 2
  Start = 1
  LineHeight = 4
  Confidences <- MCConfidences
  Targets <- MCTargets
  MaxFields = 3
  MaxTokens = 4
  MinTextLen = 5
  MaxPeriod = 3
  MinRepeatChars = 4
  MinRepeatTimes = 3
  TableRows = 3
  TableColumns = 3
  MaxText = 10
  MaxBlocks = 2
  Banks <- MCBanks
  Target = 5
  MaxFiles = 4
  Keys = {1, 2, 3}
  Thresholds <- MCThresholds
  MaxLabels = 3
  Units = 4
  Factor = 3
  MinPixels = 36
  MaxPixels = 240
  MaxSide = 15
  MinEdge = 3
  MaxRatio = 4
  HugePixels = 200
  MaxWidth = 40
  CropWidth = 6
CHECK_DEADLOCK FALSE
INVARIANTS LedgerIsJudged StatementsAreRead ReviewJudgesByTruth ThresholdsKeepPromise FeaturesAreOfTheField
           FailureNeverOutscores ScoresAreComparable RepliesFitTheirPages WhatIsSaidIsKept BlocksFitTheModel
           LoadedClassIsUsable
