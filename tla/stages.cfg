SPECIFICATION Spec
CONSTANTS
  Page = {p1, p2}
  Labelled = {p1}
  MaxPrepares = 2
  Null = Null
CHECK_DEADLOCK FALSE
INVARIANTS PreparedIsWhole ScoreFilesAgree LabelsKeepTheirAnswer
