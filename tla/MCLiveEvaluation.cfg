SPECIFICATION MCSpec
CONSTANTS
  Fixtures = 3
  Systems = {gemma, llama}
  Versions = {published, revised}
  None = None
  MaxLaunches = 3
  Fields = {"parties", "payment_terms"}
  Values = {"net 30", "Net 30", "null"}
  Normal <- MCNormal
  Null = "null"
  Missing = "missing"
  Ids = {"c1", "c2"}
  Files <- MCFiles
  MaxPaired = 6
CHECK_DEADLOCK FALSE
INVARIANTS
  EvaluationInv
  CheckpointIsSound
  ReportIsWhole
  StrayUploadsAreBounded
  ObligationsAreMatched
  CopiedLabelsScoreFull
  F1IsClose
PROPERTIES
  ProgressIsKept
