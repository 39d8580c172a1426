\* An analysis and a question that compete for one slot.
SPECIFICATION FairSpec
CONSTANTS
  Analyses = {a1}
  Questions = {q1}
  Items = {i1}
  NoOne = none
  Capacity = 1
  MaxRetries = 1
CHECK_DEADLOCK FALSE
PROPERTIES
  EveryModelRequestEnds
