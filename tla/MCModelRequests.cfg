\* An analysis and a question that run side by side.
SPECIFICATION MCSpec
CONSTANTS
  Analyses = {a1}
  Questions = {q1}
  Items = {i1, i2}
  NoOne = none
  Capacity = 2
  MaxRetries = 1
  Letters = {"a", "b", "B"}
  Blanks = {" ", "newline"}
  Space = " "
  Fold <- MCFold
  Pages = {1, 2}
  Contents <- MCContents
  Passages <- MCPassages
  MaxChunks = 3
SYMMETRY Symmetry
CHECK_DEADLOCK FALSE
INVARIANTS
  RequestsInv
  OnlyBackedIsStored
  EffortIsBounded
  OneClient
  SlotsAccountedFor
  PassagesAreFound
  AcceptedIsQuoted
