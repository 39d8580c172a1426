\* Every limit with what is one below it, on it and one above it.
SPECIFICATION Spec
CONSTANTS
  MaxFile = 2
  MaxBody = 1
  MaxPages = 2
  MaxChars = 2
  MaxTitle = 1
  PieceSize = 2
  Declared = {3, 4}
  Sizes = {0, 1, 2, 3}
  Overheads = {0, 1, 2}
  Messages = {1, 2}
  Titles = {0, 1, 2}
  Texts = {0, 1, 2}
  MaxChunks = 2
CHECK_DEADLOCK FALSE
INVARIANTS
  UploadInv
  DecidedByLimits
  EvidenceKeepsPages
