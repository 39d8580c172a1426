\* Two attempts and a recovery on two processes.
SPECIFICATION Spec
CONSTANTS
  Analyses = {a1, a2}
  Recoveries = {r1}
  Processes = {p1, p2}
  NoOne = none
  Capacity = 1
  RecoveryDelay = 1
  MaxFaults = 2
SYMMETRY Symmetry
INVARIANTS
  ProtocolInv
  OnlyTheClaimantWrites
  WholeResults
  TruthfulAnswers
  FailureReleasesClaim
PROPERTIES
  ClaimEndsProperly
  ImplementsLifecycle
