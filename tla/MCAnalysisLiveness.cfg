\* Two attempts that may run side by side, and a reviewer who keeps asking.
SPECIFICATION PersistentSpec
CONSTANTS
  Analyses = {a1, a2}
  Recoveries = {r1}
  Processes = {p1}
  NoOne = none
  Capacity = 2
  RecoveryDelay = 1
  MaxFaults = 1
PROPERTIES
  EveryRequestEnds
  ClaimsAreReleased
