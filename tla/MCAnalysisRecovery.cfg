\* One attempt and one recovery, without any fault.
SPECIFICATION Spec
CONSTANTS
  Analyses = {a1}
  Recoveries = {r1}
  Processes = {p1}
  NoOne = none
  Capacity = 1
  RecoveryDelay = 1
  MaxFaults = 0
PROPERTIES
  RecoverySparesActiveWorkers
