\* A search and three analyses, two models with unstable bytes, two restarts.
SPECIFICATION Spec
CONSTANTS
  Searches = {s1}
  Analyses = {a1, a2, a3}
  Models = {m1, m2}
  Variants = {v1, v2}
  NoFile = nofile
  MaxRestarts = 2
SYMMETRY Symmetry
CHECK_DEADLOCK FALSE
INVARIANTS
  IndexInv
  RefusedOnlyWhenDisturbed
  CompletedIsIndexed
PROPERTIES
  SearchUsesOwnModel
