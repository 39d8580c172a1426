\* An analysis, a restart with another model, a search.
SPECIFICATION Spec
CONSTANTS
  Searches = {s1}
  Analyses = {a1}
  Models = {m1, m2}
  Variants = {v1}
  NoFile = nofile
  MaxRestarts = 1
CHECK_DEADLOCK FALSE
INVARIANTS
  ModelChangeIsFollowed
